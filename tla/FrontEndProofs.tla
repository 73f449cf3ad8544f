--------------------------- MODULE FrontEndProofs ---------------------------
(***************************************************************************)
(* Of the two components that turn a source into code and share no state:    *)
(*                                                                         *)
(* The scanner on every source: it never steps over the terminator, every    *)
(* step but the last takes it forward, tokens do not overlap, and lines are   *)
(* those of the source whichever loop passed their newlines.                *)
(*                                                                         *)
(* The compiler's blocks, if, while, for, break and continue, on every plain  *)
(* program whose code is short: wherever its jumps lead, the stack holds the  *)
(* local variables the compiler counts.                                     *)
(***************************************************************************)
EXTENDS Scanner, Loops, FiniteSetTheorems, SequenceTheorems, WellFoundedInduction, TLAPS

(* A set of positions that is not empty has a least one.                     *)
LEMMA LeastNat ==
    ASSUME NEW S \in SUBSET Nat, S # {}
    PROVE  \E m \in S : \A n \in S : m <= n
<1> DEFINE R == {ss \in Nat \X Nat : ss[1] < ss[2]}
<1>1. IsWellFoundedOn(R, Nat)
  BY NatLessThanWellFounded DEF OpToRel
<1>2. \E x \in S : \A y \in S : <<y, x>> \notin R
  <2> HIDE DEF R
  <2>1. QED BY <1>1, WFMin, Zenon
<1>3. PICK m \in S : \A n \in S : <<n, m>> \notin R
  BY <1>2
<1>4. ASSUME NEW n \in S PROVE m <= n
  <2>1. n \in Nat /\ m \in Nat
    OBVIOUS
  <2>2. n < m => <<n, m>> \in R
    BY <2>1
  <2>3. <<n, m>> \notin R
    BY <1>3
  <2>4. QED BY <2>1, <2>2, <2>3
<1>5. QED BY <1>4

-----------------------------------------------------------------------------
(* The scanner.                                                             *)

Length == Len(source)

(* The positions of the source, and that of its terminator.                  *)
LEMMA Positions ==
    ASSUME source \in Sources
    PROVE  /\ Length \in Nat
           /\ \A i \in 1 .. Length : ~AtEnd(i)
           /\ \A i \in Int : i > Length => AtEnd(i)
<1>1. Length \in Nat
  BY ScannerAssumption DEF Length
<1>2. ASSUME NEW i \in 1 .. Length PROVE ~AtEnd(i)
  BY <1>1, ScannerAssumption DEF AtEnd, Char, Length
<1>3. ASSUME NEW i \in Int, i > Length PROVE AtEnd(i)
  BY <1>1, <1>3 DEF AtEnd, Char, Length
<1>4. QED BY <1>1, <1>2, <1>3

(* A character that is not the terminator is in the source.                  *)
LEMMA Within ==
    ASSUME source \in Sources, NEW i \in 1 .. Length + 1, ~AtEnd(i)
    PROVE  i \in 1 .. Length /\ i + 1 \in 1 .. Length + 1
BY Positions

(* The first position at which a loop's test fails.                         *)
LEMMA FirstStop ==
    ASSUME source \in Sources, NEW i \in 1 .. Length + 1, NEW Stops, Terminator \in Stops
    PROVE  \E j \in i .. Length + 1 :
              Char(j) \in Stops /\ \A k \in i .. j - 1 : Char(k) \notin Stops
<1> DEFINE S == {j \in i .. Length + 1 : Char(j) \in Stops}
<1>1. Length \in Nat
  BY Positions
<1>2. Length + 1 \in S
  <2>1. AtEnd(Length + 1)
    BY <1>1, Positions
  <2>2. QED BY <1>1, <2>1 DEF AtEnd
<1>3. S \in SUBSET Nat
  BY <1>1
<1>4. PICK m \in S : \A n \in S : m <= n
  BY <1>2, <1>3, LeastNat
<1>5. ASSUME NEW k \in i .. m - 1 PROVE Char(k) \notin Stops
  <2>1. k \notin S
    BY <1>1, <1>4
  <2>2. QED BY <1>1, <2>1
<1>6. QED BY <1>4, <1>5

(* identifier and the digits of a literal stop within the source.            *)
LEMMA PastStops ==
    ASSUME source \in Sources, NEW i \in 1 .. Length + 1, NEW set, Terminator \notin set
    PROVE  /\ Past(i, set) \in i .. Length + 1
           /\ Char(Past(i, set)) \notin set
           /\ \A k \in i .. Past(i, set) - 1 : Char(k) \in set
<1> DEFINE P(j) == Char(j) \notin set /\ \A k \in i .. j - 1 : Char(k) \in set
<1> DEFINE Stops == {Char(j) : j \in i .. Length + 1} \ set
<1>1. Length \in Nat /\ AtEnd(Length + 1)
  BY Positions
<1>2. Terminator \in Stops
  BY <1>1 DEF AtEnd
<1>3. PICK j \in i .. Length + 1 :
        Char(j) \in Stops /\ \A k \in i .. j - 1 : Char(k) \notin Stops
  <2> HIDE DEF Stops
  <2>1. QED BY <1>2, FirstStop
<1>4. P(j)
  BY <1>1, <1>3
<1>5. Past(i, set) = CHOOSE jj \in i .. Length + 1 : P(jj)
  BY DEF Past, Length
<1>6. Past(i, set) \in i .. Length + 1 /\ P(Past(i, set))
  <2> HIDE DEF P
  <2>1. QED BY <1>4, <1>5
<1>7. QED BY <1>6

(* line_comment and string stop within the source.                          *)
LEMMA UntilStops ==
    ASSUME source \in Sources, NEW i \in 1 .. Length + 1, NEW set
    PROVE  /\ Until(i, set) \in i .. Length + 1
           /\ Char(Until(i, set)) \in set \cup {Terminator}
           /\ \A k \in i .. Until(i, set) - 1 : Char(k) \notin set
<1> DEFINE P(j) == Char(j) \in set \cup {Terminator} /\ \A k \in i .. j - 1 : Char(k) \notin set
<1>1. PICK j \in i .. Length + 1 :
        Char(j) \in set \cup {Terminator} /\ \A k \in i .. j - 1 : Char(k) \notin set \cup {Terminator}
  BY FirstStop
<1>2. P(j)
  BY <1>1
<1>3. Until(i, set) = CHOOSE jj \in i .. Length + 1 : P(jj)
  BY DEF Until, Length
<1>4. Until(i, set) \in i .. Length + 1 /\ P(Until(i, set))
  <2> HIDE DEF P
  <2>1. QED BY <1>2, <1>3
<1>5. QED BY <1>4

-----------------------------------------------------------------------------
(* Lines.                                                                  *)

(* Characters and newlines as functions of the text.                         *)
CharOf(s, i) == IF i > Len(s) THEN Terminator ELSE SubSeq(s, i, i)

NewlinesOf(s, i, j) == {k \in i .. j - 1 : CharOf(s, k) = Newline}

LinesOf(s, i, j) == Cardinality(NewlinesOf(s, i, j))

LEMMA LinesAreThoseOfTheSource ==
    \A i, j : Newlines(i, j) = LinesOf(source, i, j)
BY DEF Newlines, LinesOf, NewlinesOf, Char, CharOf

LEMMA LinesAreThoseOfTheNextSource ==
    \A i, j : Newlines(i, j)' = LinesOf(source', i, j)
BY DEF Newlines, LinesOf, NewlinesOf, Char, CharOf

LEMMA NewlinesFinite ==
    ASSUME NEW s, NEW i \in Int, NEW j \in Int
    PROVE  IsFiniteSet(NewlinesOf(s, i, j))
<1>1. IsFiniteSet(i .. j - 1)
  BY FS_Interval
<1>2. NewlinesOf(s, i, j) \in SUBSET (i .. j - 1)
  BY DEF NewlinesOf
<1>3. QED BY <1>1, <1>2, FS_Subset

(* There are no more newlines than characters.                              *)
LEMMA LinesBound ==
    ASSUME NEW s, NEW i \in Int, NEW j \in Int, i <= j
    PROVE  LinesOf(s, i, j) \in Nat /\ LinesOf(s, i, j) <= j - i
<1>1. IsFiniteSet(i .. j - 1) /\ Cardinality(i .. j - 1) = IF i > j - 1 THEN 0 ELSE (j - 1) - i + 1
  BY FS_Interval
<1>2. Cardinality(i .. j - 1) = j - i
  BY <1>1
<1>3. NewlinesOf(s, i, j) \in SUBSET (i .. j - 1)
  BY DEF NewlinesOf
<1>4. LinesOf(s, i, j) <= Cardinality(i .. j - 1)
  BY <1>1, <1>3, FS_Subset DEF LinesOf
<1>5. LinesOf(s, i, j) \in Nat
  BY NewlinesFinite, FS_CardinalityType DEF LinesOf
<1>6. QED BY <1>2, <1>4, <1>5

(* The newlines of a text are those of its parts.                           *)
LEMMA LinesAdd ==
    ASSUME NEW s, NEW i \in Int, NEW j \in Int, NEW k \in Int, i <= j, j <= k
    PROVE  LinesOf(s, i, k) = LinesOf(s, i, j) + LinesOf(s, j, k)
<1> DEFINE A == NewlinesOf(s, i, j)
<1> DEFINE B == NewlinesOf(s, j, k)
<1>1. A \cup B = NewlinesOf(s, i, k) /\ A \cap B = {}
  BY DEF NewlinesOf
<1>2. IsFiniteSet(A) /\ IsFiniteSet(B)
  BY NewlinesFinite
<1>3. Cardinality(A) \in Nat /\ Cardinality(B) \in Nat
  BY <1>2, FS_CardinalityType
<1>4. Cardinality(A \cap B) = 0
  BY <1>1, FS_EmptySet
<1> HIDE DEF A, B
<1>5. Cardinality(A \cup B) = Cardinality(A) + Cardinality(B) - Cardinality(A \cap B)
  BY <1>2, FS_Union
<1>6. Cardinality(A \cup B) = Cardinality(A) + Cardinality(B)
  BY <1>3, <1>4, <1>5
<1>7. QED BY <1>1, <1>6 DEF LinesOf, A, B

(* A text without newlines has none.                                        *)
LEMMA NoLines ==
    ASSUME NEW s, NEW i \in Int, NEW j \in Int, \A k \in i .. j - 1 : CharOf(s, k) # Newline
    PROVE  LinesOf(s, i, j) = 0
<1>1. NewlinesOf(s, i, j) = {}
  BY DEF NewlinesOf
<1>2. QED BY <1>1, FS_EmptySet DEF LinesOf

(* A newline is one.                                                       *)
LEMMA OneLine ==
    ASSUME NEW s, NEW i \in Int, CharOf(s, i) = Newline
    PROVE  LinesOf(s, i, i + 1) = 1
<1>1. NewlinesOf(s, i, i + 1) = {i}
  BY DEF NewlinesOf
<1>2. QED BY <1>1, FS_Singleton DEF LinesOf

-----------------------------------------------------------------------------
(* Tokens.                                                                 *)

(* No token's text has a place for the terminator.                          *)
LEMMA EndIsOther ==
    /\ Terminator \notin Letters \cup Digits \cup HexDigits \cup Blanks \cup {Newline, Quote}
    /\ Terminator \notin {"0", "1", ".", "e", "+", "-", "b", "B", "x", "X", "/", "*", "=", "<", ">"}
BY DEF Terminator, Letters, Digits, HexDigits, Blanks, Newline, Quote

(* A token with a type, that ends at i or later and in the source.            *)
EndsIn(token, i) == token.type \in Types /\ token.to \in i .. Length + 1

LEMMA TokenFields ==
    \A type, to : Token(type, to).type = type /\ Token(type, to).to = to
BY DEF Token

LEMMA ErrorFields ==
    \A to : Error(to).type = "error" /\ Error(to).to = to
BY DEF Error, Token

(* A later bound is a stronger one.                                         *)
LEMMA EndsLater ==
    ASSUME NEW i \in Int, NEW j \in Int, i <= j, Length \in Nat, NEW token, EndsIn(token, j)
    PROVE  EndsIn(token, i)
BY DEF EndsIn

LEMMA TypesHave ==
    /\ {"error", "number", "string", "identifier"} \cup Singles \subseteq Types
    /\ \A text : IdentifierType(text) \in Types
    /\ \A c \in DOMAIN Seconds : c \in Types /\ \A d \in Seconds[c] : c \o d \in Types
<1>1. {"error", "number", "string", "identifier"} \cup Singles \subseteq Types
  BY DEF Types
<1>2. ASSUME NEW text PROVE IdentifierType(text) \in Types
  <2> DEFINE taken == {b \in Branches :
                Len(text) >= Len(b.letters) /\ SubSeq(text, 1, Len(b.letters)) = b.letters}
  <2> DEFINE found == \E b \in taken : CheckKeyword(text, Len(b.letters), b.length, b.rest)
  <2>1. IdentifierType(text) = IF found THEN (CHOOSE b \in taken : TRUE).type ELSE "identifier"
    BY DEF IdentifierType
  <2>2. found => (CHOOSE b \in taken : TRUE) \in Branches
    <3>1. taken \subseteq Branches
      OBVIOUS
    <3>2. found => taken # {}
      OBVIOUS
    <3> HIDE DEF taken, found
    <3>3. QED BY <3>1, <3>2
  <2> HIDE DEF taken, found
  <2>3. \A b \in Branches : b.type \in Types
    BY DEF Types
  <2>4. QED BY <1>1, <2>1, <2>2, <2>3
<1>3. ASSUME NEW c \in DOMAIN Seconds
      PROVE  c \in Types /\ \A d \in Seconds[c] : c \o d \in Types
  <2> DEFINE row == {c} \cup {c \o d : d \in Seconds[c]}
  <2> DEFINE rows == {{cc} \cup {cc \o d : d \in Seconds[cc]} : cc \in DOMAIN Seconds}
  <2>1. row \in rows
    BY <1>3
  <2>2. UNION rows \subseteq Types
    BY DEF Types
  <2>3. row \subseteq Types
    <3> HIDE DEF row, rows
    <3>1. QED BY <2>1, <2>2
  <2>4. QED BY <2>3
<1>4. QED BY <1>1, <1>2, <1>3

LEMMA IdentifierEnds ==
    ASSUME source \in Sources, NEW i \in 1 .. Length + 1
    PROVE  EndsIn(Identifier(i), i)
<1>1. Past(i, Letters \cup Digits) \in i .. Length + 1
  BY PastStops, EndIsOther
<1>2. QED BY <1>1, TypesHave, TokenFields DEF Identifier, EndsIn

LEMMA SomeDigitsEnds ==
    ASSUME source \in Sources, NEW i \in 1 .. Length + 1
    PROVE  EndsIn(SomeDigits(i), i)
<1>1. Past(i, Digits) \in i .. Length + 1
  BY PastStops, EndIsOther
<1>2. i \in i .. Length + 1
  BY Positions
<1>3. QED BY <1>1, <1>2, TypesHave, TokenFields, ErrorFields DEF SomeDigits, EndsIn

LEMMA FractionEnds ==
    ASSUME source \in Sources, NEW i \in 1 .. Length + 1
    PROVE  EndsIn(Fraction(i), i)
<1>1. Length \in Nat
  BY Positions
<1>2. CASE Char(i) = "."
  <2>1. i + 1 \in 1 .. Length + 1
    BY <1>2, Within, EndIsOther DEF AtEnd
  <2>2. EndsIn(Fraction(i), i + 1)
    BY <1>2, <2>1, SomeDigitsEnds DEF Fraction
  <2>3. QED BY <1>1, <2>2, EndsLater
<1>3. CASE Char(i) # "."
  BY <1>1, <1>3, TypesHave, TokenFields DEF Fraction, EndsIn
<1>4. QED BY <1>2, <1>3

LEMMA ExponentEnds ==
    ASSUME source \in Sources, NEW i \in 1 .. Length + 1
    PROVE  EndsIn(Exponent(i), i)
<1>1. Length \in Nat
  BY Positions
<1>2. CASE Char(i) # "e"
  BY <1>1, <1>2, TypesHave, TokenFields DEF Exponent, EndsIn
<1>3. CASE Char(i) = "e"
  <2>1. i + 1 \in 1 .. Length + 1
    BY <1>3, Within, EndIsOther DEF AtEnd
  <2>2. Char(i + 1) \in {"+", "-"} => i + 2 \in 1 .. Length + 1
    BY <2>1, <1>1, Within, EndIsOther DEF AtEnd
  <2>3. PICK j \in {i + 1, i + 2} : j \in 1 .. Length + 1 /\ Exponent(i) = SomeDigits(j)
    BY <1>3, <2>1, <2>2 DEF Exponent
  <2>4. EndsIn(Exponent(i), j)
    BY <2>3, SomeDigitsEnds
  <2>5. QED BY <1>1, <2>3, <2>4, EndsLater
<1>4. QED BY <1>2, <1>3

LEMMA NumberEnds ==
    ASSUME source \in Sources, NEW i \in 1 .. Length + 1
    PROVE  EndsIn(Number(i), i)
<1>1. Length \in Nat
  BY Positions
<1>2. Char(i) \in {"b", "B", "x", "X"} => i + 1 \in 1 .. Length + 1
  BY Within, EndIsOther DEF AtEnd
<1>3. ASSUME i + 1 \in 1 .. Length + 1 PROVE EndsIn(BinaryNumber(i + 1), i)
  <2>1. Past(i + 1, {"0", "1"}) \in i + 1 .. Length + 1
    BY <1>3, PastStops, EndIsOther
  <2>2. EndsIn(BinaryNumber(i + 1), i + 1)
    BY <2>1, TypesHave, TokenFields, ErrorFields DEF BinaryNumber, EndsIn
  <2>3. QED BY <1>1, <2>2, EndsLater
<1>4. ASSUME i + 1 \in 1 .. Length + 1 PROVE EndsIn(HexadecimalNumber(i + 1), i)
  <2>1. Past(i + 1, HexDigits) \in i + 1 .. Length + 1
    BY <1>4, PastStops, EndIsOther
  <2>2. EndsIn(HexadecimalNumber(i + 1), i + 1)
    BY <2>1, TypesHave, TokenFields DEF HexadecimalNumber, EndsIn
  <2>3. QED BY <1>1, <2>2, EndsLater
<1>5. EndsIn(DecimalNumber(i), i)
  <2> DEFINE digits == Past(i, Digits)
  <2> DEFINE fraction == Fraction(digits)
  <2>1. digits \in i .. Length + 1
    BY PastStops, EndIsOther
  <2> HIDE DEF digits
  <2>2. EndsIn(fraction, digits)
    BY <1>1, <2>1, FractionEnds
  <2>3. EndsIn(fraction, i)
    BY <1>1, <2>1, <2>2, EndsLater
  <2>4. DecimalNumber(i) = IF fraction.type = "error" THEN fraction ELSE Exponent(fraction.to)
    BY DEF DecimalNumber, digits
  <2> HIDE DEF fraction
  <2>5. fraction.to \in i .. Length + 1
    BY <2>3 DEF EndsIn
  <2>6. EndsIn(Exponent(fraction.to), fraction.to)
    BY <1>1, <2>5, ExponentEnds
  <2>7. EndsIn(Exponent(fraction.to), i)
    BY <1>1, <2>5, <2>6, EndsLater
  <2>8. QED BY <2>3, <2>4, <2>7
<1>6. QED BY <1>2, <1>3, <1>4, <1>5 DEF Number

LEMMA StringEnds ==
    ASSUME source \in Sources, NEW i \in 1 .. Length + 1
    PROVE  EndsIn(String(i), i)
<1> DEFINE to == Until(i, {Quote})
<1>1. Length \in Nat
  BY Positions
<1>2. to \in i .. Length + 1
  BY UntilStops
<1>3. String(i) = IF AtEnd(to) THEN Error(to) ELSE Token("string", to + 1)
  BY DEF String
<1> HIDE DEF to
<1>4. CASE AtEnd(to)
  BY <1>2, <1>3, <1>4, TypesHave, ErrorFields DEF EndsIn
<1>5. CASE ~AtEnd(to)
  <2>1. to + 1 \in i .. Length + 1
    BY <1>1, <1>2, <1>5, Within
  <2>2. QED BY <1>3, <1>5, <2>1, TypesHave, TokenFields DEF EndsIn
<1>6. QED BY <1>4, <1>5

LEMMA OperatorEnds ==
    ASSUME source \in Sources, NEW i \in 1 .. Length + 1, Char(i - 1) \in DOMAIN Seconds
    PROVE  EndsIn(Operator(i), i)
<1>1. Length \in Nat
  BY Positions
<1>2. CASE Char(i) \in Seconds[Char(i - 1)]
  <2>1. Char(i) # Terminator
    <3>1. \A c \in DOMAIN Seconds : Seconds[c] \subseteq {"=", "<", ">"}
      BY DEF Seconds
    <3>2. QED BY <1>2, <3>1, EndIsOther
  <2>2. i + 1 \in i .. Length + 1
    BY <1>1, <2>1, Within DEF AtEnd
  <2>3. Char(i - 1) \o Char(i) \in Types
    BY <1>2, TypesHave
  <2>4. Operator(i) = Token(Char(i - 1) \o Char(i), i + 1)
    BY <1>2 DEF Operator
  <2>5. QED BY <2>2, <2>3, <2>4, TokenFields DEF EndsIn
<1>3. CASE Char(i) \notin Seconds[Char(i - 1)]
  <2>1. Operator(i) = Token(Char(i - 1), i)
    BY <1>3 DEF Operator
  <2>2. QED BY <1>1, <2>1, TypesHave, TokenFields DEF EndsIn
<1>4. QED BY <1>2, <1>3

(* scanner_scan_token stays within the source, whatever it reads.            *)
LEMMA ReadEnds ==
    ASSUME source \in Sources, NEW i \in 1 .. Length
    PROVE  EndsIn(Read(Char(i), i + 1), i + 1)
<1>1. Length \in Nat /\ i + 1 \in 1 .. Length + 1 /\ i + 1 \in i + 1 .. Length + 1 /\ (i + 1) - 1 = i
  BY Positions
<1>2. CASE Char(i) \in Letters
  <2>1. Char(i) \notin Digits \cup Singles \cup DOMAIN Seconds \cup {Quote}
    BY <1>2 DEF Letters, Digits, HexDigits, Singles, Seconds, Quote
  <2>2. Read(Char(i), i + 1) = Identifier(i + 1)
    BY <1>2, <2>1, Zenon DEF Read
  <2>3. QED BY <1>1, <2>2, IdentifierEnds
<1>3. CASE Char(i) \in Digits
  <2>1. Char(i) \notin Letters \cup Singles \cup DOMAIN Seconds \cup {Quote}
    BY <1>3 DEF Letters, Digits, HexDigits, Singles, Seconds, Quote
  <2>2. Read(Char(i), i + 1) = Number(i + 1)
    BY <1>3, <2>1, Zenon DEF Read
  <2>3. QED BY <1>1, <2>2, NumberEnds
<1>4. CASE Char(i) \in Singles
  <2>1. Char(i) \notin Letters \cup Digits \cup DOMAIN Seconds \cup {Quote}
    BY <1>4 DEF Letters, Digits, HexDigits, Singles, Seconds, Quote
  <2>2. Read(Char(i), i + 1) = Token(Char(i), i + 1)
    BY <1>4, <2>1, Zenon DEF Read
  <2>3. QED BY <1>1, <1>4, <2>2, TypesHave, TokenFields DEF EndsIn
<1>5. CASE Char(i) \in DOMAIN Seconds
  <2>1. Char(i) \notin Letters \cup Digits \cup Singles \cup {Quote}
    BY <1>5 DEF Letters, Digits, HexDigits, Singles, Seconds, Quote
  <2>2. Read(Char(i), i + 1) = Operator(i + 1)
    BY <1>5, <2>1, Zenon DEF Read
  <2>3. QED BY <1>1, <1>5, <2>2, OperatorEnds
<1>6. CASE Char(i) = Quote
  <2>1. Char(i) \notin Letters \cup Digits \cup Singles \cup DOMAIN Seconds
    BY <1>6 DEF Letters, Digits, HexDigits, Singles, Seconds, Quote
  <2>2. Read(Char(i), i + 1) = String(i + 1)
    BY <1>6, <2>1 DEF Read
  <2>3. QED BY <1>1, <2>2, StringEnds
<1>7. CASE Char(i) \notin Letters \cup Digits \cup Singles \cup DOMAIN Seconds \cup {Quote}
  <2>1. Read(Char(i), i + 1) = Error(i + 1)
    BY <1>7 DEF Read
  <2>2. QED BY <1>1, <2>1, TypesHave, ErrorFields DEF EndsIn
<1>8. QED BY <1>2, <1>3, <1>4, <1>5, <1>6, <1>7

-----------------------------------------------------------------------------
(* The invariant.                                                          *)

(* The line of a token, or of where an error was found.                      *)
LineOf(s, token) ==
    1 + LinesOf(s, 1, IF token.type = "error" THEN token.to ELSE token.from)

(* The tokens that a source of this length may give.                         *)
TokensOf(s) ==
    {token \in [type : Types, from : 1 .. Len(s) + 1, to : 1 .. Len(s) + 1, line : Int] :
        token.from <= token.to /\ token.line = LineOf(s, token)}

(* Tokens do not overlap, and only the one that ends the source is empty.      *)
InOrder ==
    /\ \A i \in 1 .. Len(tokens) :
          tokens[i].from < tokens[i].to \/ (i = Len(tokens) /\ Finished)
    /\ \A i, j \in 1 .. Len(tokens) : i < j => tokens[i].to <= tokens[j].from

ScanInv ==
    /\ source \in Sources
    /\ current \in 1 .. Len(source) + 1
    /\ line = 1 + LinesOf(source, 1, current)
    /\ inside_comment \in BOOLEAN
    /\ inside_comment => AtEnd(current)
    /\ tokens \in Seq(TokensOf(source))
    /\ \A i \in 1 .. Len(tokens) : tokens[i].to <= current
    /\ InOrder

LEMMA InitInv == Init => ScanInv
<1> SUFFICES ASSUME Init PROVE ScanInv
  OBVIOUS
<1>1. Length \in Nat
  BY Positions DEF Init
<1>2. LinesOf(source, 1, 1) = 0
  BY NoLines
<1>3. tokens = <<>> /\ tokens \in Seq(TokensOf(source)) /\ Len(tokens) = 0
  BY DEF Init
<1>4. 1 .. Len(tokens) = {}
  BY <1>3
<1>5. InOrder
  BY <1>4 DEF InOrder
<1>6. current = 1 /\ line = 1 /\ inside_comment = FALSE /\ source \in Sources
  BY DEF Init
<1>7. line = 1 + LinesOf(source, 1, current)
  BY <1>2, <1>6
<1>8. current \in 1 .. Len(source) + 1
  BY <1>1, <1>6 DEF Length
<1>9. QED BY <1>3, <1>4, <1>5, <1>6, <1>7, <1>8 DEF ScanInv

(* What a step that skips leads to.                                        *)
Skipped ==
    /\ UNCHANGED <<source, tokens>>
    /\ current' \in current + 1 .. Length + 1
    /\ line' = line + LinesOf(source, current, current')
    /\ inside_comment' \in BOOLEAN
    /\ inside_comment' => AtEnd(current')
    /\ ~Finished

LEMMA SkipBlankMoves ==
    ASSUME ScanInv, SkipBlank
    PROVE  Skipped
<1>1. Length \in Nat /\ current \in 1 .. Length + 1
  BY Positions DEF ScanInv, Length
<1>2. ~AtEnd(current)
  BY EndIsOther DEF SkipBlank, AtEnd
<1>3. current \in 1 .. Length
  BY <1>1, <1>2, Within DEF ScanInv
<1>4. current' = current + 1 /\ UNCHANGED <<source, tokens, inside_comment>> /\ ~Finished
  BY DEF SkipBlank, Skip, Advance
<1>5. /\ Char(current) = Newline => line' = line + 1
      /\ Char(current) # Newline => line' = line + 0
  BY DEF SkipBlank, Skip
<1>6. Char(current) = CharOf(source, current)
  BY DEF Char, CharOf
<1>7. line' = line + LinesOf(source, current, current + 1)
  <2>1. CASE Char(current) = Newline
    <3>1. current \in Int /\ CharOf(source, current) = Newline
      BY <1>1, <1>6, <2>1
    <3>2. LinesOf(source, current, current + 1) = 1
      BY <3>1, OneLine
    <3>3. QED BY <1>5, <2>1, <3>2
  <2>2. CASE Char(current) # Newline
    <3>1. \A k \in current .. (current + 1) - 1 : CharOf(source, k) # Newline
      BY <1>1, <1>6, <2>2
    <3>2. LinesOf(source, current, current + 1) = 0
      BY <1>1, <3>1, NoLines
    <3>3. QED BY <1>5, <2>2, <3>2
  <2>3. QED BY <2>1, <2>2
<1>8. ~inside_comment
  BY <1>2 DEF ScanInv
<1>9. current' \in current + 1 .. Length + 1 /\ inside_comment' = FALSE
  BY <1>1, <1>3, <1>4, <1>8 DEF ScanInv
<1>10. line' = line + LinesOf(source, current, current')
  BY <1>4, <1>7
<1>11. QED BY <1>4, <1>9, <1>10 DEF Skipped

LEMMA LineCommentMoves ==
    ASSUME ScanInv, LineComment
    PROVE  Skipped
<1> DEFINE to == Until(current, {Newline})
<1>1. Length \in Nat /\ current \in 1 .. Length + 1 /\ source \in Sources
  BY Positions DEF ScanInv, Length
<1>2. Char(current) = "/"
  BY DEF LineComment, Starts
<1>3. ~AtEnd(current)
  BY <1>2, EndIsOther DEF AtEnd
<1>4. /\ to \in current .. Length + 1
      /\ Char(to) \in {Newline, Terminator}
      /\ \A k \in current .. to - 1 : Char(k) # Newline
  BY <1>1, UntilStops
<1>5. /\ current' = to /\ line' = line + 0
      /\ UNCHANGED <<source, tokens, inside_comment>> /\ ~Finished
  BY DEF LineComment, Skip
<1>6. to # current
  BY <1>2, <1>4, EndIsOther DEF Newline
<1> HIDE DEF to
<1>7. \A k \in current .. to - 1 : CharOf(source, k) # Newline
  BY <1>4 DEF Char, CharOf
<1>8. LinesOf(source, current, to) = 0
  BY <1>1, <1>4, <1>7, NoLines
<1>9. ~inside_comment
  BY <1>3 DEF ScanInv
<1>10. current' \in current + 1 .. Length + 1
  BY <1>1, <1>4, <1>5, <1>6
<1>11. line' = line + LinesOf(source, current, current')
  BY <1>5, <1>8
<1>12. inside_comment' = FALSE
  BY <1>5, <1>9 DEF ScanInv
<1>13. QED BY <1>5, <1>10, <1>11, <1>12 DEF Skipped

LEMMA BlockCommentMoves ==
    ASSUME ScanInv, BlockComment
    PROVE  Skipped
<1>1. Length \in Nat /\ current \in 1 .. Length + 1 /\ source \in Sources
  BY Positions DEF ScanInv, Length
<1>2. Char(current) = "/"
  BY DEF BlockComment, Starts
<1>3. PICK i \in current .. Length + 1 :
        /\ AtEnd(i) \/ (Char(i) = "*" /\ Char(i + 1) = "/")
        /\ Skip(After(i), NewlinesReached(current, i))
        /\ inside_comment' = AtEnd(i)
  BY DEF BlockComment, Length
<1>4. i \in current + 1 .. Length + 1
  <2>1. i # current
    BY <1>2, <1>3, EndIsOther DEF AtEnd
  <2>2. QED BY <1>1, <1>3, <2>1
<1>5. UNCHANGED <<source, tokens>> /\ ~Finished
  BY <1>3 DEF Skip
<1>6. current' = After(i) /\ line' = line + LinesOf(source, current + 1, i + 1)
  BY <1>3, LinesAreThoseOfTheSource DEF Skip, NewlinesReached
<1>7. CharOf(source, current) # Newline /\ CharOf(source, i) # Newline
  <2>1. Char(current) # Newline /\ Char(i) # Newline
    BY <1>2, <1>3, EndIsOther DEF AtEnd, Newline
  <2>2. QED BY <2>1 DEF Char, CharOf
<1>8. LinesOf(source, current, i) = LinesOf(source, current + 1, i + 1)
  <2>1. LinesOf(source, current, current + 1) = 0
    BY <1>1, <1>7, NoLines
  <2>2. LinesOf(source, i, i + 1) = 0
    BY <1>1, <1>4, <1>7, NoLines
  <2>3. LinesOf(source, current, i) = LinesOf(source, current, current + 1) + LinesOf(source, current + 1, i)
    BY <1>1, <1>4, LinesAdd
  <2>4. LinesOf(source, current + 1, i + 1) = LinesOf(source, current + 1, i) + LinesOf(source, i, i + 1)
    BY <1>1, <1>4, LinesAdd
  <2>5. LinesOf(source, current + 1, i) \in Nat
    BY <1>1, <1>4, LinesBound
  <2>6. QED BY <2>1, <2>2, <2>3, <2>4, <2>5
<1>9. CASE AtEnd(i)
  <2>1. current' = i
    BY <1>6, <1>9 DEF After
  <2>2. inside_comment' = TRUE /\ AtEnd(current')
    BY <1>3, <1>9, <2>1
  <2>3. QED BY <1>4, <1>5, <1>6, <1>8, <2>1, <2>2 DEF Skipped
<1>10. CASE ~AtEnd(i)
  <2>1. current' = i + 2 /\ Char(i) = "*" /\ Char(i + 1) = "/"
    BY <1>3, <1>6, <1>10 DEF After
  <2>2. i + 1 \in 1 .. Length + 1
    BY <1>1, <1>4, <1>10, Within
  <2>3. i + 2 \in 1 .. Length + 1
    <3>1. ~AtEnd(i + 1)
      BY <2>1, EndIsOther DEF AtEnd
    <3>2. QED BY <1>1, <1>4, <2>2, <3>1, Within
  <2>4. LinesOf(source, i, i + 2) = 0
    <3>1. \A k \in i .. (i + 2) - 1 : k = i \/ k = i + 1
      BY <1>1, <1>4
    <3>2. CharOf(source, i + 1) # Newline
      BY <2>1 DEF Char, CharOf, Newline
    <3>3. QED BY <1>1, <1>4, <1>7, <3>1, <3>2, NoLines
  <2>5. LinesOf(source, current, i + 2) = LinesOf(source, current, i) + LinesOf(source, i, i + 2)
    BY <1>1, <1>4, LinesAdd
  <2>6. LinesOf(source, current, i) \in Nat
    BY <1>1, <1>4, LinesBound
  <2>7. inside_comment' = FALSE
    BY <1>3, <1>10 DEF AtEnd
  <2>8. current' \in current + 1 .. Length + 1
    BY <1>1, <1>4, <2>1, <2>3
  <2>9. line' = line + LinesOf(source, current, current')
    BY <1>6, <1>8, <2>1, <2>4, <2>5, <2>6
  <2>10. QED BY <1>5, <2>7, <2>8, <2>9 DEF Skipped
<1>11. QED BY <1>9, <1>10

(* The character at a place is that of the source, before and after a step.     *)
LEMMA AtEndOf == \A i : AtEnd(i) = (CharOf(source, i) = Terminator)
BY DEF AtEnd, Char, CharOf

LEMMA AtEndOfNext == \A i : AtEnd(i)' = (CharOf(source', i') = Terminator)
BY DEF AtEnd, Char, CharOf

(* The number of a line, a part further on.                                 *)
LEMMA LineMoves ==
    ASSUME ScanInv, NEW to \in current .. Length + 1
    PROVE  line + LinesOf(source, current, to) = 1 + LinesOf(source, 1, to)
<1>1. Length \in Nat /\ current \in 1 .. Length + 1
  BY Positions DEF ScanInv, Length
<1>2. LinesOf(source, 1, to) = LinesOf(source, 1, current) + LinesOf(source, current, to)
  BY <1>1, LinesAdd
<1>3. LinesOf(source, 1, current) \in Nat /\ LinesOf(source, current, to) \in Nat
  BY <1>1, LinesBound
<1>4. line = 1 + LinesOf(source, 1, current)
  BY DEF ScanInv
<1>5. QED BY <1>2, <1>3, <1>4

LEMMA SkippedInv ==
    ASSUME ScanInv, Skipped
    PROVE  ScanInv'
<1>1. Length \in Nat /\ current \in 1 .. Length + 1
  BY Positions DEF ScanInv, Length
<1>2. source' = source /\ tokens' = tokens /\ ~Finished /\ ~Finished'
  BY DEF Skipped, Finished
<1>3. current' \in current + 1 .. Len(source) + 1
  BY DEF Skipped, Length
<1>4. line' = 1 + LinesOf(source', 1, current')
  <2>1. current' \in current .. Length + 1
    BY <1>1, <1>3 DEF Length
  <2>2. QED BY <1>2, <2>1, LineMoves DEF Skipped
<1>5. inside_comment' \in BOOLEAN
  BY DEF Skipped
<1>6. inside_comment' => AtEnd(current)'
  BY <1>2, AtEndOf, AtEndOfNext DEF Skipped
<1>7. tokens' \in Seq(TokensOf(source'))
  BY <1>2 DEF ScanInv
<1>8. ASSUME NEW i \in 1 .. Len(tokens)' PROVE tokens'[i].to <= current'
  <2>1. tokens[i].to <= current /\ tokens[i] \in TokensOf(source)
    BY <1>2 DEF ScanInv
  <2>2. tokens[i].to \in Int
    BY <2>1 DEF TokensOf
  <2>3. QED BY <1>1, <1>2, <1>3, <2>1, <2>2 DEF Length
<1>9. InOrder'
  BY <1>2 DEF ScanInv, InOrder
<1>10. source' \in Sources /\ current' \in 1 .. Len(source') + 1
  BY <1>1, <1>2, <1>3 DEF ScanInv, Length
<1>11. QED BY <1>4, <1>5, <1>6, <1>7, <1>8, <1>9, <1>10 DEF ScanInv

(* A token that starts where the scanner is and ends where it goes.           *)
LEMMA AppendKeeps ==
    ASSUME ScanInv, ~Finished, NEW token \in TokensOf(source), token.from = current,
           tokens' = Append(tokens, token), source' = source, current' = token.to,
           token.from < token.to \/ Finished'
    PROVE  /\ tokens' \in Seq(TokensOf(source'))
           /\ \A i \in 1 .. Len(tokens)' : tokens'[i].to <= current'
           /\ InOrder'
<1>1. Length \in Nat /\ current \in 1 .. Length + 1
  BY Positions DEF ScanInv, Length
<1>2. tokens \in Seq(TokensOf(source)) /\ Len(tokens) \in Nat
  BY DEF ScanInv
<1>3. Len(tokens') = Len(tokens) + 1 /\ tokens' \in Seq(TokensOf(source))
  BY <1>2
<1>4. tokens'[Len(tokens) + 1] = token
  BY <1>2
<1>5. \A i \in 1 .. Len(tokens) : tokens'[i] = tokens[i]
  BY <1>2
<1>6. /\ token.from \in Int /\ token.to \in Int /\ token.from <= token.to
      /\ \A i \in 1 .. Len(tokens) :
            tokens[i].from \in Int /\ tokens[i].to \in Int /\ tokens[i] \in TokensOf(source)
  <2>1. ASSUME NEW t \in TokensOf(source)
        PROVE  t.from \in Int /\ t.to \in Int /\ t.from <= t.to
    BY <1>1 DEF TokensOf, Length
  <2>2. \A i \in 1 .. Len(tokens) : tokens[i] \in TokensOf(source)
    BY <1>2
  <2>3. QED BY <2>1, <2>2
<1>7. ASSUME NEW i \in 1 .. Len(tokens)' PROVE tokens'[i].to <= current'
  <2>1. CASE i = Len(tokens) + 1
    BY <1>4, <1>6, <2>1
  <2>2. CASE i \in 1 .. Len(tokens)
    <3>1. tokens[i].to <= current
      BY <2>2 DEF ScanInv
    <3>2. QED BY <1>1, <1>5, <1>6, <2>2, <3>1
  <2>3. QED BY <1>2, <1>3, <2>1, <2>2
<1>8. ASSUME NEW i \in 1 .. Len(tokens)'
      PROVE  tokens'[i].from < tokens'[i].to \/ (i = Len(tokens)' /\ Finished')
  <2>1. CASE i = Len(tokens) + 1
    BY <1>3, <1>4, <2>1
  <2>2. CASE i \in 1 .. Len(tokens)
    BY <1>5, <2>2 DEF ScanInv, InOrder
  <2>3. QED BY <1>2, <1>3, <2>1, <2>2
<1>9. ASSUME NEW i \in 1 .. Len(tokens)', NEW j \in 1 .. Len(tokens)', i < j
      PROVE  tokens'[i].to <= tokens'[j].from
  <2>1. i \in 1 .. Len(tokens)
    BY <1>2, <1>3, <1>9
  <2>2. CASE j = Len(tokens) + 1
    BY <1>4, <1>5, <2>1, <2>2 DEF ScanInv
  <2>3. CASE j \in 1 .. Len(tokens)
    BY <1>5, <1>9, <2>1, <2>3 DEF ScanInv, InOrder
  <2>4. QED BY <1>2, <1>3, <2>2, <2>3
<1>10. InOrder'
  BY <1>8, <1>9 DEF InOrder
<1>11. QED BY <1>3, <1>7, <1>10

LEMMA ScanTokenInv ==
    ASSUME ScanInv, ScanToken
    PROVE  ScanInv' /\ current' > current
<1> DEFINE token == Read(Char(current), current + 1)
<1> DEFINE reached == line + Newlines(current, token.to)
<1> DEFINE at == IF token.type = "error" THEN reached ELSE line
<1> DEFINE new == [type |-> token.type, from |-> current, to |-> token.to, line |-> at]
<1>1. Length \in Nat /\ current \in 1 .. Length + 1 /\ source \in Sources
  BY Positions DEF ScanInv, Length
<1>2. ~AtEnd(current) /\ ~Finished
  BY DEF ScanToken
<1>3. current \in 1 .. Length
  BY <1>1, <1>2, Within
<1>4. EndsIn(token, current + 1)
  BY <1>1, <1>3, ReadEnds
<1>5. /\ source' = source /\ inside_comment' = inside_comment
      /\ current' = token.to /\ line' = reached /\ tokens' = Append(tokens, new)
  BY DEF ScanToken, MakeToken
<1>6. reached = line + LinesOf(source, current, token.to)
  BY LinesAreThoseOfTheSource
<1> HIDE DEF token, reached
<1>7. token.to \in current + 1 .. Length + 1 /\ token.type \in Types
  BY <1>4 DEF EndsIn
<1>8. reached = 1 + LinesOf(source, 1, token.to)
  <2>1. token.to \in current .. Length + 1
    BY <1>1, <1>7
  <2>2. QED BY <1>6, <2>1, LineMoves
<1>9. line = 1 + LinesOf(source, 1, current)
  BY DEF ScanInv
<1>10. reached \in Int /\ line \in Int
  BY <1>1, <1>7, <1>8, <1>9, LinesBound
<1>11. at = LineOf(source, new)
  BY <1>8, <1>9 DEF LineOf
<1>12. new \in TokensOf(source)
  <2>1. at \in Int
    BY <1>10
  <2>2. new.from = current /\ new.to = token.to /\ new.line = at
    OBVIOUS
  <2> HIDE DEF at
  <2>3. new \in [type : Types, from : 1 .. Length + 1, to : 1 .. Length + 1, line : Int]
    BY <1>1, <1>7, <2>1
  <2>4. QED BY <1>1, <1>7, <1>11, <2>2, <2>3 DEF TokensOf, Length
<1>13. new.from = current /\ new.to = token.to
  OBVIOUS
<1> HIDE DEF new
<1>14. current' \in 1 .. Len(source') + 1 /\ current' > current
  BY <1>1, <1>5, <1>7 DEF Length
<1>15. new.from < new.to
  BY <1>1, <1>7, <1>13
<1>16. /\ tokens' \in Seq(TokensOf(source'))
       /\ \A i \in 1 .. Len(tokens)' : tokens'[i].to <= current'
       /\ InOrder'
  BY <1>2, <1>5, <1>12, <1>13, <1>15, AppendKeeps
<1>17. line' = 1 + LinesOf(source', 1, current')
  BY <1>5, <1>8
<1>18. inside_comment' \in BOOLEAN /\ ~inside_comment'
  BY <1>2, <1>5 DEF ScanInv
<1>19. QED BY <1>1, <1>5, <1>14, <1>16, <1>17, <1>18 DEF ScanInv

LEMMA ScanEndInv ==
    ASSUME ScanInv, ScanEnd
    PROVE  ScanInv' /\ Finished'
<1> DEFINE type == IF inside_comment THEN "unterminated comment" ELSE "eof"
<1> DEFINE new == [type |-> type, from |-> current, to |-> current, line |-> line]
<1>1. Length \in Nat /\ current \in 1 .. Length + 1 /\ source \in Sources
  BY Positions DEF ScanInv, Length
<1>2. AtEnd(current) /\ ~Finished
  BY DEF ScanEnd
<1>3. /\ source' = source /\ inside_comment' = inside_comment
      /\ current' = current /\ line' = line /\ tokens' = Append(tokens, new)
  BY DEF ScanEnd, MakeToken
<1>4. type \in {"eof", "unterminated comment"} /\ type \in Types /\ type # "error"
  BY DEF Types
<1> HIDE DEF type
<1>5. line = 1 + LinesOf(source, 1, current)
  BY DEF ScanInv
<1>6. line \in Int
  BY <1>1, <1>5, LinesBound
<1>7. new.type = type /\ new.from = current /\ new.to = current /\ new.line = line
  OBVIOUS
<1>8. new \in TokensOf(source)
  <2>1. new \in [type : Types, from : 1 .. Len(source) + 1, to : 1 .. Len(source) + 1, line : Int]
    BY <1>1, <1>4, <1>6 DEF Length
  <2>2. new.line = LineOf(source, new)
    BY <1>4, <1>5, <1>7 DEF LineOf
  <2>3. QED BY <1>1, <1>7, <2>1, <2>2 DEF TokensOf
<1> HIDE DEF new
<1>9. Finished'
  <2>1. Len(tokens) \in Nat /\ tokens \in Seq(TokensOf(source))
    BY DEF ScanInv
  <2>2. Len(tokens') = Len(tokens) + 1 /\ tokens'[Len(tokens) + 1] = new /\ tokens' # <<>>
    BY <1>3, <1>8, <2>1
  <2>3. QED BY <1>4, <1>7, <2>2 DEF Finished
<1>10. /\ tokens' \in Seq(TokensOf(source'))
       /\ \A i \in 1 .. Len(tokens)' : tokens'[i].to <= current'
       /\ InOrder'
  BY <1>2, <1>3, <1>7, <1>8, <1>9, AppendKeeps
<1>11. inside_comment' => AtEnd(current)'
  BY <1>2, <1>3, AtEndOf, AtEndOfNext
<1>12. current' \in 1 .. Len(source') + 1 /\ source' \in Sources
  BY <1>1, <1>3 DEF Length
<1>13. QED BY <1>3, <1>5, <1>9, <1>10, <1>11, <1>12 DEF ScanInv

LEMMA NextInv ==
    ASSUME ScanInv, Next
    PROVE  ScanInv' /\ (current' > current \/ Finished')
<1>1. CASE SkipBlank \/ LineComment \/ BlockComment
  <2>1. Skipped
    BY <1>1, SkipBlankMoves, LineCommentMoves, BlockCommentMoves
  <2>2. current \in Int /\ Length \in Nat
    BY Positions DEF ScanInv, Length
  <2>3. current' > current
    BY <2>1, <2>2 DEF Skipped
  <2>4. QED BY <2>1, <2>3, SkippedInv
<1>2. CASE ScanToken
  BY <1>2, ScanTokenInv
<1>3. CASE ScanEnd
  BY <1>3, ScanEndInv
<1>4. QED BY <1>1, <1>2, <1>3 DEF Next

LEMMA StutterInv ==
    ASSUME ScanInv, UNCHANGED vars
    PROVE  ScanInv'
<1>1. /\ source' = source /\ current' = current /\ line' = line
      /\ inside_comment' = inside_comment /\ tokens' = tokens
  BY DEF vars
<1>2. InOrder'
  BY <1>1 DEF ScanInv, InOrder, Finished
<1>3. inside_comment' => AtEnd(current)'
  BY <1>1, AtEndOf, AtEndOfNext DEF ScanInv
<1>4. QED BY <1>1, <1>2, <1>3 DEF ScanInv

-----------------------------------------------------------------------------
(* Theorems.                                                               *)

(* What the proof rests on, after every call of scanner_scan_token and        *)
(* between the steps of skip_whitespace.                                   *)
THEOREM SpecInv == Spec => []ScanInv
<1>1. ScanInv /\ [Next]_vars => ScanInv'
  BY NextInv, StutterInv
<1>2. QED BY <1>1, InitInv, PTL DEF Spec

(* No step of advance goes past the terminator, whichever literal, string or   *)
(* comment the source ends in, and a token has a type and a text.             *)
THEOREM SpecTypeOK == Spec => []TypeOK
<1>1. ASSUME ScanInv PROVE TypeOK
  <2>1. Len(source) \in Nat /\ current \in 1 .. Len(source) + 1
    BY <1>1, Positions DEF ScanInv, Length
  <2>2. LinesOf(source, 1, current) \in Nat /\ LinesOf(source, 1, current) <= current - 1
    BY <2>1, LinesBound
  <2>3. line \in 1 .. Len(source) + 1
    BY <1>1, <2>1, <2>2 DEF ScanInv
  <2>4. ASSUME NEW i \in DOMAIN tokens
        PROVE  /\ tokens[i].type \in Types
               /\ tokens[i].from \in 1 .. Len(source) + 1
               /\ tokens[i].to \in tokens[i].from .. Len(source) + 1
    <3>1. tokens[i] \in TokensOf(source)
      BY <1>1 DEF ScanInv
    <3>2. QED BY <2>1, <3>1 DEF TokensOf
  <2>5. QED BY <1>1, <2>1, <2>3, <2>4 DEF TypeOK, ScanInv
<1>2. QED BY <1>1, SpecInv, PTL

(* The line of a token is that of its first character, that of an error where  *)
(* it was found, though comments, strings and blanks each count newlines in     *)
(* their own way.                                                          *)
THEOREM SpecLinesCount == Spec => []LinesCount
<1>1. ASSUME ScanInv PROVE LinesCount
  <2>1. line = 1 + Newlines(1, current)
    BY <1>1, LinesAreThoseOfTheSource DEF ScanInv
  <2>2. ASSUME NEW i \in DOMAIN tokens
        PROVE  tokens[i].line =
                  1 + Newlines(1, IF tokens[i].type = "error" THEN tokens[i].to ELSE tokens[i].from)
    <3>1. tokens[i] \in TokensOf(source)
      BY <1>1 DEF ScanInv
    <3>2. tokens[i].line = LineOf(source, tokens[i])
      BY <3>1 DEF TokensOf
    <3>3. QED BY <3>2, LinesAreThoseOfTheSource DEF LineOf
  <2>3. QED BY <2>1, <2>2 DEF LinesCount
<1>2. QED BY <1>1, SpecInv, PTL

(* scanner_scan_token returns tokens that follow each other in the source, and  *)
(* none without a character but the last.                                  *)
THEOREM SpecInOrder == Spec => []InOrder
<1>1. ScanInv => InOrder
  BY DEF ScanInv
<1>2. QED BY <1>1, SpecInv, PTL

(* No character keeps the scanner: whatever it meets, a step takes it forward   *)
(* or gives the last token.                                                *)
THEOREM SpecMovesOn == Spec => [][current' > current \/ Finished']_vars
<1>1. ScanInv /\ [Next]_vars => [current' > current \/ Finished']_vars
  BY NextInv
<1>2. QED BY <1>1, SpecInv, PTL DEF Spec

-----------------------------------------------------------------------------
(* Stacks.  Where n locals are in scope and nothing else is on the stack, it  *)
(* is the first n numbers.                                                 *)
Ident(n) == [i \in 1..n |-> i]

LEMMA IdentIs ==
    ASSUME NEW n \in Nat
    PROVE  /\ Ident(n) \in Seq(Nat) /\ Len(Ident(n)) = n
           /\ \A i \in 1..n : Ident(n)[i] = i
           /\ Append(Ident(n), n + 1) = Ident(n + 1)
           /\ \A m \in 0..n : SubSeq(Ident(n), 1, m) = Ident(m)
<1>1. Ident(n) \in Seq(Nat) /\ Len(Ident(n)) = n
  BY DEF Ident
<1>2. Append(Ident(n), n + 1) = Ident(n + 1)
  BY <1>1 DEF Ident
<1>3. ASSUME NEW m \in 0..n PROVE SubSeq(Ident(n), 1, m) = Ident(m)
  BY <1>1 DEF Ident
<1>4. QED BY <1>1, <1>2, <1>3 DEF Ident

(* One value above a stack goes again.                                      *)
LEMMA AppendFront ==
    ASSUME NEW s \in Seq(Nat), NEW x \in Nat
    PROVE  /\ Append(s, x) \in Seq(Nat) /\ Append(s, x) # <<>>
           /\ Len(Append(s, x)) = Len(s) + 1 /\ Append(s, x)[Len(s) + 1] = x
           /\ SubSeq(Append(s, x), 1, Len(Append(s, x)) - 1) = s
<1>1. Append(s, x) \in Seq(Nat) /\ Len(Append(s, x)) = Len(s) + 1
  OBVIOUS
<1>2. SubSeq(Append(s, x), 1, Len(s)) = s
  OBVIOUS
<1>3. Append(s, x)[Len(s) + 1] = x /\ Append(s, x) # <<>>
  BY AppendProperties
<1>4. Len(Append(s, x)) - 1 = Len(s)
  BY <1>1
<1>5. QED BY <1>1, <1>2, <1>3, <1>4

LEMMA EmptyIdent == Ident(0) = <<>> /\ Ident(0) \in Seq(Nat)
BY DEF Ident

-----------------------------------------------------------------------------
(* Code.                                                                   *)

Ops == {"VALUE", "NIL", "POP", "CLOSE_UPVALUE", "DEFINE_GLOBAL",
        "JUMP", "JUMP_IF_FALSE", "LOOP", "RETURN", "operand"}
Cells == [op : Ops, arg : Int, slot : Nat, loop : Nat, depth : Nat]
Codes == Seq(Cells)

LEMMA CellIs ==
    ASSUME NEW op \in Ops, NEW arg \in Int, NEW slot \in Nat, NEW loop \in Nat, NEW depth \in Nat
    PROVE  /\ Cell(op, arg, slot, loop, depth) \in Cells
           /\ Cell(op, arg, slot, loop, depth).op = op
           /\ Cell(op, arg, slot, loop, depth).arg = arg
           /\ Cell(op, arg, slot, loop, depth).slot = slot
           /\ Cell(op, arg, slot, loop, depth).loop = loop
           /\ Cell(op, arg, slot, loop, depth).depth = depth
BY DEF Cell, Cells

(* The jump back of a loop is a cell.                                        *)
LEMMA JumpBackIs ==
    ASSUME NEW gap \in Int, NEW loop \in Nat
    PROVE  Cell("LOOP", gap, 0, loop, 0) \in Cells /\ Cell("LOOP", gap, 0, loop, 0).op = "LOOP"
BY DEF Cell, Cells, Ops

LEMMA OperandIs == Operand \in Cells /\ Operand.op = "operand" /\ Operand.loop = 0
BY DEF Operand, Cell, Cells, Ops

LEMMA SizeIs ==
    /\ \A op \in Ops : Size(op) \in 1..3
    /\ Size("VALUE") = 2 /\ Size("DEFINE_GLOBAL") = 2 /\ Size("NIL") = 1 /\ Size("POP") = 1
    /\ Size("CLOSE_UPVALUE") = 1 /\ Size("RETURN") = 1
    /\ Size("JUMP") = 3 /\ Size("JUMP_IF_FALSE") = 3 /\ Size("LOOP") = 3
BY DEF Size, Jumps, Ops

(* d is c with an instruction after it.                                     *)
Emitted(c, cell, d) ==
    /\ d \in Codes /\ Len(d) = Len(c) + Size(cell.op)
    /\ \A i \in 1..Len(c) : d[i] = c[i]
    /\ d[Len(c) + 1] = cell
    /\ \A i \in Len(c) + 2..Len(d) : d[i] = Operand

LEMMA InstructionIs ==
    ASSUME NEW cell \in Cells
    PROVE  /\ Instruction(cell) \in Codes /\ Len(Instruction(cell)) = Size(cell.op)
           /\ Instruction(cell)[1] = cell
           /\ \A i \in 2..Size(cell.op) : Instruction(cell)[i] = Operand
<1>1. Size(cell.op) \in 1..3
  BY SizeIs DEF Cells
<1> DEFINE rest == [i \in 1..Size(cell.op) - 1 |-> Operand]
<1>2. rest \in Seq(Cells) /\ Len(rest) = Size(cell.op) - 1
  BY <1>1, OperandIs
<1>3. <<cell>> \in Seq(Cells) /\ Len(<<cell>>) = 1
  OBVIOUS
<1>4. Instruction(cell) = <<cell>> \o rest
  BY DEF Instruction
<1> HIDE DEF rest
<1>5. Instruction(cell) \in Codes /\ Len(Instruction(cell)) = Size(cell.op)
  BY <1>1, <1>2, <1>3, <1>4, ConcatProperties DEF Codes
<1>6. Instruction(cell)[1] = cell
  BY <1>1, <1>2, <1>3, <1>4, ConcatProperties
<1>7. ASSUME NEW i \in 2..Size(cell.op) PROVE Instruction(cell)[i] = Operand
  <2>1. Instruction(cell)[i] = rest[i - 1]
    BY <1>1, <1>2, <1>3, <1>4, ConcatProperties
  <2>2. rest[i - 1] = Operand
    BY <1>1 DEF rest
  <2>3. QED BY <2>1, <2>2
<1>8. QED BY <1>5, <1>6, <1>7

LEMMA EmittedIs ==
    ASSUME NEW c \in Codes, NEW cell \in Cells
    PROVE  Emitted(c, cell, c \o Instruction(cell))
<1>1. Size(cell.op) \in 1..3
  BY SizeIs DEF Cells
<1> DEFINE e == Instruction(cell)
<1>2. e \in Seq(Cells) /\ Len(e) = Size(cell.op) /\ e[1] = cell
      /\ \A i \in 2..Size(cell.op) : e[i] = Operand
  BY InstructionIs DEF Codes
<1>3. c \in Seq(Cells) /\ Len(c) \in Nat
  BY DEF Codes
<1> HIDE DEF e
<1>4. c \o e \in Seq(Cells) /\ Len(c \o e) = Len(c) + Len(e)
      /\ \A i \in 1..Len(c) + Len(e) : (c \o e)[i] = IF i <= Len(c) THEN c[i] ELSE e[i - Len(c)]
  BY <1>2, <1>3, ConcatProperties
<1>5. (c \o e)[Len(c) + 1] = cell
  BY <1>1, <1>2, <1>3, <1>4
<1>6. \A i \in Len(c) + 2..Len(c) + Len(e) : (c \o e)[i] = Operand
  BY <1>1, <1>2, <1>3, <1>4
<1>7. QED BY <1>1, <1>2, <1>3, <1>4, <1>5, <1>6 DEF Emitted, Codes, e

-----------------------------------------------------------------------------
(* What the code does to the stack.  A shape gives the stack with which       *)
(* control comes to each offset; at the end of the code, the one with which   *)
(* it would go on.                                                         *)
Shapes == [Nat -> Seq(Nat)]

(* Offset a is that of an instruction, and is meant to be reached with s.     *)
Leads(c, shape, a, s) ==
    /\ a \in 0..Len(c)
    /\ a < Len(c) => c[a + 1].op # "operand"
    /\ shape[a] = s

Discards == {"POP", "CLOSE_UPVALUE", "DEFINE_GLOBAL"}

(* What the machine does at offset a fits what comes after it.  A jump whose  *)
(* target is not known yet may lead anywhere.                              *)
Sound(c, shape, a) ==
    LET cell == c[a + 1]
        next == a + Size(cell.op)
        s    == shape[a]
    IN  /\ Leads(c, shape, next, shape[next])
        /\ cell.op \in {"VALUE", "NIL"} => shape[next] = Append(s, cell.slot)
        /\ cell.op = "VALUE" => s = Ident(cell.depth)
        /\ cell.op \in Discards => s # <<>> /\ shape[next] = SubSeq(s, 1, Len(s) - 1)
        /\ cell.op = "CLOSE_UPVALUE" => s[Len(s)] = cell.slot
        /\ cell.op = "JUMP_IF_FALSE" => shape[next] = s
        /\ cell.op \in {"JUMP", "JUMP_IF_FALSE"} =>
              cell.arg = DUMMY_JUMP_TARGET \/ Leads(c, shape, next + cell.arg, s)
        /\ cell.op = "LOOP" => Leads(c, shape, next - cell.arg, s)

Coherent(c, shape) ==
    /\ shape \in Shapes /\ Leads(c, shape, 0, <<>>)
    /\ \A a \in 0..Len(c) - 1 : c[a + 1].op # "operand" => Sound(c, shape, a)

(* Code d begins with c, and control may pass from the end of c into it.      *)
Grows(c, shape, d, into) ==
    /\ d \in Codes /\ Len(d) >= Len(c)
    /\ \A i \in 1..Len(c) : d[i] = c[i]
    /\ Len(d) > Len(c) => d[Len(c) + 1].op # "operand"
    /\ \A a \in 0..Len(c) : into[a] = shape[a]
    /\ Coherent(d, into)

LEMMA LeadsOn ==
    ASSUME NEW c \in Codes, NEW shape, NEW d, NEW into, NEW a, NEW s,
           Grows(c, shape, d, into), Leads(c, shape, a, s)
    PROVE  Leads(d, into, a, s)
<1>1. Len(c) \in Nat /\ Len(d) \in Nat
  BY DEF Grows, Codes
<1>2. QED BY <1>1 DEF Grows, Leads

LEMMA LeadsLater ==
    ASSUME NEW c \in Codes, NEW d \in Codes, NEW shape, NEW into,
           Len(d) >= Len(c), \A i \in 1..Len(c) : d[i] = c[i],
           Len(d) > Len(c) => d[Len(c) + 1].op # "operand",
           \A a \in 0..Len(c) : into[a] = shape[a],
           NEW a, NEW s, Leads(c, shape, a, s)
    PROVE  Leads(d, into, a, s)
<1>1. Len(c) \in Nat /\ Len(d) \in Nat
  BY DEF Codes
<1>2. QED BY <1>1 DEF Leads

(* What is sound stays so when code is added.                               *)
LEMMA SoundOn ==
    ASSUME NEW c \in Codes, NEW d \in Codes, NEW shape, NEW into,
           Len(d) >= Len(c), \A i \in 1..Len(c) : d[i] = c[i],
           Len(d) > Len(c) => d[Len(c) + 1].op # "operand",
           \A a \in 0..Len(c) : into[a] = shape[a],
           NEW a \in 0..Len(c) - 1, Sound(c, shape, a)
    PROVE  Sound(d, into, a)
<1>1. Len(c) \in Nat /\ Len(d) \in Nat
  BY DEF Codes
<1>2. \A b, s : Leads(c, shape, b, s) => Leads(d, into, b, s)
  BY <1>1 DEF Leads
<1> DEFINE cell == c[a + 1]
           next == a + Size(cell.op)
<1>3. d[a + 1] = cell /\ into[a] = shape[a]
  BY <1>1
<1>4. Leads(c, shape, next, shape[next]) /\ next \in 0..Len(c)
  BY DEF Sound, Leads
<1>5. into[next] = shape[next]
  BY <1>4
<1> HIDE DEF cell, next
<1>6. Leads(d, into, next, into[next])
  BY <1>2, <1>4, <1>5
<1>7. Sound(c, shape, a) <=>
        /\ Leads(c, shape, next, shape[next])
        /\ cell.op \in {"VALUE", "NIL"} => shape[next] = Append(shape[a], cell.slot)
        /\ cell.op = "VALUE" => shape[a] = Ident(cell.depth)
        /\ cell.op \in Discards => shape[a] # <<>> /\ shape[next] = SubSeq(shape[a], 1, Len(shape[a]) - 1)
        /\ cell.op = "CLOSE_UPVALUE" => shape[a][Len(shape[a])] = cell.slot
        /\ cell.op = "JUMP_IF_FALSE" => shape[next] = shape[a]
        /\ cell.op \in {"JUMP", "JUMP_IF_FALSE"} =>
              cell.arg = DUMMY_JUMP_TARGET \/ Leads(c, shape, next + cell.arg, shape[a])
        /\ cell.op = "LOOP" => Leads(c, shape, next - cell.arg, shape[a])
  BY Zenon DEF Sound, cell, next
<1>8. Sound(d, into, a) <=>
        /\ Leads(d, into, next, into[next])
        /\ cell.op \in {"VALUE", "NIL"} => into[next] = Append(into[a], cell.slot)
        /\ cell.op = "VALUE" => into[a] = Ident(cell.depth)
        /\ cell.op \in Discards => into[a] # <<>> /\ into[next] = SubSeq(into[a], 1, Len(into[a]) - 1)
        /\ cell.op = "CLOSE_UPVALUE" => into[a][Len(into[a])] = cell.slot
        /\ cell.op = "JUMP_IF_FALSE" => into[next] = into[a]
        /\ cell.op \in {"JUMP", "JUMP_IF_FALSE"} =>
              cell.arg = DUMMY_JUMP_TARGET \/ Leads(d, into, next + cell.arg, into[a])
        /\ cell.op = "LOOP" => Leads(d, into, next - cell.arg, into[a])
  <2>1. d[a + 1] = c[a + 1]
    BY <1>3 DEF cell
  <2>2. QED BY <2>1, Zenon DEF Sound, cell, next
<1>9. QED BY <1>2, <1>3, <1>5, <1>6, <1>7, <1>8

(* An instruction is added that leaves s.                                   *)
LEMMA EmitGrows ==
    ASSUME NEW c \in Codes, NEW shape, Coherent(c, shape),
           NEW cell \in Cells, cell.op # "operand", NEW d, Emitted(c, cell, d),
           NEW s \in Seq(Nat), NEW into, into = [shape EXCEPT ![Len(d)] = s],
           Sound(d, into, Len(c))
    PROVE  Grows(c, shape, d, into) /\ into[Len(d)] = s
<1>1. Len(c) \in Nat /\ Len(d) \in Nat /\ Len(d) > Len(c) /\ d \in Codes
  <2>1. Size(cell.op) \in 1..3
    BY SizeIs DEF Cells
  <2>2. Len(c) \in Nat
    BY DEF Codes
  <2>3. QED BY <2>1, <2>2 DEF Emitted
<1>2. shape \in Shapes
  BY DEF Coherent
<1>3. into \in Shapes /\ into[Len(d)] = s /\ \A a \in 0..Len(c) : into[a] = shape[a]
  <2>1. into \in Shapes
    BY <1>1, <1>2 DEF Shapes
  <2>2. into[Len(d)] = s
    BY <1>1, <1>2 DEF Shapes
  <2>3. \A a \in Nat : a # Len(d) => into[a] = shape[a]
    BY <1>1, <1>2 DEF Shapes
  <2>4. QED BY <1>1, <2>1, <2>2, <2>3
<1>4. (\A i \in 1..Len(c) : d[i] = c[i]) /\ d[Len(c) + 1].op # "operand"
  BY DEF Emitted
<1>5. ASSUME NEW a \in 0..Len(d) - 1, d[a + 1].op # "operand" PROVE Sound(d, into, a)
  <2>1. CASE a \in 0..Len(c) - 1
    <3>1. d[a + 1] = c[a + 1]
      BY <1>1, <1>4, <2>1
    <3>2. Sound(c, shape, a)
      BY <1>5, <2>1, <3>1 DEF Coherent
    <3>3. Len(d) >= Len(c)
      BY <1>1
    <3>4. QED BY <1>1, <1>3, <1>4, <2>1, <3>2, <3>3, SoundOn
  <2>2. CASE a = Len(c)
    BY <2>2
  <2>3. CASE a > Len(c)
    <3>1. a + 1 \in Len(c) + 2..Len(d)
      BY <1>1, <2>3
    <3>2. QED BY <1>5, <3>1, OperandIs DEF Emitted
  <2>4. QED BY <1>1, <2>1, <2>2, <2>3
<1>6. Leads(d, into, 0, <<>>)
  <2>1. Leads(c, shape, 0, <<>>)
    BY DEF Coherent
  <2>2. Len(d) >= Len(c)
    BY <1>1
  <2>3. QED BY <1>1, <1>3, <1>4, <2>1, <2>2, LeadsLater
<1>7. Coherent(d, into)
  BY <1>3, <1>5, <1>6 DEF Coherent
<1>8. QED BY <1>1, <1>3, <1>4, <1>7 DEF Grows

(* What an instruction at the end of the code needs, if s is to be after it.  *)
Fits(c, shape, cell, s) ==
    LET t == shape[Len(c)]
    IN  /\ cell \in Cells /\ cell.op # "operand" /\ s \in Seq(Nat)
        /\ cell.op \in {"VALUE", "NIL"} => s = Append(t, cell.slot)
        /\ cell.op = "VALUE" => t = Ident(cell.depth)
        /\ cell.op \in Discards => t # <<>> /\ s = SubSeq(t, 1, Len(t) - 1)
        /\ cell.op = "CLOSE_UPVALUE" => t[Len(t)] = cell.slot
        /\ cell.op = "JUMP_IF_FALSE" => s = t
        /\ cell.op \in {"JUMP", "JUMP_IF_FALSE"} => cell.arg = DUMMY_JUMP_TARGET
        /\ cell.op = "LOOP" => Leads(c, shape, Len(c) + 3 - cell.arg, t)

LEMMA FittingGrows ==
    ASSUME NEW c \in Codes, NEW shape, Coherent(c, shape),
           NEW cell, NEW s, Fits(c, shape, cell, s), NEW d, Emitted(c, cell, d)
    PROVE  \E into : Grows(c, shape, d, into) /\ into[Len(d)] = s
<1> DEFINE into == [shape EXCEPT ![Len(d)] = s]
           t == shape[Len(c)]
<1>0. cell \in Cells /\ cell.op # "operand" /\ s \in Seq(Nat)
  BY DEF Fits
<1>1. Size(cell.op) \in 1..3 /\ Len(c) \in Nat /\ Len(d) = Len(c) + Size(cell.op) /\ d \in Codes
  BY <1>0, SizeIs DEF Cells, Codes, Emitted
<1>2. Len(d) \in Nat /\ Len(d) > Len(c)
  BY <1>1
<1>3. shape \in Shapes
  BY DEF Coherent
<1>4. into[Len(d)] = s
  BY <1>2, <1>3 DEF Shapes
<1>5. \A a \in Nat : a # Len(d) => into[a] = shape[a]
  BY <1>2, <1>3 DEF Shapes
<1>e. into = [shape EXCEPT ![Len(d)] = s]
  OBVIOUS
<1> HIDE DEF into
<1>6. into[Len(c)] = t
  BY <1>1, <1>2, <1>5
<1>7. d[Len(c) + 1] = cell /\ \A i \in 1..Len(c) : d[i] = c[i]
  BY DEF Emitted
<1>8. Leads(d, into, Len(d), s)
  BY <1>2, <1>4 DEF Leads
<1> HIDE DEF t
<1>9. ASSUME cell.op = "LOOP" PROVE Leads(d, into, Len(d) - cell.arg, t)
  <2> DEFINE a == Len(d) - cell.arg
  <2>0. Len(d) = Len(c) + 3 /\ cell.arg \in Int
    BY <1>0, <1>1, <1>9, SizeIs DEF Cells
  <2>1. Leads(c, shape, a, t)
    <3>1. Leads(c, shape, Len(c) + 3 - cell.arg, t)
      BY <1>9, Zenon DEF Fits, t
    <3>2. QED BY <1>1, <2>0, <3>1
  <2> HIDE DEF a
  <2>2. a \in 0..Len(c) /\ shape[a] = t /\ a < Len(d) /\ a # Len(d)
    BY <1>1, <1>2, <2>1 DEF Leads
  <2>3. into[a] = t
    BY <1>1, <1>5, <2>2
  <2>4. d[a + 1].op # "operand"
    <3>1. CASE a = Len(c)
      BY <3>1, <1>7, <1>0
    <3>2. CASE a < Len(c)
      <4>1. c[a + 1].op # "operand" /\ a + 1 \in 1..Len(c)
        BY <1>1, <2>1, <2>2, <3>2 DEF Leads
      <4>2. QED BY <1>7, <4>1
    <3>3. QED BY <1>1, <2>2, <3>1, <3>2
  <2>5. Leads(d, into, a, t)
    BY <1>1, <1>2, <2>2, <2>3, <2>4 DEF Leads
  <2>6. QED BY <2>5 DEF a
<1>10. Sound(d, into, Len(c))
  <2> DEFINE next == Len(c) + Size(cell.op)
  <2>1. next = Len(d)
    BY <1>1
  <2> HIDE DEF next
  <2>2. Sound(d, into, Len(c)) <=>
          /\ Leads(d, into, next, into[next])
          /\ cell.op \in {"VALUE", "NIL"} => into[next] = Append(t, cell.slot)
          /\ cell.op = "VALUE" => t = Ident(cell.depth)
          /\ cell.op \in Discards => t # <<>> /\ into[next] = SubSeq(t, 1, Len(t) - 1)
          /\ cell.op = "CLOSE_UPVALUE" => t[Len(t)] = cell.slot
          /\ cell.op = "JUMP_IF_FALSE" => into[next] = t
          /\ cell.op \in {"JUMP", "JUMP_IF_FALSE"} =>
                cell.arg = DUMMY_JUMP_TARGET \/ Leads(d, into, next + cell.arg, t)
          /\ cell.op = "LOOP" => Leads(d, into, next - cell.arg, t)
    BY <1>6, <1>7, Zenon DEF Sound, next
  <2>3. /\ cell.op \in {"VALUE", "NIL"} => s = Append(t, cell.slot)
        /\ cell.op = "VALUE" => t = Ident(cell.depth)
        /\ cell.op \in Discards => t # <<>> /\ s = SubSeq(t, 1, Len(t) - 1)
        /\ cell.op = "CLOSE_UPVALUE" => t[Len(t)] = cell.slot
        /\ cell.op = "JUMP_IF_FALSE" => s = t
        /\ cell.op \in {"JUMP", "JUMP_IF_FALSE"} => cell.arg = DUMMY_JUMP_TARGET
    BY Zenon DEF Fits, t
  <2>4. into[next] = s
    BY <1>4, <2>1
  <2>5. QED BY <1>8, <1>9, <2>1, <2>2, <2>3, <2>4, Zenon
<1>11. QED BY <1>0, <1>4, <1>10, <1>e, EmitGrows

LEMMA EmitValue ==
    ASSUME NEW c \in Codes, NEW shape, Coherent(c, shape),
           NEW n \in Nat, shape[Len(c)] = Ident(n), NEW slot \in Nat
    PROVE  LET d == c \o Value(slot, n) IN
           /\ Emitted(c, Cell("VALUE", 0, slot, 0, n), d)
           /\ \E into : Grows(c, shape, d, into) /\ into[Len(d)] = Append(Ident(n), slot)
<1> DEFINE cell == Cell("VALUE", 0, slot, 0, n)
           d == c \o Value(slot, n)
           s == Append(Ident(n), slot)
<1>1. cell \in Cells /\ cell.op = "VALUE" /\ cell.slot = slot /\ cell.depth = n
  BY DEF Cell, Cells, Ops
<1>2. d = c \o Instruction(cell)
  BY DEF Value
<1> HIDE DEF cell, d, s
<1>3. Emitted(c, cell, d)
  BY <1>1, <1>2, EmittedIs
<1>4. s \in Seq(Nat) /\ s = Append(Ident(n), slot)
  BY IdentIs, AppendFront DEF s
<1>5. Fits(c, shape, cell, s)
  BY <1>1, <1>4 DEF Fits, Discards
<1>6. \E into : Grows(c, shape, d, into) /\ into[Len(d)] = s
  BY <1>3, <1>5, FittingGrows
<1>7. QED BY <1>3, <1>6 DEF cell, d, s

(* The beginning of the beginning of a sequence.                             *)
LEMMA CutTwice ==
    ASSUME NEW s \in Seq(Nat), NEW m \in 0..Len(s), NEW k \in 0..m
    PROVE  SubSeq(SubSeq(s, 1, m), 1, k) = SubSeq(s, 1, k)
<1>1. SubSeq(s, 1, m) \in Seq(Nat) /\ Len(SubSeq(s, 1, m)) = m
      /\ \A i \in 1..m : SubSeq(s, 1, m)[i] = s[i]
  OBVIOUS
<1> DEFINE t == SubSeq(s, 1, m)
<1>2. t \in Seq(Nat) /\ Len(t) = m /\ \A i \in 1..m : t[i] = s[i]
  BY <1>1
<1> HIDE DEF t
<1>3. /\ SubSeq(t, 1, k) \in Seq(Nat) /\ Len(SubSeq(t, 1, k)) = k
      /\ \A i \in 1..k : SubSeq(t, 1, k)[i] = t[i]
  BY <1>2
<1>4. /\ SubSeq(s, 1, k) \in Seq(Nat) /\ Len(SubSeq(s, 1, k)) = k
      /\ \A i \in 1..k : SubSeq(s, 1, k)[i] = s[i]
  OBVIOUS
<1>5. \A i \in 1..k : SubSeq(t, 1, k)[i] = SubSeq(s, 1, k)[i]
  <2>1. ASSUME NEW i \in 1..k PROVE SubSeq(t, 1, k)[i] = SubSeq(s, 1, k)[i]
    <3>1. i \in 1..m
      OBVIOUS
    <3>2. t[i] = s[i]
      BY <1>2, <3>1
    <3>3. SubSeq(t, 1, k)[i] = t[i]
      BY <1>3
    <3>4. SubSeq(s, 1, k)[i] = s[i]
      BY <1>4
    <3>5. QED BY <3>2, <3>3, <3>4
  <2>2. QED BY <2>1
<1>6. SubSeq(t, 1, k) = SubSeq(s, 1, k)
  BY <1>3, <1>4, <1>5, SeqEqual
<1>7. QED BY <1>6 DEF t

(* Values are discarded one by one.                                         *)
LEMMA EmitDiscards ==
    ASSUME NEW c \in Codes, NEW shape, Coherent(c, shape),
           NEW s \in Seq(Nat), shape[Len(c)] = s,
           NEW e \in Codes, Len(e) <= Len(s),
           \A n \in 1..Len(e) :
              /\ e[n].op \in {"POP", "CLOSE_UPVALUE"}
              /\ e[n].op = "CLOSE_UPVALUE" => s[Len(s) + 1 - n] = e[n].slot
    PROVE  \E into : /\ Grows(c, shape, c \o e, into)
                     /\ into[Len(c) + Len(e)] = SubSeq(s, 1, Len(s) - Len(e))
<1> DEFINE into == [a \in Nat |-> IF a \in Len(c)..Len(c) + Len(e)
                                  THEN SubSeq(s, 1, Len(s) - (a - Len(c))) ELSE shape[a]]
           d == c \o e
<1>1. Len(c) \in Nat /\ Len(e) \in Nat /\ Len(s) \in Nat /\ shape \in Shapes
  BY DEF Codes, Coherent
<1>2. d \in Codes /\ Len(d) = Len(c) + Len(e)
  BY <1>1, ConcatProperties DEF Codes
<1>3. /\ \A i \in 1..Len(c) : d[i] = c[i]
      /\ \A n \in 1..Len(e) : d[Len(c) + n] = e[n]
  <2>1. \A i \in 1..Len(c) + Len(e) : d[i] = IF i <= Len(c) THEN c[i] ELSE e[i - Len(c)]
    BY <1>1, ConcatProperties DEF Codes
  <2> HIDE DEF d
  <2>2. \A i \in 1..Len(c) : d[i] = c[i]
    BY <1>1, <2>1
  <2>3. \A n \in 1..Len(e) : d[Len(c) + n] = e[n]
    BY <1>1, <2>1
  <2>4. QED BY <2>2, <2>3
<1> HIDE DEF d
<1>4. \A n \in 0..Len(s) : SubSeq(s, 1, Len(s) - n) \in Seq(Nat) /\ Len(SubSeq(s, 1, Len(s) - n)) = Len(s) - n
  BY <1>1, SubSeqProperties
<1>5. into \in Shapes
  <2>1. ASSUME NEW a \in Nat PROVE into[a] \in Seq(Nat)
    <3>1. CASE a \in Len(c)..Len(c) + Len(e)
      <4>1. a - Len(c) \in 0..Len(s) /\ into[a] = SubSeq(s, 1, Len(s) - (a - Len(c)))
        BY <1>1, <3>1
      <4>2. QED BY <1>4, <4>1
    <3>2. CASE a \notin Len(c)..Len(c) + Len(e)
      <4>1. into[a] = shape[a]
        BY <3>2
      <4>2. QED BY <1>1, <4>1 DEF Shapes
    <3>3. QED BY <3>1, <3>2
  <2>2. QED BY <2>1 DEF Shapes
<1>6. \A n \in 0..Len(e) : into[Len(c) + n] = SubSeq(s, 1, Len(s) - n)
  BY <1>1
<1>7. \A a \in 0..Len(c) : into[a] = shape[a]
  <2>1. SubSeq(s, 1, Len(s)) = s
    BY <1>1, SubSeqFull
  <2>2. into[Len(c)] = s
    BY <1>1, <2>1
  <2>3. \A a \in 0..Len(c) - 1 : into[a] = shape[a]
    BY <1>1
  <2> HIDE DEF into
  <2>4. ASSUME NEW a \in 0..Len(c) PROVE into[a] = shape[a]
    <3>1. CASE a = Len(c)
      BY <2>2, <3>1
    <3>2. CASE a # Len(c)
      BY <1>1, <2>3, <3>2
    <3>3. QED BY <3>1, <3>2
  <2>5. QED BY <2>4
<1> HIDE DEF into
<1>8. \A n \in 1..Len(e) : d[Len(c) + n].op \in {"POP", "CLOSE_UPVALUE"}
  BY <1>3
<1>9. Len(d) > Len(c) => d[Len(c) + 1].op # "operand"
  BY <1>1, <1>2, <1>8
<1>10. ASSUME NEW a \in 0..Len(d) - 1, d[a + 1].op # "operand" PROVE Sound(d, into, a)
  <2>1. CASE a < Len(c)
    <3>1. a \in 0..Len(c) - 1 /\ d[a + 1] = c[a + 1]
      BY <1>1, <1>2, <1>3, <2>1
    <3>2. Sound(c, shape, a)
      BY <1>10, <3>1 DEF Coherent
    <3>3. Len(d) >= Len(c)
      BY <1>1, <1>2
    <3>4. QED BY <1>2, <1>3, <1>7, <1>9, <3>1, <3>2, <3>3, SoundOn
  <2>2. CASE a >= Len(c)
    <3>1. PICK n \in 0..Len(e) - 1 : a = Len(c) + n
      <4>1. a - Len(c) \in 0..Len(e) - 1 /\ a = Len(c) + (a - Len(c))
        BY <1>1, <1>2, <2>2
      <4>2. QED BY <4>1
    <3> DEFINE cell == d[a + 1]
               t == into[a]
    <3>2. cell = e[n + 1] /\ n + 1 \in 1..Len(e) /\ cell.op \in {"POP", "CLOSE_UPVALUE"}
      BY <1>1, <1>3, <3>1
    <3>3. t = SubSeq(s, 1, Len(s) - n) /\ Len(t) = Len(s) - n /\ Len(t) > 0
      <4>1. n \in 0..Len(e) /\ n \in 0..Len(s) /\ Len(s) - n > 0
        BY <1>1, <3>1
      <4>2. into[Len(c) + n] = SubSeq(s, 1, Len(s) - n)
        BY <1>6, <4>1
      <4>3. QED BY <1>4, <3>1, <4>1, <4>2
    <3>4. into[a + 1] = SubSeq(s, 1, Len(s) - (n + 1)) /\ a + 1 = Len(c) + (n + 1)
      <4>1. n + 1 \in 0..Len(e) /\ a + 1 = Len(c) + (n + 1)
        BY <1>1, <3>1
      <4>2. QED BY <1>6, <4>1
    <3>5. SubSeq(t, 1, Len(t) - 1) = SubSeq(s, 1, Len(s) - (n + 1))
      <4>1. Len(s) - n \in 0..Len(s) /\ Len(t) - 1 = Len(s) - (n + 1) /\ Len(t) - 1 \in 0..Len(t)
        BY <1>1, <3>2, <3>3
      <4> DEFINE m == Len(s) - n
                 k == Len(t) - 1
      <4>m. m \in 0..Len(s) /\ k \in 0..m /\ t = SubSeq(s, 1, m)
        BY <1>1, <3>3, <4>1
      <4>k. k = Len(t) - 1
        OBVIOUS
      <4> HIDE DEF t, m, k
      <4>2. SubSeq(t, 1, Len(t) - 1) = SubSeq(s, 1, Len(t) - 1)
        <5>1. SubSeq(SubSeq(s, 1, m), 1, k) = SubSeq(s, 1, k)
          BY <4>m, CutTwice
        <5>2. QED BY <4>m, <4>k, <5>1
      <4>3. QED BY <4>1, <4>2
    <3>6. cell.op = "CLOSE_UPVALUE" => t[Len(t)] = cell.slot
      <4>1. t[Len(t)] = s[Len(t)]
        BY <1>1, <3>2, <3>3
      <4>2. Len(t) = Len(s) + 1 - (n + 1)
        BY <1>1, <3>2, <3>3
      <4>3. QED BY <3>2, <4>1, <4>2
    <3>7. a + Size(cell.op) = a + 1
      BY <3>2, SizeIs
    <3>8. Leads(d, into, a + 1, into[a + 1])
      <4>1. a + 1 \in 0..Len(d)
        BY <1>1, <1>2, <3>1
      <4>2. a + 1 < Len(d) => d[a + 1 + 1].op # "operand"
        <5>1. SUFFICES ASSUME a + 1 < Len(d) PROVE d[a + 1 + 1].op # "operand"
          OBVIOUS
        <5>2. n + 2 \in 1..Len(e) /\ a + 1 + 1 = Len(c) + (n + 2)
          BY <1>1, <1>2, <3>1, <5>1
        <5>3. QED BY <1>8, <5>2
      <4>3. QED BY <4>1, <4>2 DEF Leads
    <3>9. t # <<>>
      <4>1. Len(<<>>) = 0
        OBVIOUS
      <4>2. Len(t) # 0
        BY <1>1, <3>2, <3>3
      <4>3. QED BY <4>1, <4>2, Zenon
    <3> DEFINE next == a + Size(cell.op)
    <3> HIDE DEF t, cell, next
    <3>10. Sound(d, into, a) <=>
          /\ Leads(d, into, next, into[next])
          /\ cell.op \in {"VALUE", "NIL"} => into[next] = Append(t, cell.slot)
          /\ cell.op = "VALUE" => t = Ident(cell.depth)
          /\ cell.op \in Discards => t # <<>> /\ into[next] = SubSeq(t, 1, Len(t) - 1)
          /\ cell.op = "CLOSE_UPVALUE" => t[Len(t)] = cell.slot
          /\ cell.op = "JUMP_IF_FALSE" => into[next] = t
          /\ cell.op \in {"JUMP", "JUMP_IF_FALSE"} =>
                cell.arg = DUMMY_JUMP_TARGET \/ Leads(d, into, next + cell.arg, t)
          /\ cell.op = "LOOP" => Leads(d, into, next - cell.arg, t)
      BY Zenon DEF Sound, t, cell, next
    <3>11. next = a + 1
      BY <3>7 DEF next
    <3>12. QED BY <3>2, <3>4, <3>5, <3>6, <3>8, <3>9, <3>10, <3>11
  <2>3. QED BY <1>1, <1>2, <2>1, <2>2
<1>11. Grows(c, shape, d, into)
  <2>1. Leads(c, shape, 0, <<>>)
    BY DEF Coherent
  <2>2. Len(d) >= Len(c) /\ d \in Codes
    BY <1>1, <1>2
  <2>3. Leads(d, into, 0, <<>>)
    BY <1>3, <1>7, <1>9, <2>1, <2>2, LeadsLater
  <2>4. QED BY <1>1, <1>2, <1>3, <1>5, <1>7, <1>9, <1>10, <2>3 DEF Grows, Coherent
<1>12. into[Len(c) + Len(e)] = SubSeq(s, 1, Len(s) - Len(e))
  BY <1>1, <1>6
<1>13. QED BY <1>11, <1>12 DEF d

(* A jump is given its distance.                                            *)
Patched(c, p, g, d) ==
    /\ d \in Codes /\ Len(d) = Len(c)
    /\ \A i \in 1..Len(c) : i # p + 1 => d[i] = c[i]
    /\ d[p + 1].op = c[p + 1].op /\ d[p + 1].slot = c[p + 1].slot
    /\ d[p + 1].loop = c[p + 1].loop /\ d[p + 1].depth = c[p + 1].depth
    /\ d[p + 1].arg = g

LEMMA PatchedIs ==
    ASSUME NEW c \in Codes, NEW p \in 0..Len(c) - 1, NEW g \in Int
    PROVE  Patched(c, p, g, [c EXCEPT ![p + 1].arg = g])
<1> DEFINE cell == [c[p + 1] EXCEPT !.arg = g]
           d == [c EXCEPT ![p + 1] = cell]
<1>1. Len(c) \in Nat /\ p + 1 \in 1..Len(c) /\ c \in Seq(Cells)
  BY DEF Codes
<1>2. c[p + 1] \in Cells
  BY <1>1
<1>3. /\ cell \in Cells /\ cell.arg = g /\ cell.op = c[p + 1].op /\ cell.slot = c[p + 1].slot
      /\ cell.loop = c[p + 1].loop /\ cell.depth = c[p + 1].depth
  BY <1>2 DEF Cells
<1>4. [c EXCEPT ![p + 1].arg = g] = d
  OBVIOUS
<1> HIDE DEF cell
<1>5. d \in Seq(Cells) /\ Len(d) = Len(c) /\ d[p + 1] = cell /\ \A i \in 1..Len(c) : i # p + 1 => d[i] = c[i]
  BY <1>1, <1>3
<1>6. QED BY <1>3, <1>4, <1>5 DEF Patched, Codes

LEMMA PatchCoheres ==
    ASSUME NEW c \in Codes, NEW shape, Coherent(c, shape),
           NEW p \in 0..Len(c) - 1, NEW g \in Int, NEW d, Patched(c, p, g, d),
           c[p + 1].op \in {"JUMP", "JUMP_IF_FALSE"},
           Leads(c, shape, p + 3 + g, shape[p])
    PROVE  /\ Coherent(d, shape)
           /\ \A a, s : Leads(c, shape, a, s) => Leads(d, shape, a, s)
<1>1. Len(c) \in Nat /\ Len(d) = Len(c)
  BY DEF Codes, Patched
<1>2. \A i \in 1..Len(c) : d[i].op = c[i].op
  BY <1>1 DEF Patched
<1>3. \A a, s : Leads(c, shape, a, s) => Leads(d, shape, a, s)
  BY <1>1, <1>2 DEF Leads
<1>4. ASSUME NEW a \in 0..Len(d) - 1, d[a + 1].op # "operand" PROVE Sound(d, shape, a)
  <2> DEFINE cell == c[a + 1]
             new  == d[a + 1]
             next == a + Size(cell.op)
             t    == shape[a]
  <2>1. a + 1 \in 1..Len(c) /\ new.op = cell.op
    BY <1>1, <1>2
  <2>2. Sound(c, shape, a)
    BY <1>1, <1>4, <2>1 DEF Coherent
  <2>3. /\ new.slot = cell.slot /\ new.depth = cell.depth
        /\ a # p => new.arg = cell.arg
    <3>1. CASE a = p
      BY <3>1 DEF Patched
    <3>2. CASE a # p
      BY <1>1, <2>1, <3>2 DEF Patched
    <3>3. QED BY <3>1, <3>2
  <2> HIDE DEF cell, new, next, t
  <2>4. Sound(c, shape, a) <=>
        /\ Leads(c, shape, next, shape[next])
        /\ cell.op \in {"VALUE", "NIL"} => shape[next] = Append(t, cell.slot)
        /\ cell.op = "VALUE" => t = Ident(cell.depth)
        /\ cell.op \in Discards => t # <<>> /\ shape[next] = SubSeq(t, 1, Len(t) - 1)
        /\ cell.op = "CLOSE_UPVALUE" => t[Len(t)] = cell.slot
        /\ cell.op = "JUMP_IF_FALSE" => shape[next] = t
        /\ cell.op \in {"JUMP", "JUMP_IF_FALSE"} =>
              cell.arg = DUMMY_JUMP_TARGET \/ Leads(c, shape, next + cell.arg, t)
        /\ cell.op = "LOOP" => Leads(c, shape, next - cell.arg, t)
    BY Zenon DEF Sound, cell, next, t
  <2>5. Sound(d, shape, a) <=>
        /\ Leads(d, shape, next, shape[next])
        /\ new.op \in {"VALUE", "NIL"} => shape[next] = Append(t, new.slot)
        /\ new.op = "VALUE" => t = Ident(new.depth)
        /\ new.op \in Discards => t # <<>> /\ shape[next] = SubSeq(t, 1, Len(t) - 1)
        /\ new.op = "CLOSE_UPVALUE" => t[Len(t)] = new.slot
        /\ new.op = "JUMP_IF_FALSE" => shape[next] = t
        /\ new.op \in {"JUMP", "JUMP_IF_FALSE"} =>
              new.arg = DUMMY_JUMP_TARGET \/ Leads(d, shape, next + new.arg, t)
        /\ new.op = "LOOP" => Leads(d, shape, next - new.arg, t)
    <3>1. next = a + Size(new.op)
      BY <2>1 DEF next
    <3>2. QED BY <3>1, Zenon DEF Sound, new, t
  <2>6. Leads(d, shape, next, shape[next])
    BY <1>3, <2>2, <2>4
  <2>7. new.op \in {"JUMP", "JUMP_IF_FALSE"} =>
              new.arg = DUMMY_JUMP_TARGET \/ Leads(d, shape, next + new.arg, t)
    <3>1. CASE a = p
      <4>1. new.arg = g /\ next = p + 3
        BY <2>1, <3>1, SizeIs DEF Patched, cell, new, next
      <4>2. Leads(d, shape, p + 3 + g, t)
        BY <1>3, <3>1 DEF t
      <4>3. QED BY <4>1, <4>2
    <3>2. CASE a # p
      BY <1>3, <2>1, <2>2, <2>3, <2>4, <3>2
    <3>3. QED BY <3>1, <3>2
  <2>8. new.op = "LOOP" => Leads(d, shape, next - new.arg, t)
    <3>1. new.op = "LOOP" => a # p
      BY <2>1 DEF cell
    <3>2. QED BY <1>3, <2>1, <2>2, <2>3, <2>4, <3>1
  <2>9. QED BY <2>1, <2>2, <2>3, <2>4, <2>5, <2>6, <2>7, <2>8
<1>5. QED BY <1>3, <1>4 DEF Coherent

-----------------------------------------------------------------------------
(* The loops that patch.                                                    *)
States == [code : Codes, from : Nat]

Turns(f, n, c, op, bottom, adjust) ==
    f = [turn \in 0..n |-> IF turn = 0 THEN [code |-> c, from |-> 0]
                           ELSE PatchNext(f[turn - 1], op, bottom, adjust)]

Placeholders(c, op) == {p \in 0..Len(c) - 3 : c[p + 1].op = op /\ c[p + 1].arg = DUMMY_JUMP_TARGET}
Only(c, op, p) == Placeholders(c, op) = {p}
None(c, op)    == Placeholders(c, op) = {}

LEMMA MinIs ==
    ASSUME NEW S \in SUBSET Nat, S # {}
    PROVE  Min(S) \in S /\ \A y \in S : Min(S) <= y
BY LeastNat DEF Min

LEMMA TurnsExist ==
    ASSUME NEW c, NEW op, NEW bottom, NEW adjust, NEW n \in Nat
    PROVE  \E f : Turns(f, n, c, op, bottom, adjust)
<1> DEFINE T(f, m) == Turns(f, m, c, op, bottom, adjust)
           start == [code |-> c, from |-> 0]
<1>1. \E f : T(f, 0)
  <2> DEFINE f == [turn \in 0..0 |-> start]
  <2>1. f = [turn \in 0..0 |-> IF turn = 0 THEN start ELSE PatchNext(f[turn - 1], op, bottom, adjust)]
    OBVIOUS
  <2> HIDE DEF f
  <2>2. T(f, 0)
    BY <2>1 DEF Turns
  <2>3. QED BY <2>2
<1>2. ASSUME NEW m \in Nat, NEW f, T(f, m) PROVE \E g : T(g, m + 1)
  <2> DEFINE g == [turn \in 0..m + 1 |-> IF turn = m + 1 THEN PatchNext(f[m], op, bottom, adjust) ELSE f[turn]]
  <2>1. \A turn \in 0..m : g[turn] = f[turn]
    OBVIOUS
  <2>2. \A turn \in 0..m : f[turn] = IF turn = 0 THEN start ELSE PatchNext(f[turn - 1], op, bottom, adjust)
    <3>1. f = [turn \in 0..m |-> IF turn = 0 THEN start ELSE PatchNext(f[turn - 1], op, bottom, adjust)]
      BY <1>2 DEF Turns
    <3> DEFINE h == [turn \in 0..m |-> IF turn = 0 THEN start ELSE PatchNext(f[turn - 1], op, bottom, adjust)]
    <3>2. \A turn \in 0..m : h[turn] = IF turn = 0 THEN start ELSE PatchNext(f[turn - 1], op, bottom, adjust)
      OBVIOUS
    <3>3. f = h
      BY <3>1
    <3> HIDE DEF h
    <3>4. QED BY <3>2, <3>3, Zenon
  <2>3. ASSUME NEW turn \in 0..m + 1
        PROVE g[turn] = IF turn = 0 THEN start ELSE PatchNext(g[turn - 1], op, bottom, adjust)
    <3>1. CASE turn = m + 1
      <4>1. g[turn] = PatchNext(f[m], op, bottom, adjust) /\ turn # 0 /\ turn - 1 = m
        BY <3>1
      <4>2. g[m] = f[m]
        BY <2>1
      <4>3. QED BY <4>1, <4>2
    <3>2. CASE turn = 0
      BY <2>1, <2>2, <3>2
    <3>3. CASE turn \in 1..m
      <4>1. g[turn] = f[turn] /\ g[turn - 1] = f[turn - 1]
        BY <2>1, <3>3
      <4>2. f[turn] = PatchNext(f[turn - 1], op, bottom, adjust)
        BY <2>2, <3>3
      <4>3. QED BY <3>3, <4>1, <4>2
    <3>4. QED BY <3>1, <3>2, <3>3
  <2>4. g = [turn \in 0..m + 1 |-> g[turn]]
    OBVIOUS
  <2> HIDE DEF g
  <2>5. [turn \in 0..m + 1 |-> g[turn]] =
        [turn \in 0..m + 1 |-> IF turn = 0 THEN start ELSE PatchNext(g[turn - 1], op, bottom, adjust)]
    BY <2>3
  <2>6. T(g, m + 1)
    BY <2>4, <2>5 DEF Turns
  <2>7. QED BY <2>6
<1> DEFINE Bad == {m \in Nat : ~ \E f : T(f, m)}
<1>3. Bad = {}
  <2>1. SUFFICES ASSUME Bad # {} PROVE FALSE
    OBVIOUS
  <2>2. PICK m \in Bad : \A k \in Bad : m <= k
    <3>1. Bad \in SUBSET Nat
      OBVIOUS
    <3> HIDE DEF Bad
    <3>2. QED BY <2>1, <3>1, LeastNat
  <2>3. m # 0
    BY <1>1
  <2>4. m - 1 \in Nat /\ m - 1 \notin Bad
    BY <2>2, <2>3
  <2>5. PICK f : T(f, m - 1)
    BY <2>4
  <2>6. \E g : T(g, m - 1 + 1)
    <3> HIDE DEF T
    <3>1. QED BY <1>2, <2>4, <2>5
  <2>7. m - 1 + 1 = m
    BY <2>2
  <2>8. QED BY <2>6, <2>7
<1>4. n \notin Bad
  BY <1>3
<1>5. QED BY <1>4

LEMMA TurnsStart ==
    ASSUME NEW c, NEW op, NEW bottom, NEW adjust, NEW n \in Nat, NEW f,
           Turns(f, n, c, op, bottom, adjust)
    PROVE  f[0] = [code |-> c, from |-> 0]
<1> DEFINE h == [turn \in 0..n |-> IF turn = 0 THEN [code |-> c, from |-> 0]
                                   ELSE PatchNext(f[turn - 1], op, bottom, adjust)]
<1>1. f = h
  BY DEF Turns
<1>2. h[0] = [code |-> c, from |-> 0]
  OBVIOUS
<1> HIDE DEF h
<1>3. QED BY <1>1, <1>2, Zenon

LEMMA TurnsStep ==
    ASSUME NEW c, NEW op, NEW bottom, NEW adjust, NEW n \in Nat, NEW f,
           Turns(f, n, c, op, bottom, adjust), NEW turn \in 1..n
    PROVE  f[turn] = PatchNext(f[turn - 1], op, bottom, adjust)
<1> DEFINE h == [k \in 0..n |-> IF k = 0 THEN [code |-> c, from |-> 0]
                                   ELSE PatchNext(f[k - 1], op, bottom, adjust)]
<1>1. f = h
  BY DEF Turns
<1>2. h[turn] = PatchNext(f[turn - 1], op, bottom, adjust)
  OBVIOUS
<1> HIDE DEF h
<1>3. QED BY <1>1, <1>2, Zenon

LEMMA PatchFromIs ==
    ASSUME NEW c \in Codes, NEW op, NEW bottom, NEW adjust
    PROVE  \E f : /\ Turns(f, Len(c), c, op, bottom, adjust)
                  /\ PatchFrom(c, op, bottom, adjust) = f[Len(c)].code
<1> DEFINE f == CHOOSE after : after =
                   [turn \in 0..Len(c) |-> IF turn = 0 THEN [code |-> c, from |-> 0]
                                           ELSE PatchNext(after[turn - 1], op, bottom, adjust)]
<1>1. PatchFrom(c, op, bottom, adjust) = f[Len(c)].code
  BY DEF PatchFrom
<1>2. Len(c) \in Nat
  BY DEF Codes
<1>3. \E after : after = [turn \in 0..Len(c) |-> IF turn = 0 THEN [code |-> c, from |-> 0]
                                           ELSE PatchNext(after[turn - 1], op, bottom, adjust)]
  <2>1. \E g : Turns(g, Len(c), c, op, bottom, adjust)
    BY <1>2, TurnsExist
  <2>2. QED BY <2>1, Zenon DEF Turns
<1>4. f = [turn \in 0..Len(c) |-> IF turn = 0 THEN [code |-> c, from |-> 0]
                                           ELSE PatchNext(f[turn - 1], op, bottom, adjust)]
  BY <1>3, Zenon
<1> HIDE DEF f
<1>5. Turns(f, Len(c), c, op, bottom, adjust)
  BY <1>4 DEF Turns
<1>6. QED BY <1>1, <1>5

(* One turn.                                                                *)
LEMMA NextIs ==
    ASSUME NEW s \in States, NEW op, NEW bottom \in Int, NEW adjust \in Int
    PROVE  LET n == PatchNext(s, op, bottom, adjust) IN
           /\ n \in States /\ Len(n.code) = Len(s.code)
           /\ None(s.code, op) => n = s
<1> DEFINE last  == Len(s.code) - 3
           found == {o \in s.from..last : s.code[o + 1].op = op /\ s.code[o + 1].arg = DUMMY_JUMP_TARGET}
           q     == Min(found)
           g     == u16(bottom - q - s.from + adjust)
           next  == [code |-> [s.code EXCEPT ![q + 1].arg = g], from |-> u8(s.from + q)]
           n     == PatchNext(s, op, bottom, adjust)
<1>1. n = IF s.from >= last \/ found = {} THEN s ELSE next
  BY Zenon DEF PatchNext
<1>2. s.code \in Codes /\ s.from \in Nat /\ Len(s.code) \in Nat
  BY DEF States, Codes
<1>3. found \subseteq Placeholders(s.code, op)
  BY <1>2 DEF Placeholders
<1>4. s.from = 0 => found = Placeholders(s.code, op)
  BY <1>2 DEF Placeholders
<1>5. found \in SUBSET Nat
  BY <1>2
<1> HIDE DEF found
<1>6. found # {} => q \in found
  BY <1>5, MinIs
<1>7. ASSUME found # {}
      PROVE  next \in States /\ Len(next.code) = Len(s.code)
  <2>1. q \in 0..Len(s.code) - 1
    <3> HIDE DEF q
    <3>1. q \in Placeholders(s.code, op)
      BY <1>3, <1>6, <1>7
    <3>2. q \in 0..Len(s.code) - 3
      BY <3>1 DEF Placeholders
    <3>3. QED BY <1>2, <3>2
  <2>2. g \in Int
    BY <1>2, <2>1 DEF u16
  <2>3. u8(s.from + q) \in Nat
    BY <1>2, <2>1 DEF u8
  <2> HIDE DEF q, g
  <2>4. Patched(s.code, q, g, [s.code EXCEPT ![q + 1].arg = g])
    BY <1>2, <2>1, <2>2, PatchedIs
  <2>5. QED BY <2>3, <2>4 DEF Patched, States
<1>8. n \in States /\ Len(n.code) = Len(s.code)
  <2> HIDE DEF next, n
  <2>1. QED BY <1>1, <1>7
<1>9. None(s.code, op) => n = s
  <2>1. None(s.code, op) => found = {}
    BY <1>3 DEF None
  <2> HIDE DEF next, n
  <2>2. QED BY <1>1, <2>1
<1> HIDE DEF n
<1>11. QED BY <1>8, <1>9 DEF n

Advanced(s, p, g) == [code |-> [s.code EXCEPT ![p + 1].arg = g], from |-> u8(p)]
Alone(s, op, p) == Only(s.code, op, p) /\ s.from = 0 /\ Len(s.code) > 3

LEMMA NextOne ==
    ASSUME NEW s, s \in States, NEW op, NEW bottom, bottom \in Int, NEW adjust, adjust \in Int,
           NEW p, Alone(s, op, p)
    PROVE  PatchNext(s, op, bottom, adjust) = Advanced(s, p, u16(bottom - p + adjust))
<1> DEFINE last  == Len(s.code) - 3
           found == {o \in s.from..last : s.code[o + 1].op = op /\ s.code[o + 1].arg = DUMMY_JUMP_TARGET}
           q     == Min(found)
           g     == u16(bottom - q - s.from + adjust)
           next  == [code |-> [s.code EXCEPT ![q + 1].arg = g], from |-> u8(s.from + q)]
           n     == PatchNext(s, op, bottom, adjust)
<1>1. n = IF s.from >= last \/ found = {} THEN s ELSE next
  BY Zenon DEF PatchNext
<1>2. s.code \in Codes /\ s.from \in Nat /\ Len(s.code) \in Nat
  BY DEF States, Codes
<1>3. found \subseteq Placeholders(s.code, op)
  BY <1>2 DEF Placeholders
<1>4. s.from = 0 => found = Placeholders(s.code, op)
  BY <1>2 DEF Placeholders
<1>5. found \in SUBSET Nat
  BY <1>2
<1> HIDE DEF found
<1>6. found # {} => q \in found
  BY <1>5, MinIs
<1>7. found # {} /\ q = p
  BY <1>4, <1>6 DEF Alone, Only
<1>8. ~(s.from >= last)
  BY <1>2 DEF Alone
<1>9. p \in Nat
  BY <1>2 DEF Placeholders, Alone, Only
<1>10. n = next
  <2> HIDE DEF n, next, last
  <2>1. QED BY <1>1, <1>7, <1>8
<1>11. bottom - q - s.from + adjust = bottom - p + adjust /\ s.from + q = p
  BY <1>7, <1>9 DEF Alone
<1>12. next = [code |-> [s.code EXCEPT ![p + 1].arg = u16(bottom - p + adjust)], from |-> u8(p)]
  <2>1. g = u16(bottom - p + adjust)
    BY <1>11
  <2> HIDE DEF g, q
  <2>2. QED BY <1>7, <1>11, <2>1
<1>13. QED BY <1>10, <1>12 DEF Advanced

LEMMA PatchFromTyped ==
    ASSUME NEW c \in Codes, NEW op, NEW bottom \in Int, NEW adjust \in Int
    PROVE  PatchFrom(c, op, bottom, adjust) \in Codes /\ Len(PatchFrom(c, op, bottom, adjust)) = Len(c)
<1>1. PICK f : /\ Turns(f, Len(c), c, op, bottom, adjust)
               /\ PatchFrom(c, op, bottom, adjust) = f[Len(c)].code
  BY PatchFromIs
<1>2. Len(c) \in Nat
  BY DEF Codes
<1>3. f[0] = [code |-> c, from |-> 0]
  BY <1>1, <1>2, TurnsStart, SMT
<1> DEFINE Good(k) == f[k] \in States /\ Len(f[k].code) = Len(c)
           Bad == {k \in 0..Len(c) : ~Good(k)}
<1>4. Good(0)
  BY <1>3 DEF States
<1>5. ASSUME NEW k \in 1..Len(c), Good(k - 1) PROVE Good(k)
  <2>1. f[k] = PatchNext(f[k - 1], op, bottom, adjust)
    BY <1>1, <1>2, TurnsStep, SMT
  <2> DEFINE s == f[k - 1]
  <2>2. s \in States /\ Len(s.code) = Len(c) /\ f[k] = PatchNext(s, op, bottom, adjust)
    BY <1>5, <2>1
  <2> HIDE DEF s
  <2>3. PatchNext(s, op, bottom, adjust) \in States
        /\ Len(PatchNext(s, op, bottom, adjust).code) = Len(s.code)
    BY <2>2, NextIs
  <2>4. QED BY <2>2, <2>3
<1>6. Bad = {}
  <2>1. SUFFICES ASSUME Bad # {} PROVE FALSE
    OBVIOUS
  <2>2. PICK m \in Bad : \A k \in Bad : m <= k
    <3>1. Bad \in SUBSET Nat
      OBVIOUS
    <3> HIDE DEF Bad
    <3>2. QED BY <2>1, <3>1, LeastNat
  <2> HIDE DEF Good
  <2>3. m \in 0..Len(c) /\ ~Good(m)
    OBVIOUS
  <2>4. m # 0
    BY <1>4, <2>3
  <2>5. m \in 1..Len(c) /\ m - 1 \in 0..Len(c) /\ ~(m <= m - 1)
    BY <1>2, <2>3, <2>4
  <2>6. m - 1 \notin Bad
    BY <2>2, <2>5
  <2>7. QED BY <1>5, <2>3, <2>5, <2>6
<1>7. Good(Len(c))
  BY <1>2, <1>6
<1>8. QED BY <1>1, <1>7 DEF States

(* Turns that find nothing change nothing.                                  *)
LEMMA TurnsSettle ==
    ASSUME NEW c, NEW op, NEW bottom \in Int, NEW adjust \in Int, NEW n \in Nat, NEW f,
           Turns(f, n, c, op, bottom, adjust),
           NEW k \in 0..n, f[k] \in States, None(f[k].code, op)
    PROVE  f[n] = f[k]
<1> DEFINE Bad == {j \in k..n : f[j] # f[k]}
<1>2. Bad = {}
  <2>1. SUFFICES ASSUME Bad # {} PROVE FALSE
    OBVIOUS
  <2>2. PICK m \in Bad : \A j \in Bad : m <= j
    <3>1. Bad \in SUBSET Nat
      OBVIOUS
    <3> HIDE DEF Bad
    <3>2. QED BY <2>1, <3>1, LeastNat
  <2>3. m \in k..n /\ f[m] # f[k] /\ m # k
    OBVIOUS
  <2>4. m - 1 \in k..n /\ ~(m <= m - 1) /\ m \in 1..n
    BY <2>3
  <2>5. f[m - 1] = f[k]
    BY <2>2, <2>4
  <2>6. f[m] = PatchNext(f[k], op, bottom, adjust)
    <3>1. f[m] = PatchNext(f[m - 1], op, bottom, adjust)
      BY <2>4, TurnsStep, SMT
    <3>2. QED BY <2>5, <3>1
  <2>7. QED BY <2>3, <2>6, NextIs
<1>3. QED BY <1>2

Settled(f, k, s, op) == f[k] = s /\ s \in States /\ None(s.code, op)

LEMMA TurnsEnd ==
    ASSUME NEW c, NEW op, NEW bottom, bottom \in Int, NEW adjust, adjust \in Int,
           NEW n, n \in Nat, NEW f, Turns(f, n, c, op, bottom, adjust),
           NEW k, k \in 0..n, NEW s, Settled(f, k, s, op)
    PROVE  f[n] = s
<1>2. f[k] \in States /\ f[k] = s
  BY DEF Settled
<1>3. None(f[k].code, op)
  BY DEF Settled
<1>4. f[n] = f[k]
  BY <1>2, <1>3, TurnsSettle, SMT
<1>5. QED BY <1>2, <1>4

LEMMA PatchFromNone ==
    ASSUME NEW c \in Codes, NEW op, NEW bottom \in Int, NEW adjust \in Int, None(c, op)
    PROVE  PatchFrom(c, op, bottom, adjust) = c
<1>1. PICK f : /\ Turns(f, Len(c), c, op, bottom, adjust)
               /\ PatchFrom(c, op, bottom, adjust) = f[Len(c)].code
  BY PatchFromIs
<1>2. Len(c) \in Nat
  BY DEF Codes
<1>3. f[0] = [code |-> c, from |-> 0]
  BY <1>1, <1>2, TurnsStart, SMT
<1>4. f[0] \in States /\ f[0].code = c
  BY <1>3 DEF States
<1>5. f[Len(c)] = f[0]
  <2>1. 0 \in 0..Len(c)
    BY <1>2
  <2>2. Settled(f, 0, f[0], op)
    BY <1>4 DEF Settled
  <2>3. QED BY <1>1, <1>2, <2>1, <2>2, TurnsEnd, SMT
<1>6. QED BY <1>1, <1>4, <1>5

(* The only placeholder gets its distance.                                  *)
LEMMA PatchFromOne ==
    ASSUME NEW c \in Codes, NEW op, NEW bottom \in Int, NEW adjust \in Int,
           NEW p, Only(c, op, p), Len(c) > 3,
           u16(bottom - p + adjust) # DUMMY_JUMP_TARGET
    PROVE  LET d == PatchFrom(c, op, bottom, adjust) IN
           /\ Patched(c, p, u16(bottom - p + adjust), d)
           /\ None(d, op)
<1>1. PICK f : /\ Turns(f, Len(c), c, op, bottom, adjust)
               /\ PatchFrom(c, op, bottom, adjust) = f[Len(c)].code
  BY PatchFromIs
<1>2. Len(c) \in Nat
  BY DEF Codes
<1>3. f[0] = [code |-> c, from |-> 0]
  BY <1>1, <1>2, TurnsStart, SMT
<1>4. f[0] \in States /\ f[0].code = c /\ f[0].from = 0
  BY <1>3 DEF States
<1> DEFINE g == u16(bottom - p + adjust)
           d == [c EXCEPT ![p + 1].arg = g]
<1>5. p \in 0..Len(c) - 1 /\ c[p + 1].op = op
  BY <1>2 DEF Placeholders, Only
<1>6. g \in Int /\ u8(p) \in Nat
  BY <1>5 DEF u16, u8
<1>7. Patched(c, p, g, d)
  <2> HIDE DEF g
  <2>1. QED BY <1>5, <1>6, PatchedIs
<1>8. f[1] = [code |-> d, from |-> u8(p)]
  <2>1. f[1] = PatchNext(f[0], op, bottom, adjust)
    <3>1. 1 \in 1..Len(c) /\ 1 - 1 = 0
      BY <1>2
    <3>2. \A k \in 1..Len(c) : f[k] = PatchNext(f[k - 1], op, bottom, adjust)
      BY <1>1, <1>2, TurnsStep, SMT
    <3>3. QED BY <3>1, <3>2
  <2> DEFINE s == f[0]
  <2>2. s \in States /\ s.code = c /\ s.from = 0 /\ f[1] = PatchNext(s, op, bottom, adjust)
    BY <1>4, <2>1
  <2> HIDE DEF s
  <2>3. PatchNext(s, op, bottom, adjust) = Advanced(s, p, u16(bottom - p + adjust))
    <3>1. Alone(s, op, p)
      BY <2>2 DEF Alone
    <3>2. QED BY <2>2, <3>1, NextOne, SMT
  <2>4. QED BY <2>2, <2>3 DEF Advanced
<1> HIDE DEF d, g
<1>9. None(d, op)
  <2>1. ASSUME NEW q \in Placeholders(d, op) PROVE FALSE
    <3>1. q \in 0..Len(c) - 3 /\ d[q + 1].op = op /\ d[q + 1].arg = DUMMY_JUMP_TARGET
      BY <1>7, <2>1 DEF Patched, Placeholders
    <3>2. q # p
      BY <1>7, <3>1 DEF Patched, g
    <3>3. d[q + 1] = c[q + 1]
      BY <1>2, <1>5, <1>7, <3>1, <3>2 DEF Patched
    <3>4. q \in Placeholders(c, op)
      BY <3>1, <3>3 DEF Placeholders
    <3>5. QED BY <3>2, <3>4 DEF Only
  <2>2. QED BY <2>1 DEF None
<1>10. f[1] \in States /\ f[1].code = d
  BY <1>6, <1>7, <1>8 DEF States, Patched
<1>11. f[Len(c)] = f[1]
  <2>1. 1 \in 0..Len(c)
    BY <1>2
  <2>4. None(f[1].code, op)
    BY <1>9, <1>10
  <2>2. Settled(f, 1, f[1], op)
    BY <1>10, <2>4 DEF Settled
  <2>3. QED BY <1>1, <1>2, <2>1, <2>2, TurnsEnd, SMT
<1>12. PatchFrom(c, op, bottom, adjust) = d
  BY <1>1, <1>10, <1>11
<1>13. QED BY <1>7, <1>9, <1>12 DEF g

(* Locals.                                                                  *)
Locals == [level : Nat, captured : BOOLEAN]
Sorted(ls) == \A i, j \in 1..Len(ls) : i <= j => ls[i].level <= ls[j].level

LEMMA LevelIs ==
    ASSUME NEW ls \in Seq(Locals)
    PROVE  \A i \in 1..Len(ls) : ls[i].level \in Nat /\ ls[i].captured \in BOOLEAN
<1>1. \A l \in Locals : l.level \in Nat /\ l.captured \in BOOLEAN
  BY Zenon DEF Locals
<1>2. \A i \in 1..Len(ls) : ls[i] \in Locals
  OBVIOUS
<1>3. QED BY <1>1, <1>2, Zenon

(* k of the locals are of a level or below.                                 *)
Cuts(ls, level, k) ==
    /\ k \in 0..Len(ls)
    /\ \A i \in 1..Len(ls) : ls[i].level <= level <=> i <= k

LEMMA KeptCuts ==
    ASSUME NEW ls \in Seq(Locals), NEW level, NEW k, Cuts(ls, level, k)
    PROVE  /\ Kept(ls, level) = SubSeq(ls, 1, k) /\ Kept(ls, level) \in Seq(Locals)
           /\ Len(Kept(ls, level)) = k
           /\ \A i \in 1..k : Kept(ls, level)[i] = ls[i]
<1>1. Len(ls) \in Nat /\ k \in 0..Len(ls) /\ DOMAIN ls = 1..Len(ls)
  BY DEF Cuts
<1>2. {i \in DOMAIN ls : ls[i].level <= level} = 1..k
  BY <1>1 DEF Cuts
<1>3. Cardinality(1..k) = k
  BY <1>1, FS_Interval
<1>4. Kept(ls, level) = SubSeq(ls, 1, k)
  BY <1>2, <1>3 DEF Kept
<1>5. SubSeq(ls, 1, k) \in Seq(Locals) /\ Len(SubSeq(ls, 1, k)) = k
      /\ \A i \in 1..k : SubSeq(ls, 1, k)[i] = ls[i]
  BY <1>1
<1>6. QED BY <1>4, <1>5

LEMMA CutExists ==
    ASSUME NEW ls \in Seq(Locals), Sorted(ls), NEW level \in Nat
    PROVE  \E k : Cuts(ls, level, k)
<1> DEFINE Above == {i \in 1..Len(ls) + 1 : i = Len(ls) + 1 \/ ls[i].level > level}
<1>1. Len(ls) \in Nat
  OBVIOUS
<1>2. \A i \in 1..Len(ls) : ls[i].level \in Nat
  BY LevelIs
<1>3. PICK m \in Above : \A n \in Above : m <= n
  <2>1. Above \in SUBSET Nat /\ Len(ls) + 1 \in Above
    BY <1>1
  <2> HIDE DEF Above
  <2>2. Above # {}
    BY <2>1
  <2>3. QED BY <2>1, <2>2, LeastNat
<1>4. m \in 1..Len(ls) + 1
  OBVIOUS
<1>5. ASSUME NEW i \in 1..Len(ls) PROVE ls[i].level <= level <=> i <= m - 1
  <2>1. CASE i < m
    <3>1. i \notin Above
      BY <1>3, <1>4, <2>1
    <3>2. QED BY <1>1, <1>2, <1>4, <2>1, <3>1
  <2>2. CASE i >= m
    <3>1. m \in 1..Len(ls) /\ ls[m].level > level
      BY <1>1, <1>3, <1>4, <2>2
    <3>2. ls[m].level <= ls[i].level
      BY <2>2, <3>1 DEF Sorted
    <3>3. QED BY <1>2, <1>4, <2>2, <3>1, <3>2
  <2>3. QED BY <1>4, <2>1, <2>2
<1>6. Cuts(ls, level, m - 1)
  BY <1>1, <1>4, <1>5 DEF Cuts
<1>7. QED BY <1>6

(* What Kept returns.                                                       *)
LEMMA KeptIs ==
    ASSUME NEW ls \in Seq(Locals), Sorted(ls), NEW level \in Nat
    PROVE  /\ Cuts(ls, level, Len(Kept(ls, level)))
           /\ Kept(ls, level) \in Seq(Locals) /\ Sorted(Kept(ls, level))
           /\ Len(Kept(ls, level)) \in 0..Len(ls)
           /\ \A i \in 1..Len(Kept(ls, level)) :
                 Kept(ls, level)[i] = ls[i] /\ ls[i].level <= level
<1>1. PICK k : Cuts(ls, level, k)
  BY CutExists
<1> DEFINE r == Kept(ls, level)
<1>2. r \in Seq(Locals) /\ Len(r) = k /\ \A i \in 1..k : r[i] = ls[i]
  BY <1>1, KeptCuts
<1> HIDE DEF r
<1>3. Len(ls) \in Nat /\ k \in 0..Len(ls)
  BY <1>1 DEF Cuts
<1>4. Sorted(r)
  BY <1>2, <1>3 DEF Sorted
<1>5. \A i \in 1..k : ls[i].level <= level
  BY <1>1, <1>3 DEF Cuts
<1>6. QED BY <1>1, <1>2, <1>3, <1>4, <1>5 DEF r

(* A local of a higher level leaves those below as they are.                *)
LEMMA KeptAppend ==
    ASSUME NEW ls \in Seq(Locals), Sorted(ls), NEW level \in Nat,
           NEW l \in Locals, l.level > level
    PROVE  Len(Kept(Append(ls, l), level)) = Len(Kept(ls, level))
<1>1. PICK k : Cuts(ls, level, k)
  BY CutExists
<1> DEFINE r == Append(ls, l)
<1>2. r \in Seq(Locals) /\ Len(r) = Len(ls) + 1 /\ r[Len(ls) + 1] = l
      /\ \A i \in 1..Len(ls) : r[i] = ls[i]
  OBVIOUS
<1>3. l.level \in Nat /\ Len(ls) \in Nat
  BY DEF Locals
<1> HIDE DEF r
<1>4. Cuts(r, level, k)
  BY <1>1, <1>2, <1>3 DEF Cuts
<1>5. QED BY <1>1, <1>2, <1>4, KeptCuts DEF r

(* Those of a level are among those of a higher one.                        *)
LEMMA KeptKept ==
    ASSUME NEW ls \in Seq(Locals), Sorted(ls), NEW high \in Nat, NEW level \in Nat, level <= high
    PROVE  Len(Kept(Kept(ls, high), level)) = Len(Kept(ls, level))
<1>1. PICK k : Cuts(ls, level, k)
  BY CutExists
<1> DEFINE r == Kept(ls, high)
<1>2. /\ Cuts(ls, high, Len(r)) /\ r \in Seq(Locals) /\ Len(r) \in 0..Len(ls)
      /\ \A i \in 1..Len(r) : r[i] = ls[i]
  BY KeptIs
<1>3. \A i \in 1..Len(ls) : ls[i].level \in Nat
  BY LevelIs
<1> HIDE DEF r
<1>4. k \in 0..Len(r)
  <2>1. k \in 0..Len(ls) /\ Len(r) \in Nat
    BY <1>1, <1>2 DEF Cuts
  <2>2. CASE k = 0
    BY <2>1, <2>2
  <2>3. CASE k > 0
    <3>1. k \in 1..Len(ls) /\ ls[k].level <= level
      BY <1>1, <2>1, <2>3 DEF Cuts
    <3>2. ls[k].level <= high
      BY <1>3, <3>1
    <3>3. k <= Len(r)
      BY <1>2, <3>1, <3>2 DEF Cuts
    <3>4. QED BY <2>1, <3>3
  <2>4. QED BY <2>1, <2>2, <2>3
<1>5. Cuts(r, level, k)
  BY <1>1, <1>2, <1>4 DEF Cuts
<1>6. QED BY <1>1, <1>2, <1>5, KeptCuts DEF r

(* No local is between two levels.                                          *)
LEMMA KeptSame ==
    ASSUME NEW ls \in Seq(Locals), Sorted(ls), NEW high \in Nat, NEW level \in Nat, level <= high,
           \A i \in 1..Len(ls) : ls[i].level <= high => ls[i].level <= level
    PROVE  Kept(ls, high) = Kept(ls, level)
<1>1. PICK k : Cuts(ls, level, k)
  BY CutExists
<1>2. \A i \in 1..Len(ls) : ls[i].level \in Nat
  BY LevelIs
<1>3. Cuts(ls, high, k)
  BY <1>1, <1>2 DEF Cuts
<1>4. QED BY <1>1, <1>3, KeptCuts

(* All of them, when none is of a higher level.                             *)
LEMMA KeptAll ==
    ASSUME NEW ls \in Seq(Locals), NEW level \in Nat, \A i \in 1..Len(ls) : ls[i].level <= level
    PROVE  Kept(ls, level) = ls
<1>1. Cuts(ls, level, Len(ls))
  BY DEF Cuts
<1>2. Kept(ls, level) = SubSeq(ls, 1, Len(ls))
  BY <1>1, KeptCuts
<1>3. QED BY <1>2, SubSeqFull

(* The code that discards the locals above a level.                         *)
LEMMA ExitIs ==
    ASSUME NEW ls \in Seq(Locals), Sorted(ls), NEW level \in Nat
    PROVE  LET e == scope_exit(ls, level)
               k == Len(Kept(ls, level))
           IN  /\ e \in Codes /\ Len(e) = Len(ls) - k /\ k \in 0..Len(ls)
               /\ \A n \in 1..Len(e) :
                     /\ e[n].op \in {"POP", "CLOSE_UPVALUE"} /\ e[n].loop = 0
                     /\ e[n].slot = Len(ls) + 1 - n
                     /\ ls[Len(ls) + 1 - n].captured = FALSE => e[n].op = "POP"
<1> DEFINE k == Len(Kept(ls, level))
           e == scope_exit(ls, level)
           cell(n) == Cell(IF ls[Len(ls) + 1 - n].captured THEN "CLOSE_UPVALUE" ELSE "POP",
                           0, Len(ls) + 1 - n, 0, 0)
           m == Len(ls) - k
<1>1. k \in 0..Len(ls) /\ Len(ls) \in Nat
  BY KeptIs
<1>2. e = [n \in 1..m |-> cell(n)]
  BY DEF scope_exit
<1>3. m \in Nat /\ m <= Len(ls)
  BY <1>1
<1>4. ASSUME NEW n \in 1..m
      PROVE  /\ cell(n) \in Cells /\ cell(n).op \in {"POP", "CLOSE_UPVALUE"} /\ cell(n).loop = 0
             /\ cell(n).slot = Len(ls) + 1 - n
             /\ ls[Len(ls) + 1 - n].captured = FALSE => cell(n).op = "POP"
  <2> DEFINE op == IF ls[Len(ls) + 1 - n].captured THEN "CLOSE_UPVALUE" ELSE "POP"
  <2>1. op \in {"POP", "CLOSE_UPVALUE"} /\ (ls[Len(ls) + 1 - n].captured = FALSE => op = "POP")
    BY Zenon
  <2>2. Len(ls) + 1 - n \in Nat
    BY <1>1, <1>3
  <2>3. cell(n) = Cell(op, 0, Len(ls) + 1 - n, 0, 0)
    OBVIOUS
  <2> HIDE DEF op, cell
  <2>4. op \in Ops
    BY <2>1 DEF Ops
  <2> DEFINE r == Cell(op, 0, Len(ls) + 1 - n, 0, 0)
  <2>5. r \in Cells /\ r.op = op /\ r.slot = Len(ls) + 1 - n /\ r.loop = 0
    <3> DEFINE slot == Len(ls) + 1 - n
    <3>1. slot \in Nat
      BY <2>2
    <3>2. r = Cell(op, 0, slot, 0, 0) /\ 0 \in Int /\ 0 \in Nat
      OBVIOUS
    <3> HIDE DEF slot, r
    <3>3. r \in Cells /\ r.op = op /\ r.slot = slot /\ r.loop = 0
      BY <2>4, <3>1, <3>2 DEF Cell, Cells
    <3>4. QED BY <3>3 DEF slot
  <2> HIDE DEF r
  <2>6. cell(n) = r
    BY <2>3 DEF r
  <2>7. QED BY <2>1, <2>5, <2>6
<1> HIDE DEF cell, m, k, e
<1>5. e \in Seq(Cells) /\ Len(e) = m /\ \A n \in 1..m : e[n] = cell(n)
  <2>1. \A n \in 1..m : cell(n) \in Cells
    BY <1>4
  <2>2. QED BY <1>2, <1>3, <2>1
<1>6. QED BY <1>1, <1>4, <1>5 DEF Codes, m, k, e

-----------------------------------------------------------------------------
(* The code of statements that are not finished.                            *)
Kinds   == {"block", "then", "else", "while", "for"}
Items   == [kind : Kinds, level : Nat, at : Nat, loop : Nat]
Ranges  == [top : Nat, bottom : Nat, after : Nat]

(* The locals that stay where a statement began, a for's own included.       *)
Depth(ls, it) == Len(Kept(ls, LoopScopeLevel(it)))

Awaits(c, p, op) == p \in 0..Len(c) - 1 /\ c[p + 1].op = op /\ c[p + 1].arg = DUMMY_JUMP_TARGET

ItemFits(c, ls, lps, shape, it) ==
    /\ it.kind = "then" => /\ Awaits(c, it.at, "JUMP_IF_FALSE")
                           /\ shape[it.at] = Append(Ident(Depth(ls, it)), 0)
    /\ it.kind = "else" => /\ Awaits(c, it.at, "JUMP") /\ c[it.at + 1].loop = 0
                           /\ shape[it.at] = Ident(Depth(ls, it))
    /\ it.kind \in LoopKinds => /\ Leads(c, shape, it.at, Ident(Depth(ls, it)))
                                /\ it.loop \in DOMAIN lps /\ lps[it.loop].after = 0
                                /\ lps[it.loop].top <= it.at

(* Whose is a jump without a target.                                        *)
ThenOf(its, p) == \E it \in its : it.kind = "then" /\ it.at = p
ElseOf(its, p) == \E it \in its : it.kind = "else" /\ it.at = p
TestOf(its, ls, shape, p) ==
    \E it \in its : it.kind \in LoopKinds /\ shape[p] = Append(Ident(Depth(ls, it)), 0)
BreakOf(its, ls, shape, loop, p) ==
    \E it \in its : it.kind = "while" /\ it.loop = loop /\ shape[p] = Ident(Depth(ls, it))

(* The jumps of a loop: while it is compiled, and once it is.                *)
LoopCell(c, lps, o) ==
    LET cell == c[o]
        l    == lps[cell.loop]
        at   == o - 1 + Size(cell.op)
    IN  cell.loop # 0 =>
          /\ cell.op \in {"LOOP", "JUMP"} /\ cell.loop \in DOMAIN lps
          /\ l.after = 0 => IF cell.op = "LOOP" THEN at - cell.arg \in l.top..o - 1
                            ELSE cell.arg = DUMMY_JUMP_TARGET
          /\ l.after # 0 => IF cell.op = "LOOP" THEN at - cell.arg \in l.top..l.bottom - 1
                            ELSE at + cell.arg \in l.bottom..l.after
LoopCells(c, lps) == \A o \in 1..Len(c) : LoopCell(c, lps, o)

Comp(c, its, ls, lps, shape) ==
    /\ Coherent(c, shape)
    /\ \A it \in its : ItemFits(c, ls, lps, shape, it)
    /\ \A it, jt \in its : it.kind \in {"then", "else"} /\ jt.kind = it.kind /\ jt.at = it.at => jt = it
    /\ \A p \in Nat : Awaits(c, p, "JUMP_IF_FALSE") => ThenOf(its, p) \/ TestOf(its, ls, shape, p)
    /\ \A p, q \in Nat : /\ Awaits(c, p, "JUMP_IF_FALSE") /\ Awaits(c, q, "JUMP_IF_FALSE")
                         /\ ~ThenOf(its, p) /\ ~ThenOf(its, q)
                         => p = q
    /\ \A p \in Nat : Awaits(c, p, "JUMP") => ElseOf(its, p) \/ BreakOf(its, ls, shape, c[p + 1].loop, p)
    /\ \A o, q \in 1..Len(c) : /\ c[o].op = "JUMP" /\ c[q].op = "JUMP"
                               /\ c[o].loop = c[q].loop /\ c[o].loop # 0
                               => o = q
    /\ LoopCells(c, lps)

LEMMA GrownAwaits ==
    ASSUME NEW c \in Codes, NEW shape, NEW d, NEW into, Grows(c, shape, d, into)
    PROVE  /\ \A p, op : Awaits(c, p, op) => /\ Awaits(d, p, op) /\ into[p] = shape[p]
                                             /\ d[p + 1] = c[p + 1]
           /\ \A op : \A p \in Nat : Awaits(d, p, op) /\ p < Len(c) => Awaits(c, p, op)
<1>1. Len(c) \in Nat /\ Len(d) \in Nat /\ Len(d) >= Len(c)
  BY DEF Grows, Codes
<1>2. ASSUME NEW p \in 0..Len(c) - 1 PROVE d[p + 1] = c[p + 1] /\ into[p] = shape[p] /\ p \in 0..Len(d) - 1
  <2>1. p + 1 \in 1..Len(c) /\ p \in 0..Len(c)
    BY <1>1
  <2>2. QED BY <1>1, <2>1 DEF Grows
<1>3. ASSUME NEW p \in Nat, NEW op, Awaits(d, p, op), p < Len(c) PROVE Awaits(c, p, op)
  <2>1. p \in 0..Len(c) - 1
    BY <1>1, <1>3
  <2>2. QED BY <1>2, <1>3, <2>1 DEF Awaits
<1>4. QED BY <1>2, <1>3 DEF Awaits

LEMMA GrownFits ==
    ASSUME NEW c \in Codes, NEW shape, NEW d, NEW into, Grows(c, shape, d, into),
           NEW ls, NEW lps, NEW it, ItemFits(c, ls, lps, shape, it)
    PROVE  ItemFits(d, ls, lps, into, it)
<1>1. /\ \A p, op : Awaits(c, p, op) => /\ Awaits(d, p, op) /\ into[p] = shape[p]
                                        /\ d[p + 1] = c[p + 1]
  BY GrownAwaits
<1>2. ASSUME it.kind = "then" PROVE Awaits(d, it.at, "JUMP_IF_FALSE") /\ into[it.at] = Append(Ident(Depth(ls, it)), 0)
  <2>1. Awaits(c, it.at, "JUMP_IF_FALSE") /\ shape[it.at] = Append(Ident(Depth(ls, it)), 0)
    BY <1>2, Zenon DEF ItemFits
  <2>2. QED BY <1>1, <2>1, Zenon
<1>3. ASSUME it.kind = "else"
      PROVE  Awaits(d, it.at, "JUMP") /\ d[it.at + 1].loop = 0 /\ into[it.at] = Ident(Depth(ls, it))
  <2>1. Awaits(c, it.at, "JUMP") /\ c[it.at + 1].loop = 0 /\ shape[it.at] = Ident(Depth(ls, it))
    BY <1>3, Zenon DEF ItemFits
  <2>2. QED BY <1>1, <2>1, Zenon
<1>4. \A s : Leads(c, shape, it.at, s) => Leads(d, into, it.at, s)
  BY LeadsOn
<1>5. QED BY <1>2, <1>3, <1>4, Zenon DEF ItemFits

(* A cell that is not new has the loop it had.                              *)
LEMMA GrownCells ==
    ASSUME NEW c \in Codes, NEW shape, NEW d, NEW into, Grows(c, shape, d, into),
           NEW lps, LoopCells(c, lps)
    PROVE  \A o \in 1..Len(c) : LoopCell(d, lps, o)
<1>1. \A o \in 1..Len(c) : d[o] = c[o]
  BY DEF Grows
<1>2. \A o \in 1..Len(c) : LoopCell(c, lps, o)
  BY DEF LoopCells
<1>3. QED BY <1>1, <1>2, Zenon DEF LoopCell

(* What code that is added must keep to.                                    *)
NewCells(c, d, its, ls, lps, into) ==
    \A p \in Len(c)..Len(d) - 1 :
       /\ Awaits(d, p, "JUMP_IF_FALSE") =>
             \/ ThenOf(its, p)
             \/ /\ TestOf(its, ls, into, p)
                /\ \A q \in Nat : Awaits(d, q, "JUMP_IF_FALSE") /\ ~ThenOf(its, q) => q = p
       /\ Awaits(d, p, "JUMP") => ElseOf(its, p) \/ BreakOf(its, ls, into, d[p + 1].loop, p)
       /\ d[p + 1].op = "JUMP" /\ d[p + 1].loop # 0 =>
             \A o \in 1..Len(d) : d[o].op = "JUMP" /\ d[o].loop = d[p + 1].loop => o = p + 1
       /\ LoopCell(d, lps, p + 1)

NewItems(c, d, its, more, ls, lps, into) ==
    /\ its \subseteq more
    /\ \A it \in more : it \in its \/ (ItemFits(d, ls, lps, into, it)
                                       /\ (it.kind \in {"then", "else"} => it.at >= Len(c)))
    /\ \A it, jt \in more : /\ it \notin its /\ jt \notin its
                            /\ it.kind \in {"then", "else"} /\ jt.kind = it.kind /\ jt.at = it.at
                            => jt = it

LEMMA Growth ==
    ASSUME NEW c \in Codes, NEW its, NEW ls, NEW lps, NEW shape, Comp(c, its, ls, lps, shape),
           NEW d, NEW into, Grows(c, shape, d, into),
           NEW more, NewItems(c, d, its, more, ls, lps, into), NewCells(c, d, more, ls, lps, into)
    PROVE  Comp(d, more, ls, lps, into)
<1>1. Len(c) \in Nat /\ Len(d) \in Nat /\ Len(d) >= Len(c)
  BY DEF Grows, Codes
<1>2. Coherent(d, into)
  BY DEF Grows
<1>3. /\ \A p, op : Awaits(c, p, op) => /\ Awaits(d, p, op) /\ into[p] = shape[p]
                                        /\ d[p + 1] = c[p + 1]
      /\ \A op : \A p \in Nat : Awaits(d, p, op) /\ p < Len(c) => Awaits(c, p, op)
  BY GrownAwaits
<1>4. \A p, op : Awaits(d, p, op) => p \in 0..Len(d) - 1
  BY DEF Awaits
<1>5. \A op : \A p \in Nat : Awaits(d, p, op) => p < Len(c) \/ p \in Len(c)..Len(d) - 1
  BY <1>1, <1>4
<1>6. ASSUME NEW it \in more PROVE ItemFits(d, ls, lps, into, it)
  <2>1. CASE it \in its
    <3>1. ItemFits(c, ls, lps, shape, it)
      BY <2>1, Zenon DEF Comp
    <3>2. QED BY <3>1, GrownFits
  <2>2. CASE it \notin its
    BY <2>2, Zenon DEF NewItems
  <2>3. QED BY <2>1, <2>2
<1>7. \A it \in its : it \in more
  BY DEF NewItems
<1>8. \A it \in its : it.kind \in {"then", "else"} => it.at < Len(c)
  <2>1. \A it \in its : it.kind \in {"then", "else"} => it.at \in 0..Len(c) - 1
    <3>1. \A it \in its : ItemFits(c, ls, lps, shape, it)
      BY Zenon DEF Comp
    <3>2. QED BY <3>1 DEF ItemFits, Awaits
  <2>2. QED BY <1>1, <2>1
<1>9. ASSUME NEW it \in more, NEW jt \in more,
             it.kind \in {"then", "else"}, jt.kind = it.kind, jt.at = it.at
      PROVE  jt = it
  <2>1. CASE it \in its /\ jt \in its
    BY <1>9, <2>1, Zenon DEF Comp
  <2>2. CASE it \notin its /\ jt \notin its
    BY <1>9, <2>2, Zenon DEF NewItems
  <2>3. \A ot \in more : ot \notin its /\ ot.kind \in {"then", "else"} => ot.at >= Len(c)
    BY Zenon DEF NewItems
  <2>4. ~(it \in its /\ jt \notin its)
    <3>1. SUFFICES ASSUME it \in its, jt \notin its PROVE FALSE
      OBVIOUS
    <3>2. it.at \in 0..Len(c) - 1
      <4>1. ItemFits(c, ls, lps, shape, it)
        BY <3>1, Zenon DEF Comp
      <4>2. QED BY <1>9, <4>1 DEF ItemFits, Awaits
    <3>3. QED BY <1>1, <1>9, <2>3, <3>1, <3>2
  <2>5. ~(it \notin its /\ jt \in its)
    <3>1. SUFFICES ASSUME it \notin its, jt \in its PROVE FALSE
      OBVIOUS
    <3>2. jt.at \in 0..Len(c) - 1
      <4>1. ItemFits(c, ls, lps, shape, jt)
        BY <3>1, Zenon DEF Comp
      <4>2. QED BY <1>9, <4>1 DEF ItemFits, Awaits
    <3>3. QED BY <1>1, <1>9, <2>3, <3>1, <3>2
  <2>6. QED BY <2>1, <2>2, <2>4, <2>5
<1>10. ASSUME NEW p \in Nat, Awaits(d, p, "JUMP_IF_FALSE")
       PROVE  ThenOf(more, p) \/ TestOf(more, ls, into, p)
  <2>1. CASE p < Len(c)
    <3>1. Awaits(c, p, "JUMP_IF_FALSE") /\ into[p] = shape[p]
      BY <1>3, <1>10, <2>1
    <3>2. ThenOf(its, p) \/ TestOf(its, ls, shape, p)
      BY <3>1, Zenon DEF Comp
    <3>3. QED BY <1>7, <3>1, <3>2, Zenon DEF ThenOf, TestOf
  <2>2. CASE p \in Len(c)..Len(d) - 1
    BY <1>10, <2>2, Zenon DEF NewCells
  <2>3. QED BY <1>5, <1>10, <2>1, <2>2
<1>11. ASSUME NEW p \in Nat, NEW q \in Nat,
              Awaits(d, p, "JUMP_IF_FALSE"), Awaits(d, q, "JUMP_IF_FALSE"),
              ~ThenOf(more, p), ~ThenOf(more, q)
       PROVE  p = q
  <2>1. CASE p < Len(c) /\ q < Len(c)
    <3>1. Awaits(c, p, "JUMP_IF_FALSE") /\ Awaits(c, q, "JUMP_IF_FALSE")
      BY <1>3, <1>11, <2>1
    <3>2. ~ThenOf(its, p) /\ ~ThenOf(its, q)
      BY <1>7, <1>11, Zenon DEF ThenOf
    <3>3. QED BY <3>1, <3>2, Zenon DEF Comp
  <2>2. CASE p \in Len(c)..Len(d) - 1
    BY <1>11, <2>2, Zenon DEF NewCells
  <2>3. CASE q \in Len(c)..Len(d) - 1
    BY <1>11, <2>3, Zenon DEF NewCells
  <2>4. QED BY <1>5, <1>11, <2>1, <2>2, <2>3
<1>12. ASSUME NEW p \in Nat, Awaits(d, p, "JUMP")
       PROVE  ElseOf(more, p) \/ BreakOf(more, ls, into, d[p + 1].loop, p)
  <2>1. CASE p < Len(c)
    <3>1. Awaits(c, p, "JUMP") /\ into[p] = shape[p] /\ d[p + 1] = c[p + 1]
      BY <1>3, <1>12, <2>1
    <3>2. ElseOf(its, p) \/ BreakOf(its, ls, shape, c[p + 1].loop, p)
      BY <3>1, Zenon DEF Comp
    <3>3. QED BY <1>7, <3>1, <3>2, Zenon DEF ElseOf, BreakOf
  <2>2. CASE p \in Len(c)..Len(d) - 1
    BY <1>12, <2>2, Zenon DEF NewCells
  <2>3. QED BY <1>5, <1>12, <2>1, <2>2
<1>13. \A o \in 1..Len(c) : d[o] = c[o]
  BY DEF Grows
<1>14. \A o \in 1..Len(d) : o \in 1..Len(c) \/ \E p \in Len(c)..Len(d) - 1 : o = p + 1
  <2>1. ASSUME NEW o \in 1..Len(d), o \notin 1..Len(c) PROVE \E p \in Len(c)..Len(d) - 1 : o = p + 1
    <3>1. o - 1 \in Len(c)..Len(d) - 1 /\ o = o - 1 + 1
      BY <1>1, <2>1
    <3>2. QED BY <3>1
  <2>2. QED BY <2>1
<1>15. ASSUME NEW o \in 1..Len(d), NEW q \in 1..Len(d), d[o].op = "JUMP", d[q].op = "JUMP",
              d[o].loop = d[q].loop, d[o].loop # 0
       PROVE  o = q
  <2>1. CASE o \in 1..Len(c) /\ q \in 1..Len(c)
    BY <1>13, <1>15, <2>1, Zenon DEF Comp
  <2>2. CASE \E p \in Len(c)..Len(d) - 1 : o = p + 1
    BY <1>15, <2>2, Zenon DEF NewCells
  <2>3. CASE \E p \in Len(c)..Len(d) - 1 : q = p + 1
    BY <1>15, <2>3, Zenon DEF NewCells
  <2>4. QED BY <1>14, <2>1, <2>2, <2>3
<1>16. LoopCells(d, lps)
  <2>1. LoopCells(c, lps)
    BY Zenon DEF Comp
  <2>2. \A o \in 1..Len(c) : LoopCell(d, lps, o)
    BY <2>1, GrownCells
  <2>3. \A p \in Len(c)..Len(d) - 1 : LoopCell(d, lps, p + 1)
    BY Zenon DEF NewCells
  <2>4. QED BY <1>14, <2>2, <2>3, Zenon DEF LoopCells
<1>17. QED BY <1>2, <1>6, <1>9, <1>10, <1>11, <1>12, <1>15, <1>16, Zenon DEF Comp

(* Code without jumps.                                                      *)
Quiet(c, d) == \A i \in Len(c) + 1..Len(d) :
                  d[i].loop = 0 /\ d[i].op # "JUMP" /\ d[i].op # "JUMP_IF_FALSE"

LEMMA QuietGrowth ==
    ASSUME NEW c \in Codes, NEW its, NEW ls, NEW lps, NEW shape, Comp(c, its, ls, lps, shape),
           NEW d, NEW into, Grows(c, shape, d, into), Quiet(c, d)
    PROVE  Comp(d, its, ls, lps, into)
<1>1. Len(c) \in Nat /\ Len(d) \in Nat
  BY DEF Grows, Codes
<1>2. NewItems(c, d, its, its, ls, lps, into)
  BY DEF NewItems
<1>3. ASSUME NEW p \in Len(c)..Len(d) - 1
      PROVE  d[p + 1].loop = 0 /\ d[p + 1].op # "JUMP" /\ d[p + 1].op # "JUMP_IF_FALSE"
  <2>1. p + 1 \in Len(c) + 1..Len(d)
    BY <1>1
  <2>2. QED BY <2>1 DEF Quiet
<1>4. NewCells(c, d, its, ls, lps, into)
  BY <1>3, Zenon DEF NewCells, Awaits, LoopCell
<1>5. QED BY <1>2, <1>4, Growth

(* The code is one of the statements its, and goes on with s.                *)
Writes(c, s, its, ls, lps) ==
    /\ c \in Codes /\ s \in Seq(Nat)
    /\ \E shape : Comp(c, its, ls, lps, shape) /\ shape[Len(c)] = s

LEMMA QuietEmitted ==
    ASSUME NEW c, NEW cell, cell.loop = 0, cell.op # "JUMP", cell.op # "JUMP_IF_FALSE",
           Len(c) \in Nat, NEW d, Emitted(c, cell, d)
    PROVE  Quiet(c, d)
<1>1. d \in Codes /\ Len(d) \in Nat
  BY DEF Emitted, Codes
<1>2. ASSUME NEW i \in Len(c) + 1..Len(d)
      PROVE  d[i].loop = 0 /\ d[i].op # "JUMP" /\ d[i].op # "JUMP_IF_FALSE"
  <2>1. CASE i = Len(c) + 1
    BY <2>1 DEF Emitted
  <2>2. CASE i # Len(c) + 1
    <3>1. i \in Len(c) + 2..Len(d)
      BY <1>1, <2>2
    <3>2. d[i] = Operand
      BY <3>1 DEF Emitted
    <3>3. QED BY <3>2, OperandIs
  <2>3. QED BY <2>1, <2>2
<1>3. QED BY <1>2 DEF Quiet

LEMMA CompCoheres ==
    ASSUME NEW c, NEW its, NEW ls, NEW lps, NEW shape, Comp(c, its, ls, lps, shape)
    PROVE  Coherent(c, shape) /\ shape \in Shapes
BY Zenon DEF Comp, Coherent

LEMMA ValueWrites ==
    ASSUME NEW c, NEW its, NEW ls, NEW lps, NEW n \in Nat, Writes(c, Ident(n), its, ls, lps),
           NEW slot \in Nat
    PROVE  Writes(c \o Value(slot, n), Append(Ident(n), slot), its, ls, lps)
<1> DEFINE d == c \o Value(slot, n)
           s == Append(Ident(n), slot)
           cell == Cell("VALUE", 0, slot, 0, n)
<1>1. c \in Codes /\ Len(c) \in Nat
  BY DEF Writes, Codes
<1>2. PICK shape : Comp(c, its, ls, lps, shape) /\ shape[Len(c)] = Ident(n)
  BY DEF Writes
<1>3. Coherent(c, shape)
  BY <1>2, CompCoheres
<1>4. /\ Emitted(c, cell, d)
      /\ \E into : Grows(c, shape, d, into) /\ into[Len(d)] = s
  BY <1>1, <1>2, <1>3, EmitValue
<1>5. cell.loop = 0 /\ cell.op = "VALUE"
  BY DEF Cell
<1>6. s \in Seq(Nat)
  BY IdentIs, AppendFront
<1> HIDE DEF d, s, cell
<1>7. PICK into : Grows(c, shape, d, into) /\ into[Len(d)] = s
  BY <1>4
<1>8. Quiet(c, d)
  <2>1. cell.op # "JUMP" /\ cell.op # "JUMP_IF_FALSE"
    BY <1>5
  <2>2. QED BY <1>1, <1>4, <1>5, <2>1, QuietEmitted
<1>9. Comp(d, its, ls, lps, into)
  BY <1>1, <1>2, <1>7, <1>8, QuietGrowth
<1>10. d \in Codes
  BY <1>7 DEF Grows
<1>11. Writes(d, s, its, ls, lps)
  BY <1>6, <1>7, <1>9, <1>10 DEF Writes
<1>12. QED BY <1>11 DEF d, s

LEMMA DiscardWrites ==
    ASSUME NEW c, NEW its, NEW ls, NEW lps, NEW s, Writes(c, s, its, ls, lps), s # <<>>,
           NEW op \in {"POP", "DEFINE_GLOBAL"}
    PROVE  Writes(c \o Instruction(Cell(op, 0, 0, 0, 0)), SubSeq(s, 1, Len(s) - 1), its, ls, lps)
<1> DEFINE d == c \o Instruction(Cell(op, 0, 0, 0, 0))
           r == SubSeq(s, 1, Len(s) - 1)
           cell == Cell(op, 0, 0, 0, 0)
<1>1. c \in Codes /\ Len(c) \in Nat /\ s \in Seq(Nat)
  BY DEF Writes, Codes
<1>2. PICK shape : Comp(c, its, ls, lps, shape) /\ shape[Len(c)] = s
  BY DEF Writes
<1>3. Coherent(c, shape)
  BY <1>2, CompCoheres
<1>4. cell.loop = 0 /\ cell.op = op /\ cell \in Cells /\ d = c \o Instruction(cell)
  BY DEF Cell, Cells, Ops
<1>5. r \in Seq(Nat) /\ r = SubSeq(s, 1, Len(s) - 1)
  BY <1>1
<1> HIDE DEF d, r, cell
<1>6. Emitted(c, cell, d)
  BY <1>1, <1>4, EmittedIs
<1>7. Fits(c, shape, cell, r)
  BY <1>2, <1>4, <1>5 DEF Fits, Discards
<1>8. PICK into : Grows(c, shape, d, into) /\ into[Len(d)] = r
  BY <1>1, <1>3, <1>6, <1>7, FittingGrows
<1>9. Quiet(c, d)
  <2>1. cell.op # "JUMP" /\ cell.op # "JUMP_IF_FALSE"
    BY <1>4
  <2>2. QED BY <1>1, <1>4, <1>6, <2>1, QuietEmitted
<1>10. Comp(d, its, ls, lps, into) /\ d \in Codes
  <2>1. Comp(d, its, ls, lps, into)
    BY <1>1, <1>2, <1>8, <1>9, QuietGrowth
  <2>2. QED BY <1>8, <2>1 DEF Grows
<1>11. Writes(d, r, its, ls, lps)
  BY <1>5, <1>8, <1>10 DEF Writes
<1>12. QED BY <1>11 DEF d, r

(* A Pop takes what is above a stack.                                        *)
LEMMA PopWrites ==
    ASSUME NEW c, NEW its, NEW ls, NEW lps, NEW s \in Seq(Nat), NEW x \in Nat,
           Writes(c, Append(s, x), its, ls, lps)
    PROVE  Writes(c \o Pop, s, its, ls, lps)
<1> DEFINE t == Append(s, x)
<1>1. t # <<>> /\ SubSeq(t, 1, Len(t) - 1) = s
  BY AppendFront
<1> HIDE DEF t
<1>2. Writes(c, t, its, ls, lps)
  BY DEF t
<1>3. Writes(c \o Instruction(Cell("POP", 0, 0, 0, 0)), SubSeq(t, 1, Len(t) - 1), its, ls, lps)
  BY <1>1, <1>2, DiscardWrites
<1>4. QED BY <1>1, <1>3 DEF Pop

LEMMA ConcatIs ==
    ASSUME NEW c \in Codes, NEW e \in Codes
    PROVE  /\ c \o e \in Codes /\ Len(c \o e) = Len(c) + Len(e)
           /\ \A i \in 1..Len(c) : (c \o e)[i] = c[i]
           /\ \A i \in Len(c) + 1..Len(c \o e) : \E n \in 1..Len(e) : (c \o e)[i] = e[n]
<1>1. Len(c) \in Nat /\ Len(e) \in Nat
  BY DEF Codes
<1> DEFINE d == c \o e
<1>2. /\ d \in Codes /\ Len(d) = Len(c) + Len(e)
      /\ \A i \in 1..Len(c) + Len(e) : d[i] = IF i <= Len(c) THEN c[i] ELSE e[i - Len(c)]
  BY <1>1, ConcatProperties DEF Codes
<1> HIDE DEF d
<1>3. \A i \in 1..Len(c) : d[i] = c[i]
  BY <1>1, <1>2
<1>4. ASSUME NEW i \in Len(c) + 1..Len(d) PROVE \E n \in 1..Len(e) : d[i] = e[n]
  <2>1. i - Len(c) \in 1..Len(e) /\ d[i] = e[i - Len(c)]
    BY <1>1, <1>2
  <2>2. QED BY <2>1
<1>5. QED BY <1>2, <1>3, <1>4 DEF d

(* Several values are discarded.                                            *)
LEMMA DiscardsWrite ==
    ASSUME NEW c, NEW its, NEW ls, NEW lps, NEW s, Writes(c, s, its, ls, lps),
           NEW e \in Codes, Len(e) <= Len(s),
           \A n \in 1..Len(e) :
              /\ e[n].op \in {"POP", "CLOSE_UPVALUE"} /\ e[n].loop = 0
              /\ e[n].op = "CLOSE_UPVALUE" => s[Len(s) + 1 - n] = e[n].slot
    PROVE  Writes(c \o e, SubSeq(s, 1, Len(s) - Len(e)), its, ls, lps)
<1> DEFINE d == c \o e
           r == SubSeq(s, 1, Len(s) - Len(e))
<1>1. c \in Codes /\ Len(c) \in Nat /\ s \in Seq(Nat) /\ Len(e) \in Nat /\ Len(s) \in Nat
  BY DEF Writes, Codes
<1>2. PICK shape : Comp(c, its, ls, lps, shape) /\ shape[Len(c)] = s
  BY DEF Writes
<1>3. Coherent(c, shape)
  BY <1>2, CompCoheres
<1>4. \E into : Grows(c, shape, d, into) /\ into[Len(c) + Len(e)] = r
  <2>1. \A n \in 1..Len(e) : /\ e[n].op \in {"POP", "CLOSE_UPVALUE"}
                            /\ e[n].op = "CLOSE_UPVALUE" => s[Len(s) + 1 - n] = e[n].slot
    OBVIOUS
  <2>2. c \in Codes /\ s \in Seq(Nat) /\ shape[Len(c)] = s
    BY <1>1, <1>2
  <2>3. \E into : /\ Grows(c, shape, c \o e, into)
                  /\ into[Len(c) + Len(e)] = SubSeq(s, 1, Len(s) - Len(e))
    BY <1>3, <2>1, <2>2, EmitDiscards, ZenonT(60)
  <2>4. QED BY <2>3
<1>5. /\ d \in Codes /\ Len(d) = Len(c) + Len(e)
      /\ \A i \in Len(c) + 1..Len(d) : \E n \in 1..Len(e) : d[i] = e[n]
  BY <1>1, ConcatIs
<1>6. r \in Seq(Nat)
  BY <1>1
<1> HIDE DEF d, r
<1>7. PICK into : Grows(c, shape, d, into) /\ into[Len(d)] = r
  BY <1>4, <1>5
<1>8. Quiet(c, d)
  BY <1>5 DEF Quiet
<1>9. Comp(d, its, ls, lps, into)
  BY <1>1, <1>2, <1>7, <1>8, QuietGrowth
<1>11. Writes(d, r, its, ls, lps)
  BY <1>5, <1>6, <1>7, <1>9 DEF Writes
<1>12. QED BY <1>11 DEF d, r

(* A scope ends.                                                            *)
LEMMA ExitWrites ==
    ASSUME NEW c, NEW its, NEW ls \in Seq(Locals), Sorted(ls), NEW lps, NEW level \in Nat,
           NEW scoped, Writes(c, Ident(Len(ls)), its, scoped, lps)
    PROVE  Writes(c \o scope_exit(ls, level), Ident(Len(Kept(ls, level))), its, scoped, lps)
<1> DEFINE e == scope_exit(ls, level)
           k == Len(Kept(ls, level))
           s == Ident(Len(ls))
<1>1. /\ e \in Codes /\ Len(e) = Len(ls) - k /\ k \in 0..Len(ls)
      /\ \A n \in 1..Len(e) :
            /\ e[n].op \in {"POP", "CLOSE_UPVALUE"} /\ e[n].loop = 0
            /\ e[n].slot = Len(ls) + 1 - n
  BY ExitIs
<1>2. /\ Len(s) = Len(ls) /\ Len(ls) \in Nat
      /\ \A i \in 1..Len(ls) : s[i] = i
      /\ \A m \in 0..Len(ls) : SubSeq(s, 1, m) = Ident(m)
  <2> DEFINE n == Len(ls)
  <2>1. n \in Nat
    OBVIOUS
  <2> HIDE DEF n
  <2>2. Len(Ident(n)) = n /\ (\A i \in 1..n : Ident(n)[i] = i)
        /\ \A m \in 0..n : SubSeq(Ident(n), 1, m) = Ident(m)
    BY <2>1, IdentIs
  <2>3. QED BY <2>1, <2>2 DEF n
<1> HIDE DEF e, k, s
<1>3. ASSUME NEW n \in 1..Len(e) PROVE s[Len(s) + 1 - n] = e[n].slot
  <2>1. Len(s) + 1 - n \in 1..Len(ls)
    BY <1>1, <1>2
  <2>2. QED BY <1>1, <1>2, <2>1
<1>4. Writes(c, s, its, scoped, lps)
  BY DEF s
<1>5. Len(e) <= Len(s)
  BY <1>1, <1>2
<1>6. Writes(c \o e, SubSeq(s, 1, Len(s) - Len(e)), its, scoped, lps)
  BY <1>1, <1>3, <1>4, <1>5, DiscardsWrite
<1>7. SubSeq(s, 1, Len(s) - Len(e)) = Ident(k)
  <2>1. Len(s) - Len(e) = k
    BY <1>1, <1>2
  <2>2. QED BY <1>1, <1>2, <2>1
<1>8. QED BY <1>6, <1>7 DEF e, k

(* What one instruction that is added must keep to.                          *)
NewCell(c, cell, d, its, ls, lps, into) ==
    /\ cell.op = "JUMP_IF_FALSE" /\ cell.arg = DUMMY_JUMP_TARGET =>
          \/ ThenOf(its, Len(c))
          \/ /\ TestOf(its, ls, into, Len(c))
             /\ \A q \in Nat : ~Awaits(c, q, "JUMP_IF_FALSE")
    /\ cell.op = "JUMP" /\ cell.arg = DUMMY_JUMP_TARGET =>
          ElseOf(its, Len(c)) \/ BreakOf(its, ls, into, cell.loop, Len(c))
    /\ cell.op = "JUMP" /\ cell.loop # 0 =>
          \A o \in 1..Len(c) : ~(c[o].op = "JUMP" /\ c[o].loop = cell.loop)
    /\ LoopCell(d, lps, Len(c) + 1)

LEMMA NewCellAlone ==
    ASSUME NEW c \in Codes, NEW cell, NEW d, Emitted(c, cell, d),
           NEW its, NEW ls, NEW lps, NEW into, NewCell(c, cell, d, its, ls, lps, into)
    PROVE  NewCells(c, d, its, ls, lps, into)
<1>1. Len(c) \in Nat /\ Len(d) \in Nat /\ d \in Codes
  BY DEF Emitted, Codes
<1>2. d[Len(c) + 1] = cell /\ \A i \in 1..Len(c) : d[i] = c[i]
  BY DEF Emitted
<1>3. ASSUME NEW i \in 1..Len(d) PROVE i \in 1..Len(c) \/ i = Len(c) + 1 \/ (d[i].op = "operand" /\ d[i].loop = 0)
  <2>1. CASE i \in Len(c) + 2..Len(d)
    <3>1. d[i] = Operand
      BY <2>1 DEF Emitted
    <3>2. QED BY <3>1, OperandIs
  <2>2. CASE i \notin Len(c) + 2..Len(d)
    BY <1>1, <2>2
  <2>3. QED BY <2>1, <2>2
<1>4. ASSUME NEW p \in Len(c)..Len(d) - 1
      PROVE /\ Awaits(d, p, "JUMP_IF_FALSE") =>
                 \/ ThenOf(its, p)
                 \/ /\ TestOf(its, ls, into, p)
                    /\ \A q \in Nat : Awaits(d, q, "JUMP_IF_FALSE") /\ ~ThenOf(its, q) => q = p
            /\ Awaits(d, p, "JUMP") => ElseOf(its, p) \/ BreakOf(its, ls, into, d[p + 1].loop, p)
            /\ d[p + 1].op = "JUMP" /\ d[p + 1].loop # 0 =>
                 \A o \in 1..Len(d) : d[o].op = "JUMP" /\ d[o].loop = d[p + 1].loop => o = p + 1
            /\ LoopCell(d, lps, p + 1)
  <2>1. p + 1 \in 1..Len(d) /\ p + 1 \notin 1..Len(c)
    BY <1>1
  <2>2. CASE p + 1 # Len(c) + 1
    <3>1. d[p + 1].op = "operand" /\ d[p + 1].loop = 0
      BY <1>3, <2>1, <2>2
    <3>2. QED BY <3>1, Zenon DEF Awaits, LoopCell
  <2>3. CASE p + 1 = Len(c) + 1
    <3>1. p = Len(c) /\ d[p + 1] = cell
      BY <1>1, <1>2, <2>3
    <3>2. ASSUME Awaits(d, p, "JUMP_IF_FALSE"), ~ThenOf(its, p)
          PROVE  /\ TestOf(its, ls, into, p)
                 /\ \A q \in Nat : Awaits(d, q, "JUMP_IF_FALSE") /\ ~ThenOf(its, q) => q = p
      <4>1. cell.op = "JUMP_IF_FALSE" /\ cell.arg = DUMMY_JUMP_TARGET
        BY <3>1, <3>2 DEF Awaits
      <4>2. TestOf(its, ls, into, p) /\ \A q \in Nat : ~Awaits(c, q, "JUMP_IF_FALSE")
        BY <3>1, <3>2, <4>1, Zenon DEF NewCell
      <4>3. ASSUME NEW q \in Nat, Awaits(d, q, "JUMP_IF_FALSE") PROVE q = p
        <5>1. q + 1 \in 1..Len(d) /\ d[q + 1].op = "JUMP_IF_FALSE" /\ d[q + 1].arg = DUMMY_JUMP_TARGET
          BY <1>1, <4>3 DEF Awaits
        <5>2. CASE q + 1 \in 1..Len(c)
          <6>1. Awaits(c, q, "JUMP_IF_FALSE")
            BY <1>1, <1>2, <5>1, <5>2 DEF Awaits
          <6>2. QED BY <4>2, <6>1
        <5>3. CASE q + 1 = Len(c) + 1
          BY <1>1, <3>1, <5>3
        <5>4. QED BY <1>3, <5>1, <5>2, <5>3
      <4>4. QED BY <4>2, <4>3
    <3>3. ASSUME Awaits(d, p, "JUMP") PROVE ElseOf(its, p) \/ BreakOf(its, ls, into, d[p + 1].loop, p)
      <4>1. cell.op = "JUMP" /\ cell.arg = DUMMY_JUMP_TARGET
        BY <3>1, <3>3 DEF Awaits
      <4>2. QED BY <3>1, <4>1, Zenon DEF NewCell
    <3>4. ASSUME d[p + 1].op = "JUMP", d[p + 1].loop # 0, NEW o \in 1..Len(d),
                 d[o].op = "JUMP", d[o].loop = d[p + 1].loop
          PROVE  o = p + 1
      <4>1. \A q \in 1..Len(c) : ~(c[q].op = "JUMP" /\ c[q].loop = cell.loop)
        BY <3>1, <3>4, Zenon DEF NewCell
      <4>2. o \notin 1..Len(c)
        BY <1>2, <3>1, <3>4, <4>1
      <4>3. QED BY <1>3, <3>1, <3>4, <4>2
    <3>5. LoopCell(d, lps, p + 1)
      BY <3>1, Zenon DEF NewCell
    <3>6. QED BY <3>2, <3>3, <3>4, <3>5, Zenon
  <2>4. QED BY <2>2, <2>3
<1>5. QED BY <1>4, Zenon DEF NewCells

(* A jump is added that waits for its target, and the statement it is of.     *)
LEMMA JumpWrites ==
    ASSUME NEW c, NEW its, NEW ls, NEW lps, NEW shape, Comp(c, its, ls, lps, shape), c \in Codes,
           NEW op \in {"JUMP", "JUMP_IF_FALSE"}, NEW s \in Seq(Nat),
           op = "JUMP_IF_FALSE" => s = shape[Len(c)],
           NEW loop \in Nat, NEW more, its \subseteq more,
           \A d, into : /\ Emitted(c, Cell(op, DUMMY_JUMP_TARGET, 0, loop, 0), d)
                        /\ Grows(c, shape, d, into)
                        => /\ NewItems(c, d, its, more, ls, lps, into)
                           /\ NewCell(c, Cell(op, DUMMY_JUMP_TARGET, 0, loop, 0), d, more, ls, lps, into)
    PROVE  Writes(c \o emit_jump(op, loop), s, more, ls, lps)
<1> DEFINE d == c \o emit_jump(op, loop)
           cell == Cell(op, DUMMY_JUMP_TARGET, 0, loop, 0)
<1>1. Coherent(c, shape)
  BY CompCoheres
<1>2. cell \in Cells /\ cell.op = op /\ cell.arg = DUMMY_JUMP_TARGET /\ cell.loop = loop
  BY DEF Cell, Cells, Ops, DUMMY_JUMP_TARGET
<1>3. d = c \o Instruction(cell)
  BY DEF emit_jump
<1>4. \A e, into : Emitted(c, cell, e) /\ Grows(c, shape, e, into) =>
          NewItems(c, e, its, more, ls, lps, into) /\ NewCell(c, cell, e, more, ls, lps, into)
  BY Zenon
<1> HIDE DEF d, cell
<1>5. Emitted(c, cell, d)
  BY <1>2, <1>3, EmittedIs
<1>6. Fits(c, shape, cell, s)
  BY <1>2 DEF Fits, Discards
<1>7. PICK into : Grows(c, shape, d, into) /\ into[Len(d)] = s
  BY <1>1, <1>5, <1>6, FittingGrows
<1>8. NewItems(c, d, its, more, ls, lps, into) /\ NewCell(c, cell, d, more, ls, lps, into)
  BY <1>4, <1>5, <1>7, Zenon
<1>9. NewCells(c, d, more, ls, lps, into)
  BY <1>5, <1>8, NewCellAlone
<1>10. Comp(d, more, ls, lps, into)
  BY <1>7, <1>8, <1>9, Growth
<1>11. d \in Codes
  BY <1>7 DEF Grows
<1>12. Writes(d, s, more, ls, lps)
  BY <1>7, <1>10, <1>11 DEF Writes
<1>13. QED BY <1>12 DEF d

(* The jump over the first branch of an if.                                  *)
LEMMA ThenWrites ==
    ASSUME NEW c, NEW its, NEW ls, NEW lps, NEW it, it.kind = "then", it.at = Len(c),
           NEW s, s = Append(Ident(Depth(ls, it)), 0), Writes(c, s, its, ls, lps)
    PROVE  Writes(c \o emit_jump("JUMP_IF_FALSE", 0), s, its \cup {it}, ls, lps)
<1>1. c \in Codes /\ Len(c) \in Nat /\ s \in Seq(Nat)
  BY DEF Writes, Codes
<1>2. PICK shape : Comp(c, its, ls, lps, shape) /\ shape[Len(c)] = s
  BY DEF Writes
<1> DEFINE cell == Cell("JUMP_IF_FALSE", DUMMY_JUMP_TARGET, 0, 0, 0)
           more == its \cup {it}
<1>3. cell.op = "JUMP_IF_FALSE" /\ cell.arg = DUMMY_JUMP_TARGET /\ cell.loop = 0
  BY DEF Cell
<1>m. /\ its \subseteq more /\ it \in more
      /\ \A jt \in more : jt \in its \/ jt = it
  OBVIOUS
<1> HIDE DEF cell, more
<1>4. ASSUME NEW d, NEW into, Emitted(c, cell, d), Grows(c, shape, d, into)
      PROVE  NewItems(c, d, its, more, ls, lps, into) /\ NewCell(c, cell, d, more, ls, lps, into)
  <2>1. d[Len(c) + 1] = cell /\ into[Len(c)] = s /\ Len(d) = Len(c) + 3
    <3>1. d[Len(c) + 1] = cell /\ Len(d) = Len(c) + 3
      BY <1>3, <1>4, SizeIs DEF Emitted
    <3>2. into[Len(c)] = shape[Len(c)]
      BY <1>1, <1>4 DEF Grows
    <3>3. QED BY <1>2, <3>1, <3>2
  <2>2. Awaits(d, it.at, "JUMP_IF_FALSE")
    BY <1>1, <1>3, <2>1 DEF Awaits
  <2>3. ItemFits(d, ls, lps, into, it)
    BY <2>1, <2>2 DEF ItemFits, LoopKinds
  <2>4. NewItems(c, d, its, more, ls, lps, into)
    BY <1>1, <1>m, <2>3 DEF NewItems
  <2>5. ThenOf(more, Len(c))
    BY <1>m DEF ThenOf
  <2>6. LoopCell(d, lps, Len(c) + 1)
    BY <1>3, <2>1, Zenon DEF LoopCell
  <2>7. NewCell(c, cell, d, more, ls, lps, into)
    BY <1>3, <2>5, <2>6 DEF NewCell
  <2>8. QED BY <2>4, <2>7
<1>5. QED BY <1>1, <1>2, <1>4, <1>m, JumpWrites DEF cell, more

(* The jump over the second branch of an if, or from a for's condition to     *)
(* its body.                                                               *)
LEMMA ElseWrites ==
    ASSUME NEW c, NEW its, NEW ls, NEW lps, NEW it, it.kind = "else", it.at = Len(c),
           Writes(c, Ident(Depth(ls, it)), its, ls, lps), NEW s \in Seq(Nat)
    PROVE  Writes(c \o emit_jump("JUMP", 0), s, its \cup {it}, ls, lps)
<1>1. c \in Codes /\ Len(c) \in Nat
  BY DEF Writes, Codes
<1>2. PICK shape : Comp(c, its, ls, lps, shape) /\ shape[Len(c)] = Ident(Depth(ls, it))
  BY DEF Writes
<1> DEFINE cell == Cell("JUMP", DUMMY_JUMP_TARGET, 0, 0, 0)
           more == its \cup {it}
<1>3. cell.op = "JUMP" /\ cell.arg = DUMMY_JUMP_TARGET /\ cell.loop = 0
  BY DEF Cell
<1>m. /\ its \subseteq more /\ it \in more
      /\ \A jt \in more : jt \in its \/ jt = it
  OBVIOUS
<1> HIDE DEF cell, more
<1>4. ASSUME NEW d, NEW into, Emitted(c, cell, d), Grows(c, shape, d, into)
      PROVE  NewItems(c, d, its, more, ls, lps, into) /\ NewCell(c, cell, d, more, ls, lps, into)
  <2>1. d[Len(c) + 1] = cell /\ into[Len(c)] = Ident(Depth(ls, it)) /\ Len(d) = Len(c) + 3
    BY <1>1, <1>2, <1>3, <1>4, SizeIs DEF Emitted, Grows
  <2>2. Awaits(d, it.at, "JUMP") /\ d[it.at + 1].loop = 0
    BY <1>1, <1>3, <2>1 DEF Awaits
  <2>3. ItemFits(d, ls, lps, into, it)
    BY <2>1, <2>2 DEF ItemFits, LoopKinds
  <2>4. NewItems(c, d, its, more, ls, lps, into)
    BY <1>1, <1>m, <2>3 DEF NewItems
  <2>5. ElseOf(more, Len(c))
    BY <1>m DEF ElseOf
  <2>6. LoopCell(d, lps, Len(c) + 1)
    BY <1>3, <2>1, Zenon DEF LoopCell
  <2>7. NewCell(c, cell, d, more, ls, lps, into)
    BY <1>3, <2>5, <2>6 DEF NewCell
  <2>8. QED BY <2>4, <2>7
<1>5. QED BY <1>1, <1>2, <1>4, <1>m, JumpWrites DEF cell, more

(* The jump of a break.                                                     *)
LEMMA BreakWrites ==
    ASSUME NEW c, NEW its, NEW ls, NEW lps, NEW it \in its, it.kind = "while",
           it.loop \in Nat,
           Writes(c, Ident(Depth(ls, it)), its, ls, lps), NEW s \in Seq(Nat),
           \A o \in 1..Len(c) : ~(c[o].op = "JUMP" /\ c[o].loop = it.loop)
    PROVE  Writes(c \o emit_jump("JUMP", it.loop), s, its, ls, lps)
<1>1. c \in Codes /\ Len(c) \in Nat
  BY DEF Writes, Codes
<1>2. PICK shape : Comp(c, its, ls, lps, shape) /\ shape[Len(c)] = Ident(Depth(ls, it))
  BY DEF Writes
<1> DEFINE loop == it.loop
           cell == Cell("JUMP", DUMMY_JUMP_TARGET, 0, loop, 0)
<1>3. cell.op = "JUMP" /\ cell.arg = DUMMY_JUMP_TARGET /\ cell.loop = it.loop
  BY DEF Cell
<1>4. it.loop \in DOMAIN lps /\ lps[it.loop].after = 0
  <2>1. ItemFits(c, ls, lps, shape, it)
    BY <1>2, Zenon DEF Comp
  <2>2. QED BY <2>1 DEF ItemFits, LoopKinds
<1> HIDE DEF cell
<1>5. ASSUME NEW d, NEW into, Emitted(c, cell, d), Grows(c, shape, d, into)
      PROVE  NewItems(c, d, its, its, ls, lps, into) /\ NewCell(c, cell, d, its, ls, lps, into)
  <2>0. d[Len(c) + 1] = cell
    BY <1>5 DEF Emitted
  <2>1. into[Len(c)] = Ident(Depth(ls, it))
    <3>1. into[Len(c)] = shape[Len(c)]
      BY <1>1, <1>5 DEF Grows
    <3>2. QED BY <1>2, <3>1
  <2>2. NewItems(c, d, its, its, ls, lps, into)
    BY DEF NewItems
  <2>3. BreakOf(its, ls, into, cell.loop, Len(c))
    BY <1>3, <2>1 DEF BreakOf
  <2>4. LoopCell(d, lps, Len(c) + 1)
    BY <1>3, <1>4, <2>0 DEF LoopCell
  <2>5. NewCell(c, cell, d, its, ls, lps, into)
    <3>1. \A o \in 1..Len(c) : ~(c[o].op = "JUMP" /\ c[o].loop = cell.loop)
      BY <1>3
    <3>2. QED BY <1>3, <2>3, <2>4, <3>1 DEF NewCell
  <2>6. QED BY <2>2, <2>5
<1>6. its \subseteq its /\ loop \in Nat
  OBVIOUS
<1> HIDE DEF loop
<1>7. Writes(c \o emit_jump("JUMP", loop), s, its, ls, lps)
  BY <1>1, <1>2, <1>5, <1>6, JumpWrites DEF cell
<1>8. QED BY <1>7 DEF loop

(* Back to where a loop goes on.                                            *)
LEMMA LoopWrites ==
    ASSUME NEW c, NEW its, NEW ls, NEW lps, NEW it \in its, it.kind \in LoopKinds,
           it.loop \in Nat, it.at \in Nat,
           Writes(c, Ident(Depth(ls, it)), its, ls, lps), NEW s \in Seq(Nat)
    PROVE  Writes(emit_loop(c, it.at, it.loop), s, its, ls, lps)
<1>1. c \in Codes /\ Len(c) \in Nat
  BY DEF Writes, Codes
<1>2. PICK shape : Comp(c, its, ls, lps, shape) /\ shape[Len(c)] = Ident(Depth(ls, it))
  BY DEF Writes
<1> DEFINE cell == Cell("LOOP", Len(c) - it.at + 3, 0, it.loop, 0)
           d == emit_loop(c, it.at, it.loop)
<1>4. /\ Leads(c, shape, it.at, Ident(Depth(ls, it))) /\ it.at <= Len(c)
      /\ it.loop \in DOMAIN lps /\ lps[it.loop].after = 0 /\ lps[it.loop].top <= it.at
  <2>1. ItemFits(c, ls, lps, shape, it)
    BY <1>2, Zenon DEF Comp
  <2>2. Leads(c, shape, it.at, Ident(Depth(ls, it)))
    BY <2>1, Zenon DEF ItemFits
  <2>3. it.at <= Len(c)
    BY <1>1, <2>2 DEF Leads
  <2>4. it.loop \in DOMAIN lps /\ lps[it.loop].after = 0 /\ lps[it.loop].top <= it.at
    BY <2>1, Zenon DEF ItemFits
  <2>5. QED BY <2>2, <2>3, <2>4
<1>3. /\ cell \in Cells /\ cell.op = "LOOP" /\ cell.loop = it.loop
      /\ cell.arg = Len(c) - it.at + 3
  BY <1>1 DEF Cell, Cells, Ops
<1>5. d = c \o Instruction(cell)
  BY DEF emit_loop
<1> HIDE DEF cell, d
<1>6. Emitted(c, cell, d)
  BY <1>1, <1>3, <1>5, EmittedIs
<1>7. Len(c) + 3 - cell.arg = it.at
  BY <1>1, <1>3
<1>8. Fits(c, shape, cell, s)
  BY <1>2, <1>3, <1>4, <1>7 DEF Fits, Discards
<1>9. PICK into : Grows(c, shape, d, into) /\ into[Len(d)] = s
  BY <1>1, <1>2, <1>6, <1>8, CompCoheres, FittingGrows
<1>10. d[Len(c) + 1] = cell /\ d \in Codes
  BY <1>6 DEF Emitted
<1>11. LoopCell(d, lps, Len(c) + 1)
  <2> DEFINE o == Len(c) + 1
  <2>0. o - 1 = Len(c) /\ d[o] = cell
    BY <1>1, <1>10
  <2> HIDE DEF o
  <2>1. d[o].op = "LOOP" /\ d[o].loop = it.loop
    BY <1>3, <2>0
  <2>2. (o - 1 + Size(d[o].op)) - d[o].arg = it.at
    <3>1. Size(d[o].op) = 3 /\ d[o].arg = Len(c) - it.at + 3
      BY <1>3, <2>0, SizeIs
    <3>2. QED BY <1>1, <2>0, <3>1
  <2>t. it.at \in lps[it.loop].top..o - 1
    BY <1>1, <1>4, <2>0
  <2>3. LoopCell(d, lps, o)
    <3> DEFINE l == lps[d[o].loop]
    <3>1. /\ l.after = 0
          /\ (o - 1 + Size(d[o].op)) - d[o].arg \in l.top..o - 1
          /\ d[o].loop \in DOMAIN lps
      BY <1>4, <2>1, <2>2, <2>t, Zenon
    <3>2. LoopCell(d, lps, o) <=>
            (d[o].loop # 0 =>
              /\ d[o].op \in {"LOOP", "JUMP"} /\ d[o].loop \in DOMAIN lps
              /\ l.after = 0 => IF d[o].op = "LOOP" THEN (o - 1 + Size(d[o].op)) - d[o].arg \in l.top..o - 1
                                ELSE d[o].arg = DUMMY_JUMP_TARGET
              /\ l.after # 0 =>
                    IF d[o].op = "LOOP" THEN (o - 1 + Size(d[o].op)) - d[o].arg \in l.top..l.bottom - 1
                    ELSE o - 1 + Size(d[o].op) + d[o].arg \in l.bottom..l.after)
      BY Zenon DEF LoopCell
    <3> HIDE DEF l
    <3>3. QED BY <2>1, <3>1, <3>2
  <2>4. QED BY <2>3 DEF o
<1>12. NewCell(c, cell, d, its, ls, lps, into)
  BY <1>3, <1>11 DEF NewCell
<1>13. NewItems(c, d, its, its, ls, lps, into)
  BY DEF NewItems
<1>14. NewCells(c, d, its, ls, lps, into)
  BY <1>1, <1>6, <1>12, NewCellAlone
<1>15. Comp(d, its, ls, lps, into)
  BY <1>1, <1>2, <1>9, <1>13, <1>14, Growth
<1>16. Writes(d, s, its, ls, lps)
  BY <1>9, <1>10, <1>15 DEF Writes
<1>17. QED BY <1>16 DEF d

(* The statements change, and the code does not.                             *)
Remains(it, ls, more, now) ==
    it.kind = "block" \/ \E jt \in more : /\ jt.kind = it.kind /\ jt.loop = it.loop
                                          /\ it.kind \in {"then", "else"} => jt.at = it.at
                                          /\ Depth(now, jt) = Depth(ls, it)

LEMMA Reitem ==
    ASSUME NEW c, NEW its, NEW ls, NEW lps, NEW shape, Comp(c, its, ls, lps, shape),
           NEW more, NEW now, NEW new,
           \A it \in more : ItemFits(c, now, new, shape, it),
           \A it \in more, jt \in more : it.kind \in {"then", "else"} /\ jt.kind = it.kind /\ jt.at = it.at => jt = it,
           \A it \in its : Remains(it, ls, more, now),
           LoopCells(c, new)
    PROVE  Comp(c, more, now, new, shape)
<1>1. \A p : ThenOf(its, p) => ThenOf(more, p)
  <2>1. ASSUME NEW p, NEW it \in its, it.kind = "then", it.at = p PROVE ThenOf(more, p)
    <3>1. PICK jt \in more : jt.kind = "then" /\ jt.at = p
      BY <2>1 DEF Remains
    <3>2. QED BY <3>1 DEF ThenOf
  <2>2. QED BY <2>1 DEF ThenOf
<1>2. \A p : ElseOf(its, p) => ElseOf(more, p)
  <2>1. ASSUME NEW p, NEW it \in its, it.kind = "else", it.at = p PROVE ElseOf(more, p)
    <3>1. PICK jt \in more : jt.kind = "else" /\ jt.at = p
      BY <2>1 DEF Remains
    <3>2. QED BY <3>1 DEF ElseOf
  <2>2. QED BY <2>1 DEF ElseOf
<1>3. \A p : TestOf(its, ls, shape, p) => TestOf(more, now, shape, p)
  <2>1. ASSUME NEW p, NEW it \in its, it.kind \in LoopKinds, shape[p] = Append(Ident(Depth(ls, it)), 0)
        PROVE  TestOf(more, now, shape, p)
    <3>1. PICK jt \in more : jt.kind = it.kind /\ Depth(now, jt) = Depth(ls, it)
      BY <2>1 DEF Remains, LoopKinds
    <3>2. QED BY <2>1, <3>1 DEF TestOf
  <2>2. QED BY <2>1 DEF TestOf
<1>4. \A loop, p : BreakOf(its, ls, shape, loop, p) => BreakOf(more, now, shape, loop, p)
  <2>1. ASSUME NEW loop, NEW p, NEW it \in its, it.kind = "while", it.loop = loop, shape[p] = Ident(Depth(ls, it))
        PROVE  BreakOf(more, now, shape, loop, p)
    <3>1. PICK jt \in more : jt.kind = it.kind /\ jt.loop = it.loop /\ Depth(now, jt) = Depth(ls, it)
      BY <2>1 DEF Remains
    <3>2. QED BY <2>1, <3>1 DEF BreakOf
  <2>2. QED BY <2>1 DEF BreakOf
<1>5. \A p \in Nat : Awaits(c, p, "JUMP_IF_FALSE") => ThenOf(more, p) \/ TestOf(more, now, shape, p)
  <2>1. \A p \in Nat : Awaits(c, p, "JUMP_IF_FALSE") => ThenOf(its, p) \/ TestOf(its, ls, shape, p)
    BY Zenon DEF Comp
  <2>2. QED BY <1>1, <1>3, <2>1, Zenon
<1>6. \A p, q \in Nat : /\ Awaits(c, p, "JUMP_IF_FALSE") /\ Awaits(c, q, "JUMP_IF_FALSE")
                        /\ ~ThenOf(more, p) /\ ~ThenOf(more, q)
                        => p = q
  <2>1. \A p, q \in Nat : /\ Awaits(c, p, "JUMP_IF_FALSE") /\ Awaits(c, q, "JUMP_IF_FALSE")
                          /\ ~ThenOf(its, p) /\ ~ThenOf(its, q)
                          => p = q
    BY Zenon DEF Comp
  <2>2. QED BY <1>1, <2>1, Zenon
<1>7. \A p \in Nat : Awaits(c, p, "JUMP") => ElseOf(more, p) \/ BreakOf(more, now, shape, c[p + 1].loop, p)
  <2>1. \A p \in Nat : Awaits(c, p, "JUMP") => ElseOf(its, p) \/ BreakOf(its, ls, shape, c[p + 1].loop, p)
    BY Zenon DEF Comp
  <2>2. QED BY <1>2, <1>4, <2>1, Zenon
<1>8. Coherent(c, shape)
  BY CompCoheres
<1>9. \A o, q \in 1..Len(c) : /\ c[o].op = "JUMP" /\ c[q].op = "JUMP"
                              /\ c[o].loop = c[q].loop /\ c[o].loop # 0
                              => o = q
  BY Zenon DEF Comp
<1>10. \A it, jt \in more : it.kind \in {"then", "else"} /\ jt.kind = it.kind /\ jt.at = it.at => jt = it
  BY Zenon
<1>11. \A it \in more : ItemFits(c, now, new, shape, it)
  BY Zenon
<1>12. QED BY <1>5, <1>6, <1>7, <1>8, <1>9, <1>10, <1>11, Zenon DEF Comp

(* The statements that are not blocks stay, with their depths; the others     *)
(* may go or come.                                                         *)
LEMMA Rescope ==
    ASSUME NEW c, NEW its, NEW ls, NEW lps, NEW s, Writes(c, s, its, ls, lps),
           NEW more, NEW now,
           \A it \in its : it.kind = "block" \/ it \in more,
           \A it \in more : it.kind = "block" \/ it \in its,
           \A it \in more : it.kind = "block" \/ Depth(now, it) = Depth(ls, it)
    PROVE  Writes(c, s, more, now, lps)
<1>1. PICK shape : Comp(c, its, ls, lps, shape) /\ shape[Len(c)] = s
  BY DEF Writes
<1>2. ASSUME NEW it \in more PROVE ItemFits(c, now, lps, shape, it)
  <2>1. CASE it.kind = "block"
    BY <2>1 DEF ItemFits, LoopKinds
  <2>2. CASE it.kind # "block"
    <3>1. it \in its /\ Depth(now, it) = Depth(ls, it)
      BY <2>2
    <3>2. ItemFits(c, ls, lps, shape, it)
      BY <1>1, <3>1, Zenon DEF Comp
    <3>3. QED BY <3>1, <3>2, Zenon DEF ItemFits
  <2>3. QED BY <2>1, <2>2
<1>3. ASSUME NEW it \in more, NEW jt \in more, it.kind \in {"then", "else"}, jt.kind = it.kind, jt.at = it.at
      PROVE  jt = it
  <2>1. it \in its /\ jt \in its
    BY <1>3
  <2>2. QED BY <1>1, <1>3, <2>1, Zenon DEF Comp
<1>4. ASSUME NEW it \in its PROVE Remains(it, ls, more, now)
  BY DEF Remains
<1>5. LoopCells(c, lps)
  BY <1>1, Zenon DEF Comp
<1>6. Comp(c, more, now, lps, shape)
  BY <1>1, <1>2, <1>3, <1>4, <1>5, Reitem
<1>7. QED BY <1>1, <1>6 DEF Writes

(* Another loop begins.                                                     *)
LEMMA NewLoopCells ==
    ASSUME NEW c, NEW lps \in Seq(Ranges), NEW r \in Ranges, LoopCells(c, lps)
    PROVE  LoopCells(c, Append(lps, r))
<1> DEFINE more == Append(lps, r)
<1>1. /\ \A l \in DOMAIN lps : l \in DOMAIN more /\ more[l] = lps[l]
  OBVIOUS
<1> HIDE DEF more
<1>2. ASSUME NEW o \in 1..Len(c) PROVE LoopCell(c, more, o)
  <2>1. LoopCell(c, lps, o)
    BY DEF LoopCells
  <2>2. CASE c[o].loop = 0
    BY <2>2, Zenon DEF LoopCell
  <2>3. CASE c[o].loop # 0
    <3>1. c[o].loop \in DOMAIN lps
      BY <2>1, <2>3, Zenon DEF LoopCell
    <3>2. c[o].loop \in DOMAIN more /\ more[c[o].loop] = lps[c[o].loop]
      BY <1>1, <3>1
    <3>3. QED BY <2>1, <3>1, <3>2, Zenon DEF LoopCell
  <2>4. QED BY <2>2, <2>3
<1>3. QED BY <1>2 DEF LoopCells, more

LEMMA NewLoopWrites ==
    ASSUME NEW c, NEW its, NEW ls, NEW lps \in Seq(Ranges), NEW r \in Ranges, NEW s,
           Writes(c, s, its, ls, lps), \A it \in its : it.kind = "block"
    PROVE  Writes(c, s, its, ls, Append(lps, r))
<1>1. PICK shape : Comp(c, its, ls, lps, shape) /\ shape[Len(c)] = s
  BY DEF Writes
<1>2. LoopCells(c, Append(lps, r))
  <2>1. LoopCells(c, lps)
    BY <1>1, Zenon DEF Comp
  <2>2. QED BY <2>1, NewLoopCells
<1> DEFINE new == Append(lps, r)
<1> HIDE DEF new
<1>3. \A it \in its : ItemFits(c, ls, new, shape, it)
  BY DEF ItemFits, LoopKinds
<1>4. Comp(c, its, ls, new, shape)
  BY <1>1, <1>2, <1>3, Zenon DEF Comp, new
<1>5. QED BY <1>1, <1>4 DEF Writes, new

LEMMA BlocksAwaitNothing ==
    ASSUME NEW c, NEW its, NEW ls, NEW lps, NEW shape, Comp(c, its, ls, lps, shape),
           \A it \in its : it.kind = "block"
    PROVE  \A q \in Nat : ~Awaits(c, q, "JUMP_IF_FALSE") /\ ~Awaits(c, q, "JUMP")
<1>1. \A p, loop : ~ThenOf(its, p) /\ ~ElseOf(its, p) /\ ~TestOf(its, ls, shape, p)
                   /\ ~BreakOf(its, ls, shape, loop, p)
  BY DEF ThenOf, ElseOf, TestOf, BreakOf, LoopKinds
<1>2. /\ \A p \in Nat : Awaits(c, p, "JUMP_IF_FALSE") => ThenOf(its, p) \/ TestOf(its, ls, shape, p)
      /\ \A p \in Nat : Awaits(c, p, "JUMP") => ElseOf(its, p) \/ BreakOf(its, ls, shape, c[p + 1].loop, p)
  BY Zenon DEF Comp
<1>3. QED BY <1>1, <1>2, Zenon

LEMMA TopLeads ==
    ASSUME NEW c \in Codes, NEW shape
    PROVE  Leads(c, shape, Len(c), shape[Len(c)])
<1>1. Len(c) \in Nat
  BY DEF Codes
<1>2. QED BY <1>1 DEF Leads

(* A loop goes on from here.                                                *)
NewHead(it, lps, at) ==
    /\ it.kind \in LoopKinds /\ it.at = at /\ it.loop \in DOMAIN lps
    /\ lps[it.loop].after = 0 /\ lps[it.loop].top <= it.at

LEMMA StartWrites ==
    ASSUME NEW c, NEW its, NEW ls, NEW lps, NEW it, NewHead(it, lps, Len(c)),
           Writes(c, Ident(Depth(ls, it)), its, ls, lps)
    PROVE  Writes(c, Ident(Depth(ls, it)), its \cup {it}, ls, lps)
<1>1. c \in Codes
  BY DEF Writes
<1>2. PICK shape : Comp(c, its, ls, lps, shape) /\ shape[Len(c)] = Ident(Depth(ls, it))
  BY DEF Writes
<1> DEFINE more == its \cup {it}
<1>m. its \subseteq more /\ \A jt \in more : jt \in its \/ jt = it
  OBVIOUS
<1> HIDE DEF more
<1>3. ItemFits(c, ls, lps, shape, it)
  <2>1. Leads(c, shape, it.at, Ident(Depth(ls, it)))
    BY <1>1, <1>2, TopLeads DEF NewHead
  <2>2. QED BY <2>1 DEF NewHead, ItemFits, LoopKinds
<1>4. \A jt \in more : ItemFits(c, ls, lps, shape, jt)
  <2>1. \A jt \in its : ItemFits(c, ls, lps, shape, jt)
    BY <1>2, Zenon DEF Comp
  <2>2. QED BY <1>m, <1>3, <2>1
<1>5. ASSUME NEW jt \in more, NEW kt \in more, jt.kind \in {"then", "else"}, kt.kind = jt.kind, kt.at = jt.at
      PROVE  kt = jt
  <2>1. jt \in its /\ kt \in its
    BY <1>m, <1>5 DEF NewHead, LoopKinds
  <2>2. QED BY <1>2, <1>5, <2>1, Zenon DEF Comp
<1>6. \A jt \in its : Remains(jt, ls, more, ls)
  BY <1>m DEF Remains
<1>7. LoopCells(c, lps)
  BY <1>2, Zenon DEF Comp
<1>8. Comp(c, more, ls, lps, shape)
  BY <1>2, <1>4, <1>5, <1>6, <1>7, Reitem
<1>9. QED BY <1>1, <1>2, <1>8 DEF Writes, more

LEMMA HeadWrites ==
    ASSUME NEW c, NEW its, NEW ls, NEW lps, NEW it, NewHead(it, lps, Len(c)),
           \A jt \in its : jt.kind = "block", Depth(ls, it) \in Nat,
           Writes(c, Ident(Depth(ls, it)), its, ls, lps)
    PROVE  Writes(c \o Temporary(Depth(ls, it)) \o emit_jump("JUMP_IF_FALSE", 0) \o Pop,
                  Ident(Depth(ls, it)), its \cup {it}, ls, lps)
<1> DEFINE n == Depth(ls, it)
           s == Append(Ident(n), 0)
           b == c \o Temporary(n)
           more == its \cup {it}
           cell == Cell("JUMP_IF_FALSE", DUMMY_JUMP_TARGET, 0, 0, 0)
<1>1. c \in Codes /\ n \in Nat /\ 0 \in Nat
  BY DEF Writes
<1>2. PICK shape : Comp(c, its, ls, lps, shape) /\ shape[Len(c)] = Ident(n)
  BY DEF Writes
<1>3. s \in Seq(Nat) /\ Ident(n) \in Seq(Nat)
  BY <1>1, IdentIs, AppendFront
<1>4. /\ Emitted(c, Cell("VALUE", 0, 0, 0, n), b)
      /\ \E into : Grows(c, shape, b, into) /\ into[Len(b)] = s
  <2> HIDE DEF n
  <2>1. b = c \o Value(0, n)
    BY DEF Temporary
  <2> HIDE DEF b
  <2>2. /\ Emitted(c, Cell("VALUE", 0, 0, 0, n), c \o Value(0, n))
        /\ \E into : Grows(c, shape, c \o Value(0, n), into) /\ into[Len(c \o Value(0, n))] = Append(Ident(n), 0)
    BY <1>1, <1>2, CompCoheres, EmitValue
  <2>3. QED BY <2>1, <2>2
<1>m. its \subseteq more /\ it \in more /\ \A jt \in more : jt \in its \/ jt = it
  OBVIOUS
<1>k. cell.op = "JUMP_IF_FALSE" /\ cell.arg = DUMMY_JUMP_TARGET /\ cell.loop = 0
  BY DEF Cell
<1>q. Quiet(c, b)
  <2> DEFINE v == Cell("VALUE", 0, 0, 0, n)
  <2>1. v.loop = 0 /\ v.op # "JUMP" /\ v.op # "JUMP_IF_FALSE" /\ Emitted(c, v, b)
    BY <1>4 DEF Cell
  <2>2. Len(c) \in Nat
    BY <1>1 DEF Codes
  <2> HIDE DEF v, b
  <2>3. QED BY <2>1, <2>2, QuietEmitted
<1>n. Depth(ls, it) = n
  OBVIOUS
<1>s. s = Append(Ident(n), 0)
  OBVIOUS
<1> HIDE DEF more, cell, b, s, n
<1>5. PICK into : Grows(c, shape, b, into) /\ into[Len(b)] = s
  BY <1>4
<1>6. Comp(b, its, ls, lps, into) /\ b \in Codes
  BY <1>1, <1>2, <1>5, <1>q, QuietGrowth DEF Grows
<1>7. Leads(b, into, Len(c), Ident(n))
  BY <1>1, <1>2, <1>5, TopLeads, LeadsOn
<1>8. \A q \in Nat : ~Awaits(b, q, "JUMP_IF_FALSE")
  BY <1>6, BlocksAwaitNothing
<1>9. ASSUME NEW d, NEW onto, Emitted(b, cell, d), Grows(b, into, d, onto)
      PROVE  NewItems(b, d, its, more, ls, lps, onto) /\ NewCell(b, cell, d, more, ls, lps, onto)
  <2>1. d[Len(b) + 1] = cell /\ onto[Len(b)] = s
    <3>1. Len(b) \in Nat
      BY <1>6 DEF Codes
    <3>2. onto[Len(b)] = into[Len(b)]
      BY <1>9, <3>1 DEF Grows
    <3>3. QED BY <1>5, <1>9, <3>2 DEF Emitted
  <2>2. Leads(d, onto, it.at, Ident(n))
    <3>1. Leads(d, onto, Len(c), Ident(n))
      BY <1>6, <1>7, <1>9, LeadsOn
    <3>2. QED BY <3>1 DEF NewHead
  <2>3. ItemFits(d, ls, lps, onto, it)
    BY <1>n, <2>2 DEF ItemFits, NewHead, LoopKinds
  <2>4. NewItems(b, d, its, more, ls, lps, onto)
    BY <1>m, <2>3 DEF NewItems, NewHead, LoopKinds
  <2>5. TestOf(more, ls, onto, Len(b))
    BY <1>m, <1>n, <1>s, <2>1 DEF TestOf, NewHead
  <2>6. LoopCell(d, lps, Len(b) + 1)
    BY <1>k, <2>1, Zenon DEF LoopCell
  <2>7. NewCell(b, cell, d, more, ls, lps, onto)
    BY <1>8, <1>k, <2>5, <2>6 DEF NewCell
  <2>8. QED BY <2>4, <2>7
<1>10. Writes(b \o emit_jump("JUMP_IF_FALSE", 0), s, more, ls, lps)
  <2>1. s = into[Len(b)] /\ 0 \in Nat
    BY <1>5
  <2>2. QED BY <1>3, <1>6, <1>9, <1>m, <2>1, JumpWrites DEF cell
<1>11. Writes(b \o emit_jump("JUMP_IF_FALSE", 0) \o Pop, Ident(n), more, ls, lps)
  BY <1>1, <1>3, <1>10, <1>s, PopWrites
<1>12. QED BY <1>11 DEF b, more, n

(* A jump has its operand before what follows it.                            *)
LEMMA JumpFits ==
    ASSUME NEW c \in Codes, NEW shape, Coherent(c, shape), NEW p, NEW op \in {"JUMP", "JUMP_IF_FALSE"},
           Awaits(c, p, op)
    PROVE  p \in 0..Len(c) - 3 /\ p \in Placeholders(c, op)
<1>1. Len(c) \in Nat
  BY DEF Codes
<1>2. p \in 0..Len(c) - 1 /\ c[p + 1].op = op /\ c[p + 1].arg = DUMMY_JUMP_TARGET
  BY DEF Awaits
<1>3. Sound(c, shape, p)
  BY <1>2 DEF Coherent
<1>4. Leads(c, shape, p + Size(c[p + 1].op), shape[p + Size(c[p + 1].op)])
  BY <1>3, Zenon DEF Sound
<1>5. Size(c[p + 1].op) = 3
  BY <1>2, SizeIs
<1>6. p + 3 \in 0..Len(c)
  BY <1>4, <1>5 DEF Leads
<1>7. p \in 0..Len(c) - 3
  BY <1>1, <1>2, <1>6
<1>8. QED BY <1>2, <1>7 DEF Placeholders

(* The branches of an if end.                                               *)
LEMMA PatchWrites ==
    ASSUME NEW c, NEW its, NEW ls, NEW lps, NEW s, Writes(c, s, its, ls, lps),
           NEW it \in its,
           \/ it.kind = "then" /\ s = Append(Ident(Depth(ls, it)), 0)
           \/ it.kind = "else" /\ s = Ident(Depth(ls, it)),
           Len(c) < DUMMY_JUMP_TARGET
    PROVE  Writes(patch_jump(c, it.at), s, its \ {it}, ls, lps)
<1> DEFINE p == it.at
           g == Len(c) - p - 3
           d == patch_jump(c, p)
           more == its \ {it}
           op == IF it.kind = "then" THEN "JUMP_IF_FALSE" ELSE "JUMP"
<1>1. c \in Codes /\ Len(c) \in Nat /\ s \in Seq(Nat)
  BY DEF Writes, Codes
<1>2. PICK shape : Comp(c, its, ls, lps, shape) /\ shape[Len(c)] = s
  BY DEF Writes
<1>3. Awaits(c, p, op) /\ shape[p] = s /\ op \in {"JUMP", "JUMP_IF_FALSE"}
      /\ (op = "JUMP" => c[p + 1].loop = 0)
  <2>1. ItemFits(c, ls, lps, shape, it)
    BY <1>2, Zenon DEF Comp
  <2>2. QED BY <2>1 DEF ItemFits
<1>4. Coherent(c, shape) /\ shape \in Shapes
  BY <1>2, CompCoheres
<1>d. d = [c EXCEPT ![p + 1].arg = g]
  BY DEF patch_jump
<1>m. /\ \A jt \in more : jt \in its /\ jt # it
      /\ \A jt \in its : jt \in more \/ jt = it
  OBVIOUS
<1>o. (it.kind = "then" => op = "JUMP_IF_FALSE") /\ (it.kind = "else" => op = "JUMP")
  OBVIOUS
<1>p. p = it.at
  OBVIOUS
<1>g. g = Len(c) - p - 3
  OBVIOUS
<1> HIDE DEF p, d, more, op, g
<1>5. p \in 0..Len(c) - 3 /\ c[p + 1].op = op /\ c[p + 1].arg = DUMMY_JUMP_TARGET
  BY <1>1, <1>3, <1>4, JumpFits DEF Awaits
<1>6. g \in Nat /\ g # DUMMY_JUMP_TARGET /\ p + 3 + g = Len(c) /\ p \in 0..Len(c) - 1
  <2>1. Len(c) < 65535
    BY DEF DUMMY_JUMP_TARGET
  <2>2. g \in Nat /\ g # 65535 /\ p + 3 + g = Len(c) /\ p \in 0..Len(c) - 1
    BY <1>1, <1>5, <1>g, <2>1
  <2>3. QED BY <2>2 DEF DUMMY_JUMP_TARGET
<1>7. Patched(c, p, g, d)
  <2>1. g \in Int /\ p \in 0..Len(c) - 1
    BY <1>6
  <2>2. QED BY <1>1, <1>d, <2>1, PatchedIs
<1>8. Leads(c, shape, p + 3 + g, shape[p])
  BY <1>1, <1>2, <1>3, <1>6, TopLeads
<1>9. Coherent(d, shape) /\ \A a, t : Leads(c, shape, a, t) => Leads(d, shape, a, t)
  <2>1. g \in Int /\ p \in 0..Len(c) - 1 /\ c[p + 1].op \in {"JUMP", "JUMP_IF_FALSE"}
    BY <1>3, <1>5, <1>6
  <2>2. QED BY <1>1, <1>4, <1>7, <1>8, <2>1, PatchCoheres
<1>10. /\ d \in Codes /\ Len(d) = Len(c) /\ \A i \in 1..Len(c) : i # p + 1 => d[i] = c[i]
       /\ d[p + 1].op = c[p + 1].op /\ d[p + 1].loop = c[p + 1].loop /\ d[p + 1].arg = g
  BY <1>7, Zenon DEF Patched
<1>11. \A i \in 1..Len(c) : d[i].op = c[i].op /\ d[i].loop = c[i].loop
  BY <1>10
<1>12. /\ \A q, o : Awaits(c, q, o) /\ q # p => Awaits(d, q, o) /\ d[q + 1] = c[q + 1]
       /\ \A q, o : Awaits(d, q, o) => Awaits(c, q, o) /\ q # p /\ d[q + 1] = c[q + 1]
  <2>1. \A q \in 0..Len(c) - 1 : q # p => d[q + 1] = c[q + 1]
    BY <1>1, <1>6, <1>10
  <2>2. QED BY <1>6, <1>10, <2>1 DEF Awaits
<1>13. ASSUME NEW jt \in more, jt.kind = it.kind PROVE jt.at # p
  <2>1. jt \in its /\ jt # it
    BY <1>m
  <2>2. \A kt, lt \in its : kt.kind \in {"then", "else"} /\ lt.kind = kt.kind /\ lt.at = kt.at => lt = kt
    BY <1>2, Zenon DEF Comp
  <2>3. QED BY <1>13, <1>p, <2>1, <2>2
<1>14. ASSUME NEW jt \in more, jt.kind \in {"then", "else"} PROVE jt.at # p
  <2>1. ItemFits(c, ls, lps, shape, jt)
    BY <1>2, <1>m, Zenon DEF Comp
  <2>2. CASE jt.kind = it.kind
    BY <1>13, <2>2
  <2>3. CASE jt.kind = "then" /\ it.kind = "else"
    <3>1. c[jt.at + 1].op = "JUMP_IF_FALSE"
      BY <2>1, <2>3 DEF ItemFits, Awaits
    <3>2. QED BY <1>5, <1>o, <2>3, <3>1
  <2>4. CASE jt.kind = "else" /\ it.kind = "then"
    <3>1. c[jt.at + 1].op = "JUMP"
      BY <2>1, <2>4 DEF ItemFits, Awaits
    <3>2. QED BY <1>5, <1>o, <2>4, <3>1
  <2>5. QED BY <1>14, <2>2, <2>3, <2>4
<1>15. ASSUME NEW jt \in more PROVE ItemFits(d, ls, lps, shape, jt)
  <2>1. ItemFits(c, ls, lps, shape, jt)
    BY <1>2, <1>m, Zenon DEF Comp
  <2>2. ASSUME jt.kind = "then"
        PROVE  Awaits(d, jt.at, "JUMP_IF_FALSE") /\ shape[jt.at] = Append(Ident(Depth(ls, jt)), 0)
    <3>1. Awaits(c, jt.at, "JUMP_IF_FALSE") /\ shape[jt.at] = Append(Ident(Depth(ls, jt)), 0)
      BY <2>1, <2>2, Zenon DEF ItemFits
    <3>2. jt.at # p
      BY <1>14, <2>2
    <3>3. QED BY <1>12, <3>1, <3>2
  <2>3. ASSUME jt.kind = "else"
        PROVE  Awaits(d, jt.at, "JUMP") /\ d[jt.at + 1].loop = 0 /\ shape[jt.at] = Ident(Depth(ls, jt))
    <3>1. Awaits(c, jt.at, "JUMP") /\ c[jt.at + 1].loop = 0 /\ shape[jt.at] = Ident(Depth(ls, jt))
      BY <2>1, <2>3, Zenon DEF ItemFits
    <3>2. jt.at # p
      BY <1>14, <2>3
    <3>3. QED BY <1>12, <3>1, <3>2
  <2>4. QED BY <1>9, <2>1, <2>2, <2>3, Zenon DEF ItemFits
<1>16. \A q : (ThenOf(its, q) /\ q # p => ThenOf(more, q)) /\ (ElseOf(its, q) /\ q # p => ElseOf(more, q))
  BY <1>m, <1>p, Zenon DEF ThenOf, ElseOf
<1>17. \A q, loop : /\ TestOf(its, ls, shape, q) => TestOf(more, ls, shape, q)
                    /\ BreakOf(its, ls, shape, loop, q) => BreakOf(more, ls, shape, loop, q)
  <2>1. it.kind \notin LoopKinds
    BY DEF LoopKinds
  <2>2. \A jt \in its : jt.kind \in LoopKinds => jt \in more
    BY <1>m, <2>1
  <2>3. "while" \in LoopKinds
    BY DEF LoopKinds
  <2>4. QED BY <2>2, <2>3, Zenon DEF TestOf, BreakOf
<1>18. \A q \in Nat : Awaits(d, q, "JUMP_IF_FALSE") => ThenOf(more, q) \/ TestOf(more, ls, shape, q)
  <2>1. \A q \in Nat : Awaits(c, q, "JUMP_IF_FALSE") => ThenOf(its, q) \/ TestOf(its, ls, shape, q)
    BY <1>2, Zenon DEF Comp
  <2>2. QED BY <1>12, <1>16, <1>17, <2>1, Zenon
<1>19. \A q, r \in Nat : /\ Awaits(d, q, "JUMP_IF_FALSE") /\ Awaits(d, r, "JUMP_IF_FALSE")
                         /\ ~ThenOf(more, q) /\ ~ThenOf(more, r)
                         => q = r
  <2>1. \A q, r \in Nat : /\ Awaits(c, q, "JUMP_IF_FALSE") /\ Awaits(c, r, "JUMP_IF_FALSE")
                          /\ ~ThenOf(its, q) /\ ~ThenOf(its, r)
                          => q = r
    BY <1>2, Zenon DEF Comp
  <2>2. QED BY <1>12, <1>16, <2>1, Zenon
<1>20. \A q \in Nat : Awaits(d, q, "JUMP") => ElseOf(more, q) \/ BreakOf(more, ls, shape, d[q + 1].loop, q)
  <2>1. \A q \in Nat : Awaits(c, q, "JUMP") => ElseOf(its, q) \/ BreakOf(its, ls, shape, c[q + 1].loop, q)
    BY <1>2, Zenon DEF Comp
  <2>2. QED BY <1>12, <1>16, <1>17, <2>1, Zenon
<1>21. \A o, q \in 1..Len(d) : /\ d[o].op = "JUMP" /\ d[q].op = "JUMP"
                               /\ d[o].loop = d[q].loop /\ d[o].loop # 0
                               => o = q
  <2>1. \A o, q \in 1..Len(c) : /\ c[o].op = "JUMP" /\ c[q].op = "JUMP"
                                /\ c[o].loop = c[q].loop /\ c[o].loop # 0
                                => o = q
    BY <1>2, Zenon DEF Comp
  <2>2. QED BY <1>10, <1>11, <2>1
<1>22. LoopCells(d, lps)
  <2>1. LoopCells(c, lps)
    BY <1>2, Zenon DEF Comp
  <2>2. ASSUME NEW o \in 1..Len(c) PROVE LoopCell(d, lps, o)
    <3>1. LoopCell(c, lps, o)
      BY <2>1 DEF LoopCells
    <3>2. CASE o # p + 1
      <4>1. d[o] = c[o]
        BY <1>10, <3>2
      <4>2. QED BY <3>1, <4>1, Zenon DEF LoopCell
    <3>3. CASE o = p + 1
      <4>1. c[o].loop = 0
        <5>1. CASE op = "JUMP"
          BY <1>3, <3>3, <5>1
        <5>2. CASE op = "JUMP_IF_FALSE"
          <6>1. c[o].op = "JUMP_IF_FALSE" /\ c[o].op \notin {"LOOP", "JUMP"}
            BY <1>5, <3>3, <5>2
          <6>2. QED BY <3>1, <6>1, Zenon DEF LoopCell
        <5>3. QED BY <1>3, <5>1, <5>2
      <4>2. d[o].loop = 0
        BY <1>11, <4>1
      <4>3. QED BY <4>2, Zenon DEF LoopCell
    <3>4. QED BY <3>2, <3>3
  <2>3. QED BY <1>10, <2>2 DEF LoopCells
<1>23. \A jt, kt \in more : jt.kind \in {"then", "else"} /\ kt.kind = jt.kind /\ kt.at = jt.at => kt = jt
  <2>1. \A kt, lt \in its : kt.kind \in {"then", "else"} /\ lt.kind = kt.kind /\ lt.at = kt.at => lt = kt
    BY <1>2, Zenon DEF Comp
  <2>2. QED BY <1>m, <2>1
<1>24. Comp(d, more, ls, lps, shape)
  BY <1>9, <1>15, <1>18, <1>19, <1>20, <1>21, <1>22, <1>23, Zenon DEF Comp
<1>25. Writes(d, s, more, ls, lps)
  BY <1>1, <1>2, <1>10, <1>24 DEF Writes
<1>26. QED BY <1>25 DEF d, more, p

(* Code whose placeholders of an opcode, one at most, have their distances.   *)
Filled(c, op, bottom, adjust, shape, d) ==
    /\ d \in Codes /\ Len(d) = Len(c) /\ Coherent(d, shape) /\ None(d, op)
    /\ \A a, s : Leads(c, shape, a, s) => Leads(d, shape, a, s)
    /\ \A i \in 1..Len(c) :
          \/ d[i] = c[i]
          \/ /\ i - 1 \in Placeholders(c, op)
             /\ d[i].op = c[i].op /\ d[i].loop = c[i].loop
             /\ d[i].arg = bottom - (i - 1) + adjust

LEMMA PatchFromFills ==
    ASSUME NEW c \in Codes, NEW shape, Coherent(c, shape), NEW op \in {"JUMP", "JUMP_IF_FALSE"},
           NEW bottom \in Int, NEW adjust \in Int,
           \A p, q \in Placeholders(c, op) : p = q,
           \A p \in Placeholders(c, op) :
              /\ bottom - p + adjust \in Nat /\ bottom - p + adjust < DUMMY_JUMP_TARGET
              /\ Leads(c, shape, p + 3 + (bottom - p + adjust), shape[p]),
           Placeholders(c, op) # {} => Len(c) > 3
    PROVE  Filled(c, op, bottom, adjust, shape, PatchFrom(c, op, bottom, adjust))
<1> DEFINE d == PatchFrom(c, op, bottom, adjust)
<1>1. Len(c) \in Nat
  BY DEF Codes
<1>2. CASE Placeholders(c, op) = {}
  <2>1. d = c
    BY <1>2, PatchFromNone DEF None
  <2> HIDE DEF d
  <2>2. Filled(c, op, bottom, adjust, shape, d)
    BY <1>2, <2>1 DEF Filled, None
  <2>3. QED BY <2>2 DEF d
<1>3. CASE Placeholders(c, op) # {}
  <2>1. PICK p : p \in Placeholders(c, op)
    BY <1>3
  <2>2. Only(c, op, p) /\ Len(c) > 3
    BY <1>3, <2>1 DEF Only
  <2>3. p \in 0..Len(c) - 3 /\ c[p + 1].op = op
    BY <2>1 DEF Placeholders
  <2> DEFINE g == bottom - p + adjust
  <2>4. g \in Nat /\ g < 65535 /\ Leads(c, shape, p + 3 + g, shape[p])
    <3>1. g \in Nat /\ g < DUMMY_JUMP_TARGET /\ Leads(c, shape, p + 3 + g, shape[p])
      BY <2>1, Zenon
    <3> HIDE DEF g
    <3>3. QED BY <3>1 DEF DUMMY_JUMP_TARGET
  <2>5. u16(g) = g /\ g # DUMMY_JUMP_TARGET
    <3> HIDE DEF g
    <3>2. g % 65536 = g /\ g # 65535
      BY <2>4
    <3>3. QED BY <3>2 DEF u16, DUMMY_JUMP_TARGET
  <2>6. Patched(c, p, g, d) /\ None(d, op)
    <3>1. u16(bottom - p + adjust) = g
      BY <2>5
    <3>2. u16(bottom - p + adjust) # DUMMY_JUMP_TARGET
      BY <2>5, <3>1
    <3>3. Patched(c, p, u16(bottom - p + adjust), d) /\ None(d, op)
      BY <2>2, <3>2, PatchFromOne
    <3>4. QED BY <3>1, <3>3
  <2>g. g = bottom - p + adjust
    OBVIOUS
  <2> HIDE DEF d, g
  <2>7. p \in 0..Len(c) - 1 /\ g \in Int
    BY <1>1, <2>3, <2>4
  <2>8. Coherent(d, shape) /\ \A a, t : Leads(c, shape, a, t) => Leads(d, shape, a, t)
    <3>1. c[p + 1].op \in {"JUMP", "JUMP_IF_FALSE"}
      BY <2>3
    <3>2. QED BY <2>4, <2>6, <2>7, <3>1, PatchCoheres
  <2>9. ASSUME NEW i \in 1..Len(c)
        PROVE \/ d[i] = c[i]
              \/ /\ i - 1 \in Placeholders(c, op)
                 /\ d[i].op = c[i].op /\ d[i].loop = c[i].loop
                 /\ d[i].arg = bottom - (i - 1) + adjust
    <3>1. CASE i = p + 1
      <4>1. d[i].op = c[i].op /\ d[i].loop = c[i].loop /\ d[i].arg = g
        BY <2>6, <3>1 DEF Patched
      <4>2. i - 1 = p
        BY <2>3, <3>1
      <4>3. QED BY <2>1, <2>g, <4>1, <4>2
    <3>2. CASE i # p + 1
      BY <2>6, <3>2 DEF Patched
    <3>3. QED BY <3>1, <3>2
  <2>10. d \in Codes /\ Len(d) = Len(c)
    BY <2>6 DEF Patched
  <2>11. Filled(c, op, bottom, adjust, shape, d)
    BY <2>6, <2>8, <2>9, <2>10, Zenon DEF Filled
  <2>12. QED BY <2>11 DEF d
<1>4. QED BY <1>2, <1>3

(* The loop of an item is compiled.                                         *)
Closed(lps, id, bottom, aft, new) ==
    /\ DOMAIN new = DOMAIN lps
    /\ \A l \in DOMAIN lps : l # id => new[l] = lps[l]
    /\ new[id].top = lps[id].top /\ new[id].bottom = bottom /\ new[id].after = aft

(* Nothing waits any more.                                                  *)
LEMMA SettledComp ==
    ASSUME NEW c, NEW shape, Coherent(c, shape),
           \A q \in Nat : ~Awaits(c, q, "JUMP_IF_FALSE") /\ ~Awaits(c, q, "JUMP"),
           NEW its, \A it \in its : it.kind = "block",
           \A o, q \in 1..Len(c) : /\ c[o].op = "JUMP" /\ c[q].op = "JUMP"
                                   /\ c[o].loop = c[q].loop /\ c[o].loop # 0
                                   => o = q,
           NEW ls, NEW lps, LoopCells(c, lps)
    PROVE  Comp(c, its, ls, lps, shape)
<1>1. \A it \in its : ItemFits(c, ls, lps, shape, it)
  BY DEF ItemFits, LoopKinds
<1>2. \A it, jt \in its : it.kind \in {"then", "else"} /\ jt.kind = it.kind /\ jt.at = it.at => jt = it
  OBVIOUS
<1>3. /\ \A p \in Nat : Awaits(c, p, "JUMP_IF_FALSE") => ThenOf(its, p) \/ TestOf(its, ls, shape, p)
      /\ \A p, q \in Nat : /\ Awaits(c, p, "JUMP_IF_FALSE") /\ Awaits(c, q, "JUMP_IF_FALSE")
                           /\ ~ThenOf(its, p) /\ ~ThenOf(its, q)
                           => p = q
      /\ \A p \in Nat : Awaits(c, p, "JUMP") => ElseOf(its, p) \/ BreakOf(its, ls, shape, c[p + 1].loop, p)
  BY Zenon
<1>4. QED BY <1>1, <1>2, <1>3, Zenon DEF Comp

(* A jump that waits is not alone.                                           *)
Roomy(c) == \A p \in Nat : Awaits(c, p, "JUMP_IF_FALSE") \/ Awaits(c, p, "JUMP") => Len(c) > 3

(* The jumps out of a loop get their distances: its test's leads to the end   *)
(* of its code, a break's to what follows the Pop after it.                  *)
Ending(all, its, it, ls, lps, from, c, shape) ==
    /\ all \in Codes /\ c \in Codes
    /\ Comp(all, its, ls, lps, from) /\ from[Len(all)] = Append(Ident(Depth(ls, it)), 0)
    /\ Grows(all, from, c, shape) /\ Quiet(all, c)
    /\ it \in its /\ it.kind \in LoopKinds /\ it.loop # 0
    /\ \A jt \in its : jt = it \/ jt.kind = "block"
    /\ it.kind = "while" => Len(c) = Len(all) + 1 /\ shape[Len(c)] = Ident(Depth(ls, it))
    /\ Len(all) >= 3 /\ Roomy(all) /\ Len(c) < DUMMY_JUMP_TARGET

LEMMA EndingTests ==
    ASSUME NEW all, NEW its, NEW it, NEW ls, NEW lps, NEW from, NEW c, NEW shape,
           Ending(all, its, it, ls, lps, from, c, shape)
    PROVE  Filled(c, "JUMP_IF_FALSE", Len(all), -3, shape, PatchFrom(c, "JUMP_IF_FALSE", Len(all), -3))
<1> DEFINE bottom == Len(all)
           op == "JUMP_IF_FALSE"
<1>1. /\ all \in Codes /\ c \in Codes /\ Comp(all, its, ls, lps, from)
      /\ from[Len(all)] = Append(Ident(Depth(ls, it)), 0)
      /\ Grows(all, from, c, shape) /\ Quiet(all, c) /\ it \in its
      /\ \A jt \in its : jt = it \/ jt.kind = "block"
  BY Zenon DEF Ending
<1>2. it.kind \in LoopKinds /\ Roomy(all) /\ Len(c) < DUMMY_JUMP_TARGET
  BY Zenon DEF Ending
<1>3. Len(all) \in Nat /\ Len(c) \in Nat /\ Len(c) >= Len(all) /\ Coherent(c, shape) /\ Coherent(all, from)
  BY <1>1, CompCoheres DEF Codes, Grows
<1>4. ASSUME NEW p \in Placeholders(c, op)
      PROVE  Awaits(all, p, op) /\ p \in 0..Len(all) - 3 /\ shape[p] = Append(Ident(Depth(ls, it)), 0)
             /\ ~ThenOf(its, p)
  <2>1. p \in 0..Len(c) - 3 /\ Awaits(c, p, op)
    BY <1>3 DEF Placeholders, Awaits
  <2>2. p < Len(all)
    <3>1. SUFFICES ASSUME p >= Len(all) PROVE FALSE
      BY <1>3, <2>1
    <3>2. p + 1 \in Len(all) + 1..Len(c)
      BY <1>3, <2>1, <3>1
    <3>3. c[p + 1].op # op
      BY <1>1, <3>2 DEF Quiet
    <3>4. QED BY <2>1, <3>3 DEF Awaits
  <2>3. Awaits(all, p, op)
    BY <1>1, <2>1, <2>2, GrownAwaits
  <2>4. p \in 0..Len(all) - 3
    BY <1>1, <1>3, <2>3, JumpFits
  <2>5. shape[p] = from[p]
    BY <1>3, <1>1, <2>4 DEF Grows
  <2>6. ~ThenOf(its, p)
    BY <1>1, <1>2 DEF ThenOf, LoopKinds
  <2>7. TestOf(its, ls, from, p)
    <3>1. p \in Nat
      BY <2>4
    <3>2. \A q \in Nat : Awaits(all, q, "JUMP_IF_FALSE") => ThenOf(its, q) \/ TestOf(its, ls, from, q)
      BY <1>1, Zenon DEF Comp
    <3>3. QED BY <2>3, <2>6, <3>1, <3>2
  <2>8. from[p] = Append(Ident(Depth(ls, it)), 0)
    BY <1>1, <2>7 DEF TestOf, LoopKinds
  <2>9. QED BY <2>3, <2>4, <2>5, <2>6, <2>8
<1>5. Leads(c, shape, bottom, Append(Ident(Depth(ls, it)), 0))
  <2>1. Leads(all, from, bottom, from[bottom])
    BY <1>1, TopLeads
  <2>2. Leads(all, from, bottom, Append(Ident(Depth(ls, it)), 0))
    BY <1>1, <2>1
  <2>3. QED BY <1>1, <2>2, LeadsOn
<1>6. ASSUME NEW p \in Placeholders(c, op)
      PROVE  /\ bottom - p + (-3) \in Nat /\ bottom - p + (-3) < DUMMY_JUMP_TARGET
             /\ Leads(c, shape, p + 3 + (bottom - p + (-3)), shape[p])
  <2>1. p \in 0..Len(all) - 3 /\ shape[p] = Append(Ident(Depth(ls, it)), 0)
    BY <1>4
  <2>2. /\ bottom - p + (-3) \in Nat /\ bottom - p + (-3) < DUMMY_JUMP_TARGET
        /\ p + 3 + (bottom - p + (-3)) = bottom
    <3>1. bottom \in Nat /\ bottom < 65535
      BY <1>2, <1>3 DEF DUMMY_JUMP_TARGET
    <3>2. p \in 0..bottom - 3
      BY <2>1
    <3> HIDE DEF bottom
    <3>3. bottom - p + (-3) \in Nat /\ bottom - p + (-3) < 65535 /\ p + 3 + (bottom - p + (-3)) = bottom
      BY <3>1, <3>2
    <3>4. QED BY <3>3 DEF DUMMY_JUMP_TARGET
  <2>3. QED BY <1>5, <2>1, <2>2
<1>7. ASSUME NEW p \in Placeholders(c, op), NEW q \in Placeholders(c, op) PROVE p = q
  <2>1. /\ Awaits(all, p, op) /\ ~ThenOf(its, p) /\ p \in Nat
        /\ Awaits(all, q, op) /\ ~ThenOf(its, q) /\ q \in Nat
    BY <1>4
  <2>2. QED BY <1>1, <2>1, Zenon DEF Comp
<1>8. bottom \in Int /\ -3 \in Int /\ op \in {"JUMP", "JUMP_IF_FALSE"}
      /\ (Placeholders(c, op) # {} => Len(c) > 3)
  <2>1. ASSUME NEW p \in Placeholders(c, op) PROVE Len(c) > 3
    <3>1. Awaits(all, p, "JUMP_IF_FALSE") /\ p \in Nat
      BY <1>4
    <3>2. Len(all) > 3
      BY <1>2, <3>1 DEF Roomy
    <3>3. QED BY <1>3, <3>2
  <2>2. QED BY <1>3, <2>1
<1> HIDE DEF bottom, op
<1>9. Filled(c, op, bottom, -3, shape, PatchFrom(c, op, bottom, -3))
  BY <1>1, <1>3, <1>6, <1>7, <1>8, PatchFromFills
<1>10. QED BY <1>9 DEF bottom, op

(* A jump that waits before the end of a loop is its test's or its break's.   *)
LEMMA EndingBreak ==
    ASSUME NEW all, NEW its, NEW it, NEW ls, NEW lps, NEW from, NEW c, NEW shape,
           Ending(all, its, it, ls, lps, from, c, shape), NEW p \in Nat, Awaits(c, p, "JUMP")
    PROVE  /\ it.kind = "while" /\ p \in 0..Len(all) - 3
           /\ c[p + 1].loop = it.loop /\ c[p + 1] = all[p + 1]
           /\ shape[p] = Ident(Depth(ls, it)) /\ Len(all) > 3
<1>1. /\ all \in Codes /\ c \in Codes /\ Comp(all, its, ls, lps, from)
      /\ Grows(all, from, c, shape) /\ Quiet(all, c) /\ it \in its /\ it.kind \in LoopKinds
      /\ \A jt \in its : jt = it \/ jt.kind = "block"
  BY Zenon DEF Ending
<1>2. Len(all) \in Nat /\ Len(c) \in Nat /\ Coherent(all, from)
  BY <1>1, CompCoheres DEF Codes
<1>3. p < Len(all)
  <2>1. SUFFICES ASSUME p >= Len(all) PROVE FALSE
    BY <1>2
  <2>2. p + 1 \in Len(all) + 1..Len(c)
    BY <1>2, <2>1 DEF Awaits
  <2>3. c[p + 1].op # "JUMP"
    BY <1>1, <2>2 DEF Quiet
  <2>4. QED BY <2>3 DEF Awaits
<1>4. Awaits(all, p, "JUMP")
  BY <1>1, <1>3, GrownAwaits
<1>5. p \in 0..Len(all) - 3
  BY <1>1, <1>2, <1>4, JumpFits
<1>6. shape[p] = from[p] /\ c[p + 1] = all[p + 1]
  BY <1>1, <1>4, GrownAwaits
<1>7. ~ElseOf(its, p)
  BY <1>1 DEF ElseOf, LoopKinds
<1>8. BreakOf(its, ls, from, all[p + 1].loop, p)
  <2>1. \A q \in Nat : Awaits(all, q, "JUMP") => ElseOf(its, q) \/ BreakOf(its, ls, from, all[q + 1].loop, q)
    BY <1>1, Zenon DEF Comp
  <2>2. QED BY <1>4, <1>7, <2>1
<1>9. it.kind = "while" /\ it.loop = all[p + 1].loop /\ from[p] = Ident(Depth(ls, it))
  BY <1>1, <1>8 DEF BreakOf
<1>10. Len(all) > 3
  <2>1. Roomy(all)
    BY Zenon DEF Ending
  <2>2. QED BY <1>4, <2>1 DEF Roomy
<1>11. QED BY <1>5, <1>6, <1>9, <1>10

LEMMA EndingBreaks ==
    ASSUME NEW all, NEW its, NEW it, NEW ls, NEW lps, NEW from, NEW c, NEW shape,
           Ending(all, its, it, ls, lps, from, c, shape),
           NEW adjust \in Int, it.kind = "while" => adjust = -2,
           NEW b, Filled(c, "JUMP_IF_FALSE", Len(all), -3, shape, b)
    PROVE  Filled(b, "JUMP", Len(all), adjust, shape, PatchFrom(b, "JUMP", Len(all), adjust))
<1> DEFINE bottom == Len(all)
           op == "JUMP"
<1>1. /\ all \in Codes /\ c \in Codes /\ Comp(all, its, ls, lps, from)
      /\ Grows(all, from, c, shape) /\ it \in its
  BY Zenon DEF Ending
<1>2. /\ it.loop # 0 /\ Len(c) < DUMMY_JUMP_TARGET
      /\ it.kind = "while" => Len(c) = Len(all) + 1 /\ shape[Len(c)] = Ident(Depth(ls, it))
  BY Zenon DEF Ending
<1>3. Len(all) \in Nat /\ Len(c) \in Nat /\ Len(c) >= Len(all)
  BY <1>1 DEF Codes, Grows
<1>4. /\ b \in Codes /\ Len(b) = Len(c) /\ Coherent(b, shape)
      /\ \A i \in 1..Len(c) : b[i] = c[i] \/ (i - 1 \in Placeholders(c, "JUMP_IF_FALSE") /\ b[i].op = c[i].op)
      /\ \A a, s : Leads(c, shape, a, s) => Leads(b, shape, a, s)
  BY Zenon DEF Filled
<1>5. ASSUME NEW p \in Placeholders(b, op)
      PROVE  Awaits(c, p, "JUMP") /\ p \in Nat /\ b[p + 1] = c[p + 1]
  <2>1. p \in 0..Len(c) - 3 /\ b[p + 1].op = "JUMP" /\ b[p + 1].arg = DUMMY_JUMP_TARGET
    BY <1>4 DEF Placeholders
  <2>2. p + 1 \in 1..Len(c)
    BY <1>3, <2>1
  <2>3. b[p + 1] = c[p + 1]
    <3>1. SUFFICES ASSUME b[p + 1] # c[p + 1] PROVE FALSE
      OBVIOUS
    <3>2. (p + 1) - 1 \in Placeholders(c, "JUMP_IF_FALSE") /\ b[p + 1].op = c[p + 1].op
      <4> DEFINE i == p + 1
      <4>1. i \in 1..Len(c) /\ b[i] # c[i]
        BY <2>2, <3>1
      <4> HIDE DEF i
      <4>2. i - 1 \in Placeholders(c, "JUMP_IF_FALSE") /\ b[i].op = c[i].op
        BY <1>4, <4>1
      <4>3. QED BY <4>2, Zenon DEF i
    <3>3. (p + 1) - 1 = p
      BY <2>1
    <3>4. c[p + 1].op = "JUMP_IF_FALSE"
      BY <3>2, <3>3 DEF Placeholders
    <3>5. QED BY <2>1, <3>2, <3>4
  <2>4. Awaits(c, p, "JUMP")
    BY <1>3, <2>1, <2>3 DEF Awaits
  <2>5. QED BY <2>1, <2>3, <2>4
<1>6. ASSUME NEW p \in Placeholders(b, op)
      PROVE  /\ bottom - p + adjust \in Nat /\ bottom - p + adjust < DUMMY_JUMP_TARGET
             /\ Leads(b, shape, p + 3 + (bottom - p + adjust), shape[p])
  <2>1. /\ it.kind = "while" /\ p \in 0..Len(all) - 3
        /\ shape[p] = Ident(Depth(ls, it))
    BY <1>5, EndingBreak
  <2>2. adjust = -2 /\ Len(c) = bottom + 1 /\ shape[Len(c)] = Ident(Depth(ls, it))
    BY <1>2, <2>1
  <2>3. bottom - p + adjust \in Nat /\ bottom - p + adjust < DUMMY_JUMP_TARGET
        /\ p + 3 + (bottom - p + adjust) = Len(c)
    <3>1. bottom \in Nat /\ bottom < 65535
      BY <1>2, <1>3 DEF DUMMY_JUMP_TARGET
    <3>2. p \in 0..bottom - 3
      BY <2>1
    <3> HIDE DEF bottom
    <3>3. bottom - p + adjust \in Nat /\ bottom - p + adjust < 65535 /\ p + 3 + (bottom - p + adjust) = bottom + 1
      BY <2>2, <3>1, <3>2
    <3>4. QED BY <2>2, <3>3 DEF DUMMY_JUMP_TARGET
  <2>4. Leads(b, shape, Len(b), shape[Len(b)])
    BY <1>4, TopLeads
  <2>5. Leads(b, shape, Len(c), shape[p])
    BY <1>4, <2>1, <2>2, <2>4
  <2> HIDE DEF bottom
  <2>6. QED BY <2>3, <2>5
<1>a. ASSUME NEW p \in Placeholders(b, op)
      PROVE  all[p + 1].loop = it.loop /\ all[p + 1].op = "JUMP" /\ p \in 0..Len(all) - 3
  <2>1. Awaits(c, p, "JUMP") /\ p \in Nat
    BY <1>5
  <2>2. c[p + 1].loop = it.loop /\ c[p + 1] = all[p + 1] /\ p \in 0..Len(all) - 3
    BY <2>1, EndingBreak
  <2>3. c[p + 1].op = "JUMP"
    BY <2>1 DEF Awaits
  <2>4. QED BY <2>2, <2>3
<1>7. ASSUME NEW p \in Placeholders(b, op), NEW q \in Placeholders(b, op) PROVE p = q
  <2>1. /\ all[p + 1].loop = it.loop /\ all[q + 1].loop = it.loop
        /\ all[p + 1].op = "JUMP" /\ all[q + 1].op = "JUMP"
        /\ p \in 0..Len(all) - 3 /\ q \in 0..Len(all) - 3
    BY <1>a
  <2>2. p + 1 \in 1..Len(all) /\ q + 1 \in 1..Len(all)
    BY <1>3, <2>1
  <2>3. p + 1 = q + 1
    <3>1. \A o, r \in 1..Len(all) : /\ all[o].op = "JUMP" /\ all[r].op = "JUMP"
                                    /\ all[o].loop = all[r].loop /\ all[o].loop # 0
                                    => o = r
      BY <1>1, Zenon DEF Comp
    <3>2. QED BY <1>2, <2>1, <2>2, <3>1
  <2>4. QED BY <1>3, <2>1, <2>3
<1>8. bottom \in Int /\ op \in {"JUMP", "JUMP_IF_FALSE"} /\ (Placeholders(b, op) # {} => Len(b) > 3)
  <2>1. ASSUME NEW p \in Placeholders(b, op) PROVE Len(b) > 3
    <3>1. Len(all) > 3
      BY <1>5, EndingBreak
    <3>2. QED BY <1>3, <1>4, <3>1
  <2>2. QED BY <1>3, <2>1
<1> HIDE DEF bottom, op
<1>9. Filled(b, op, bottom, adjust, shape, PatchFrom(b, op, bottom, adjust))
  BY <1>4, <1>6, <1>7, <1>8, PatchFromFills
<1>10. QED BY <1>9 DEF bottom, op

LEMMA LoopCellIs ==
    ASSUME NEW c, NEW lps, NEW o
    PROVE  LoopCell(c, lps, o) <=>
            (c[o].loop # 0 =>
              /\ c[o].op \in {"LOOP", "JUMP"} /\ c[o].loop \in DOMAIN lps
              /\ lps[c[o].loop].after = 0 =>
                    IF c[o].op = "LOOP" THEN (o - 1 + Size(c[o].op)) - c[o].arg \in lps[c[o].loop].top..o - 1
                    ELSE c[o].arg = DUMMY_JUMP_TARGET
              /\ lps[c[o].loop].after # 0 =>
                    IF c[o].op = "LOOP"
                    THEN (o - 1 + Size(c[o].op)) - c[o].arg \in lps[c[o].loop].top..lps[c[o].loop].bottom - 1
                    ELSE o - 1 + Size(c[o].op) + c[o].arg \in lps[c[o].loop].bottom..lps[c[o].loop].after)
BY Zenon DEF LoopCell

(* The end of a loop.                                                       *)
LEMMA EndingComp ==
    ASSUME NEW all, NEW its, NEW it, NEW ls, NEW lps, NEW from, NEW c, NEW shape,
           Ending(all, its, it, ls, lps, from, c, shape),
           NEW adjust \in Int, it.kind = "while" => adjust = -2,
           NEW aft \in Nat, aft >= Len(all), it.kind = "while" => aft = Len(all) + 1,
           lps[it.loop].top \in Nat,
           NEW new, Closed(lps, it.loop, Len(all), aft, new), NEW now
    PROVE  LET d == PatchLoop(c, Len(all), adjust) IN
           /\ Comp(d, its \ {it}, now, new, shape)
           /\ d \in Codes /\ Len(d) = Len(c)
<1> DEFINE b == PatchFrom(c, "JUMP_IF_FALSE", Len(all), -3)
           d == PatchFrom(b, "JUMP", Len(all), adjust)
           id == it.loop
           more == its \ {it}
<1>0. d = PatchLoop(c, Len(all), adjust)
  BY DEF PatchLoop
<1>1. Filled(c, "JUMP_IF_FALSE", Len(all), -3, shape, b)
  BY EndingTests
<1>2. Filled(b, "JUMP", Len(all), adjust, shape, d)
  <2> HIDE DEF b
  <2>1. QED BY <1>1, EndingBreaks
<1>m. \A jt \in more : jt.kind = "block"
  BY Zenon DEF Ending
<1>i. id = it.loop
  OBVIOUS
<1> HIDE DEF b, d, id, more
<1>3. /\ all \in Codes /\ c \in Codes /\ Comp(all, its, ls, lps, from)
      /\ Grows(all, from, c, shape) /\ Quiet(all, c) /\ it \in its /\ it.kind \in LoopKinds
      /\ id # 0 /\ Len(all) >= 3
  BY <1>i, Zenon DEF Ending
<1>4. Len(all) \in Nat /\ Len(c) \in Nat /\ Len(c) >= Len(all) /\ Coherent(c, shape)
      /\ \A i \in 1..Len(all) : c[i] = all[i]
  BY <1>3 DEF Codes, Grows
<1>5. /\ b \in Codes /\ Len(b) = Len(c) /\ Coherent(b, shape) /\ None(b, "JUMP_IF_FALSE")
      /\ \A i \in 1..Len(c) : b[i] = c[i] \/ (i - 1 \in Placeholders(c, "JUMP_IF_FALSE")
                                              /\ b[i].op = c[i].op /\ b[i].loop = c[i].loop)
  BY <1>1, Zenon DEF Filled
<1>6. /\ d \in Codes /\ Len(d) = Len(c) /\ Coherent(d, shape) /\ None(d, "JUMP")
      /\ \A i \in 1..Len(c) : d[i] = b[i] \/ (i - 1 \in Placeholders(b, "JUMP")
                                              /\ d[i].op = b[i].op /\ d[i].loop = b[i].loop
                                              /\ d[i].arg = Len(all) - (i - 1) + adjust)
  BY <1>2, <1>5, Zenon DEF Filled
<1>7. \A i \in 1..Len(c) : d[i].op = c[i].op /\ d[i].loop = c[i].loop
  BY <1>5, <1>6
<1>8. \A i \in 1..Len(c) : b[i] = c[i] \/ c[i].op = "JUMP_IF_FALSE"
  <2>1. \A i \in 1..Len(c) : i - 1 + 1 = i
    OBVIOUS
  <2>2. \A i \in 1..Len(c) : i - 1 \in Placeholders(c, "JUMP_IF_FALSE") => c[i].op = "JUMP_IF_FALSE"
    BY <2>1 DEF Placeholders
  <2>3. QED BY <1>5, <2>2
<1>9. \A i \in 1..Len(c) : d[i] = b[i] \/ (b[i].op = "JUMP" /\ b[i].arg = DUMMY_JUMP_TARGET
                                           /\ d[i].arg = Len(all) - (i - 1) + adjust)
  <2>1. \A i \in 1..Len(c) : i - 1 + 1 = i
    OBVIOUS
  <2>2. \A i \in 1..Len(c) : i - 1 \in Placeholders(b, "JUMP") => b[i].op = "JUMP" /\ b[i].arg = DUMMY_JUMP_TARGET
    BY <2>1 DEF Placeholders
  <2>3. QED BY <1>6, <2>2
<1>10. ASSUME NEW q \in Nat PROVE ~Awaits(d, q, "JUMP_IF_FALSE") /\ ~Awaits(d, q, "JUMP")
  <2>1. ~Awaits(d, q, "JUMP")
    <3>1. Awaits(d, q, "JUMP") => q \in Placeholders(d, "JUMP")
      BY <1>6, JumpFits
    <3>2. QED BY <1>6, <3>1 DEF None
  <2>2. ~Awaits(d, q, "JUMP_IF_FALSE")
    <3>1. SUFFICES ASSUME Awaits(d, q, "JUMP_IF_FALSE") PROVE FALSE
      OBVIOUS
    <3>2. q \in 0..Len(d) - 1 /\ d[q + 1].op = "JUMP_IF_FALSE" /\ d[q + 1].arg = DUMMY_JUMP_TARGET
      BY <3>1 DEF Awaits
    <3>3. q + 1 \in 1..Len(c)
      BY <1>4, <1>6, <3>2
    <3>4. b[q + 1].op = c[q + 1].op /\ d[q + 1].op = c[q + 1].op
      BY <1>5, <1>7, <3>3
    <3>5. d[q + 1] = b[q + 1]
      BY <1>9, <3>2, <3>3, <3>4
    <3>6. Awaits(b, q, "JUMP_IF_FALSE")
      BY <1>5, <1>6, <3>2, <3>5 DEF Awaits
    <3>7. q \in Placeholders(b, "JUMP_IF_FALSE")
      BY <1>5, <3>6, JumpFits
    <3>8. QED BY <1>5, <3>7 DEF None
  <2>3. QED BY <2>1, <2>2
<1>11. Comp(c, its, ls, lps, shape)
  BY <1>3, QuietGrowth
<1>12. \A o, q \in 1..Len(d) : /\ d[o].op = "JUMP" /\ d[q].op = "JUMP"
                               /\ d[o].loop = d[q].loop /\ d[o].loop # 0
                               => o = q
  <2>1. \A o, q \in 1..Len(c) : /\ c[o].op = "JUMP" /\ c[q].op = "JUMP"
                                /\ c[o].loop = c[q].loop /\ c[o].loop # 0
                                => o = q
    BY <1>11, Zenon DEF Comp
  <2>2. QED BY <1>6, <1>7, <2>1
<1>13. id \in DOMAIN lps /\ lps[id].after = 0
  <2>1. ItemFits(c, ls, lps, shape, it)
    BY <1>3, <1>11, Zenon DEF Comp
  <2>2. QED BY <1>3, <1>i, <2>1, Zenon DEF ItemFits
<1>14. /\ DOMAIN new = DOMAIN lps
       /\ \A l \in DOMAIN lps : l # id => new[l] = lps[l]
       /\ new[id].top = lps[id].top /\ new[id].bottom = Len(all) /\ new[id].after = aft
  BY <1>i, Zenon DEF Closed
<1>15. ASSUME NEW o \in 1..Len(d) PROVE LoopCell(d, new, o)
  <2>0. o \in 1..Len(c) /\ Len(d) = Len(c)
    BY <1>6
  <2>1. LoopCell(c, lps, o)
    BY <1>11, <2>0, Zenon DEF Comp, LoopCells
  <2>2. CASE c[o].loop = 0
    <3>1. d[o].loop = 0
      BY <1>7, <2>0, <2>2
    <3>2. QED BY <3>1, Zenon DEF LoopCell
  <2>3. CASE c[o].loop # 0
    <3>1. c[o].op \in {"LOOP", "JUMP"} /\ c[o].loop \in DOMAIN lps
      BY <2>1, <2>3, Zenon DEF LoopCell
    <3>2. b[o] = c[o]
      BY <1>8, <2>0, <3>1
    <3>3. CASE ~Awaits(c, o - 1, "JUMP")
      <4>1. d[o] = c[o]
        <5>1. SUFFICES ASSUME d[o] # c[o] PROVE FALSE
          OBVIOUS
        <5>2. c[o].op = "JUMP" /\ c[o].arg = DUMMY_JUMP_TARGET
          BY <1>9, <2>0, <3>2, <5>1
        <5>3. o - 1 \in 0..Len(c) - 1 /\ o - 1 + 1 = o
          BY <1>4, <2>0
        <5>4. QED BY <3>3, <5>2, <5>3 DEF Awaits
      <4>2. CASE c[o].loop # id
        <5>1. new[c[o].loop] = lps[c[o].loop] /\ c[o].loop \in DOMAIN new
          BY <1>14, <3>1, <4>2
        <5>2. QED BY <2>1, <4>1, <5>1, Zenon DEF LoopCell
      <4>3. CASE c[o].loop = id
        <5>1. c[o].op = "LOOP"
          <6>1. SUFFICES ASSUME c[o].op = "JUMP" PROVE FALSE
            BY <3>1
          <6>2. c[o].arg = DUMMY_JUMP_TARGET
            BY <1>13, <2>1, <2>3, <4>3, <6>1 DEF LoopCell
          <6>3. o - 1 \in 0..Len(c) - 1 /\ o - 1 + 1 = o
            BY <1>4, <2>0
          <6>4. QED BY <3>3, <6>1, <6>2, <6>3 DEF Awaits
        <5>2. (o - 1 + Size(c[o].op)) - c[o].arg \in lps[id].top..o - 1
          BY <1>13, <2>1, <2>3, <4>3, <5>1, LoopCellIs
        <5>3. o \in 1..Len(all)
          <6>1. SUFFICES ASSUME o \in Len(all) + 1..Len(c) PROVE FALSE
            BY <1>4, <2>0
          <6>2. c[o].loop = 0
            BY <1>3, <6>1 DEF Quiet
          <6>3. QED BY <2>3, <6>2
        <5>4. (o - 1 + Size(c[o].op)) - c[o].arg \in new[id].top..new[id].bottom - 1
          <6> DEFINE x == (o - 1 + Size(c[o].op)) - c[o].arg
          <6>1. x \in lps[id].top..o - 1 /\ lps[id].top \in Nat
            BY <1>i, <5>2
          <6> HIDE DEF x
          <6>2. x \in lps[id].top..Len(all) - 1
            BY <1>4, <5>3, <6>1
          <6>3. x \in new[id].top..new[id].bottom - 1
            BY <1>14, <6>2
          <6>4. QED BY <6>3 DEF x
        <5>5. new[id].after # 0
          BY <1>3, <1>14
        <5>6. d[o].loop = id /\ id \in DOMAIN new /\ d[o].op = "LOOP"
              /\ (o - 1 + Size(d[o].op)) - d[o].arg \in new[d[o].loop].top..new[d[o].loop].bottom - 1
          BY <1>13, <1>14, <4>1, <4>3, <5>1, <5>4
        <5>7. QED BY <5>5, <5>6, LoopCellIs
      <4>4. QED BY <4>2, <4>3
    <3>4. CASE Awaits(c, o - 1, "JUMP")
      <4>1. o - 1 + 1 = o /\ o - 1 \in Nat
        BY <2>0
      <4>2. /\ it.kind = "while" /\ o - 1 \in 0..Len(all) - 3
            /\ c[o].loop = id
        BY <1>i, <3>4, <4>1, EndingBreak
      <4>3. c[o].op = "JUMP" /\ c[o].arg = DUMMY_JUMP_TARGET
        BY <3>4, <4>1 DEF Awaits
      <4>4. d[o] # b[o]
        <5>1. SUFFICES ASSUME d[o] = b[o] PROVE FALSE
          OBVIOUS
        <5>2. Awaits(d, o - 1, "JUMP")
          BY <1>4, <2>0, <3>2, <4>1, <4>3, <5>1 DEF Awaits
        <5>3. QED BY <1>10, <4>1, <5>2
      <4>5. d[o].arg = Len(all) - (o - 1) + adjust
        BY <1>9, <2>0, <4>4
      <4>6. d[o].op = "JUMP" /\ d[o].loop = id
        BY <1>7, <2>0, <4>2, <4>3
      <4>7. o - 1 + Size(d[o].op) + d[o].arg = Len(all) + 1
        <5>1. Size(d[o].op) = 3 /\ adjust = -2
          BY <4>2, <4>6, SizeIs
        <5>2. QED BY <1>4, <2>0, <4>5, <5>1
      <4>8. o - 1 + Size(d[o].op) + d[o].arg \in new[d[o].loop].bottom..new[d[o].loop].after
        <5>1. aft = Len(all) + 1
          BY <4>2
        <5>2. new[d[o].loop].bottom = Len(all) /\ new[d[o].loop].after = Len(all) + 1
          BY <1>14, <4>6, <5>1
        <5>3. QED BY <1>4, <4>7, <5>2
      <4>9. new[d[o].loop].after # 0 /\ d[o].loop \in DOMAIN new
        BY <1>3, <1>13, <1>14, <4>6
      <4>10. QED BY <4>6, <4>8, <4>9, LoopCellIs
    <3>5. QED BY <3>3, <3>4
  <2>4. QED BY <2>2, <2>3
<1>16. LoopCells(d, new)
  BY <1>15 DEF LoopCells
<1>17. Comp(d, more, now, new, shape)
  BY <1>6, <1>10, <1>12, <1>16, <1>m, SettledComp
<1>18. QED BY <1>0, <1>6, <1>17 DEF more

-----------------------------------------------------------------------------
(* The statements that are not finished, and their scopes.                  *)

(* The level of the scope a statement's own statements are in.              *)
Inside(it) == it.level + (IF it.kind \in LoopKinds THEN 2 ELSE 1)

Nested(ops, ls, level) ==
    /\ Sorted(ls)
    /\ \A i \in 1..Len(ls) : ls[i].level <= level
    /\ \A i \in 1..Len(ops) : Inside(ops[i]) <= level
    /\ \A i, j \in 1..Len(ops) : i < j => Inside(ops[i]) <= ops[j].level

(* The code of a statement has so many bytes before it.                     *)
Placed(it, ls, lps, n) ==
    /\ it.kind \in LoopKinds =>
          /\ it.loop \in DOMAIN lps /\ lps[it.loop].after = 0
          /\ \A k \in 1..Len(ls) : ls[k].level = it.level + 1 => it.kind = "for" /\ ls[k].captured = FALSE
    /\ it.kind \in {"then", "else"} => it.at < n

Outermost(ops) == \A i, j \in 1..Len(ops) : ops[i].kind \in LoopKinds /\ j < i => ops[j].kind = "block"

LEMMA ItemIs ==
    ASSUME NEW ops \in Seq(Items)
    PROVE  \A i \in 1..Len(ops) : /\ ops[i] \in Items /\ ops[i].kind \in Kinds
                                  /\ ops[i].level \in Nat /\ ops[i].at \in Nat
                                  /\ ops[i].loop \in Nat /\ Inside(ops[i]) \in Nat
                                  /\ Inside(ops[i]) > ops[i].level
<1> TAKE i \in 1..Len(ops)
<1>1. ops[i] \in Items
  OBVIOUS
<1>2. /\ ops[i].kind \in Kinds /\ ops[i].level \in Nat /\ ops[i].at \in Nat /\ ops[i].loop \in Nat
  BY <1>1 DEF Items
<1>3. QED BY <1>1, <1>2 DEF Inside

LEMMA FrontIs ==
    ASSUME NEW S, NEW s \in Seq(S), s # <<>>
    PROVE  /\ Len(s) \in Nat \ {0} /\ SubSeq(s, 1, Len(s) - 1) \in Seq(S)
           /\ Len(SubSeq(s, 1, Len(s) - 1)) = Len(s) - 1 /\ s[Len(s)] \in S
           /\ \A i \in 1..Len(s) - 1 : SubSeq(s, 1, Len(s) - 1)[i] = s[i]
<1>1. Len(s) \in Nat /\ Len(s) # 0
  <2>1. Len(s) = 0 => s = <<>>
    BY EmptySeq
  <2>2. QED BY <2>1
<1>2. s[Len(s)] \in S
  BY <1>1
<1> DEFINE n == Len(s) - 1
<1>3. n \in Nat /\ \A i \in 1..n : s[i] \in S
  BY <1>1
<1> HIDE DEF n
<1>4. /\ SubSeq(s, 1, n) \in Seq(S) /\ Len(SubSeq(s, 1, n)) = n
      /\ \A i \in 1..n : SubSeq(s, 1, n)[i] = s[i]
  BY <1>3
<1>5. QED BY <1>1, <1>2, <1>4 DEF n

LEMMA AppendIs ==
    ASSUME NEW S, NEW s \in Seq(S), NEW x \in S
    PROVE  /\ Append(s, x) \in Seq(S) /\ Len(Append(s, x)) = Len(s) + 1 /\ Len(s) \in Nat
           /\ \A i \in 1..Len(s) : Append(s, x)[i] = s[i]
           /\ Append(s, x)[Len(s) + 1] = x
BY AppendProperties

(* A statement begins.                                                      *)
LEMMA NestedBegin ==
    ASSUME NEW ops \in Seq(Items), NEW ls \in Seq(Locals), NEW level \in Nat, Nested(ops, ls, level),
           NEW it \in Items, it.level = level
    PROVE  Nested(Append(ops, it), ls, Inside(it))
<1>1. Inside(it) \in Nat /\ Inside(it) > level
  BY DEF Items, Inside
<1> DEFINE more == Append(ops, it)
<1>2. Len(more) = Len(ops) + 1 /\ Len(ops) \in Nat /\ more[Len(ops) + 1] = it
      /\ \A i \in 1..Len(ops) : more[i] = ops[i]
  BY AppendIs
<1>3. \A i \in 1..Len(ls) : ls[i].level \in Nat /\ ls[i].level <= level
  BY LevelIs DEF Nested
<1>4. \A i \in 1..Len(ops) : Inside(ops[i]) <= level /\ Inside(ops[i]) \in Nat
  BY ItemIs DEF Nested
<1>5. Sorted(ls) /\ \A i, j \in 1..Len(ops) : i < j => Inside(ops[i]) <= ops[j].level
  BY DEF Nested
<1> HIDE DEF more
<1>6. \A i \in 1..Len(ls) : ls[i].level <= Inside(it)
  BY <1>1, <1>3
<1>7. \A i \in 1..Len(more) : Inside(more[i]) <= Inside(it)
  BY <1>1, <1>2, <1>4
<1>8. \A i, j \in 1..Len(more) : i < j => Inside(more[i]) <= more[j].level
  BY <1>1, <1>2, <1>4, <1>5
<1>9. Nested(more, ls, Inside(it))
  BY <1>5, <1>6, <1>7, <1>8 DEF Nested
<1>10. QED BY <1>9 DEF more

(* The innermost one ends.                                                  *)
LEMMA NestedEnd ==
    ASSUME NEW ops \in Seq(Items), NEW ls \in Seq(Locals), NEW level \in Nat, Nested(ops, ls, level),
           ops # <<>>
    PROVE  LET it == ops[Len(ops)] IN
           /\ it \in Items /\ it.level \in Nat /\ Inside(it) <= level
           /\ Nested(SubSeq(ops, 1, Len(ops) - 1), Kept(ls, it.level), it.level)
<1> DEFINE it == ops[Len(ops)]
           out == SubSeq(ops, 1, Len(ops) - 1)
           now == Kept(ls, it.level)
<1>1. Len(ops) \in Nat \ {0} /\ out \in Seq(Items) /\ Len(out) = Len(ops) - 1 /\ it \in Items
      /\ \A i \in 1..Len(ops) - 1 : out[i] = ops[i]
  BY FrontIs
<1>2. it.level \in Nat /\ Inside(it) <= level
  BY <1>1 DEF Nested, Items
<1>3. Sorted(ls)
  BY DEF Nested
<1>4. Sorted(now) /\ \A i \in 1..Len(now) : now[i].level <= it.level
  <2> DEFINE at == it.level
  <2>1. at \in Nat
    BY <1>2
  <2> HIDE DEF at
  <2>2. Sorted(Kept(ls, at)) /\ \A i \in 1..Len(Kept(ls, at)) : Kept(ls, at)[i] = ls[i] /\ ls[i].level <= at
    BY <1>3, <2>1, KeptIs
  <2>3. QED BY <2>2, Zenon DEF at
<1>5. \A i, j \in 1..Len(ops) : i < j => Inside(ops[i]) <= ops[j].level
  BY DEF Nested
<1>6. \A i \in 1..Len(out) : Inside(out[i]) <= it.level
  BY <1>1, <1>5
<1> HIDE DEF out
<1>7. ASSUME NEW i \in 1..Len(out), NEW j \in 1..Len(out), i < j PROVE Inside(out[i]) <= out[j].level
  <2>1. i \in 1..Len(ops) /\ j \in 1..Len(ops) /\ out[i] = ops[i] /\ out[j] = ops[j]
    BY <1>1
  <2>2. Inside(ops[i]) <= ops[j].level
    BY <1>5, <1>7, <2>1
  <2>3. QED BY <2>1, <2>2
<1> HIDE DEF it, now
<1>8. Nested(out, now, it.level)
  BY <1>4, <1>6, <1>7 DEF Nested
<1>9. QED BY <1>1, <1>2, <1>8 DEF it, out, now

(* A local is added.                                                        *)
LEMMA NestedLocal ==
    ASSUME NEW ops \in Seq(Items), NEW ls \in Seq(Locals), NEW level \in Nat, Nested(ops, ls, level),
           NEW l \in Locals, l.level <= level, \A i \in 1..Len(ls) : ls[i].level <= l.level
    PROVE  Nested(ops, Append(ls, l), level)
<1> DEFINE more == Append(ls, l)
<1>1. Len(more) = Len(ls) + 1 /\ Len(ls) \in Nat /\ more[Len(ls) + 1] = l
      /\ \A i \in 1..Len(ls) : more[i] = ls[i]
  BY AppendIs
<1>2. l.level \in Nat /\ \A i \in 1..Len(ls) : ls[i].level \in Nat /\ ls[i].level <= level
  BY LevelIs DEF Nested, Locals
<1>3. \A i, j \in 1..Len(ls) : i <= j => ls[i].level <= ls[j].level
  BY DEF Nested, Sorted
<1> HIDE DEF more
<1>a. ASSUME NEW i \in 1..Len(more), NEW j \in 1..Len(more), i <= j PROVE more[i].level <= more[j].level
  <2>1. CASE j \in 1..Len(ls)
    <3>1. i \in 1..Len(ls) /\ more[i] = ls[i] /\ more[j] = ls[j]
      BY <1>1, <1>a, <2>1
    <3>2. QED BY <1>3, <1>a, <2>1, <3>1
  <2>2. CASE j = Len(ls) + 1
    <3>1. CASE i \in 1..Len(ls)
      BY <1>1, <2>2, <3>1
    <3>2. CASE i = j
      BY <1>1, <1>2, <2>2, <3>2
    <3>3. QED BY <1>1, <1>a, <2>2, <3>1, <3>2
  <2>3. QED BY <1>1, <2>1, <2>2
<1>4. Sorted(more)
  BY <1>a DEF Sorted
<1>5. \A i \in 1..Len(more) : more[i].level <= level
  BY <1>1, <1>2
<1>6. Nested(ops, more, level)
  BY <1>4, <1>5 DEF Nested
<1>7. QED BY <1>6 DEF more

LEMMA NestedHigher ==
    ASSUME NEW ops \in Seq(Items), NEW ls \in Seq(Locals), NEW level \in Nat, Nested(ops, ls, level),
           NEW high \in Nat, level <= high
    PROVE  Nested(ops, ls, high)
<1>1. \A i \in 1..Len(ls) : ls[i].level \in Nat /\ ls[i].level <= level
  BY LevelIs DEF Nested
<1>2. \A i \in 1..Len(ops) : Inside(ops[i]) <= level /\ Inside(ops[i]) \in Nat
  BY ItemIs DEF Nested
<1>3. \A i \in 1..Len(ls) : ls[i].level <= high
  BY <1>1
<1>4. \A i \in 1..Len(ops) : Inside(ops[i]) <= high
  BY <1>2
<1>5. QED BY <1>3, <1>4 DEF Nested

-----------------------------------------------------------------------------
(* The set of the statements that are not finished.                         *)
ItemSet(ops) == {ops[i] : i \in 1..Len(ops)}

LEMMA ItemSetAppend ==
    ASSUME NEW ops \in Seq(Items), NEW it \in Items
    PROVE  ItemSet(Append(ops, it)) = ItemSet(ops) \cup {it}
<1>1. Len(Append(ops, it)) = Len(ops) + 1 /\ Len(ops) \in Nat /\ Append(ops, it)[Len(ops) + 1] = it
      /\ \A i \in 1..Len(ops) : Append(ops, it)[i] = ops[i]
  BY AppendIs
<1>2. QED BY <1>1 DEF ItemSet

LEMMA ItemSetFront ==
    ASSUME NEW ops \in Seq(Items), NEW ls, NEW level, Nested(ops, ls, level), ops # <<>>
    PROVE  /\ ItemSet(SubSeq(ops, 1, Len(ops) - 1)) = ItemSet(ops) \ {ops[Len(ops)]}
           /\ ops[Len(ops)] \in ItemSet(ops)
           /\ \A it \in ItemSet(SubSeq(ops, 1, Len(ops) - 1)) : it.level < ops[Len(ops)].level
<1> DEFINE out == SubSeq(ops, 1, Len(ops) - 1)
<1>1. Len(ops) \in Nat \ {0} /\ Len(out) = Len(ops) - 1
      /\ \A i \in 1..Len(ops) - 1 : out[i] = ops[i]
  BY FrontIs
<1>2. \A i \in 1..Len(ops) : Inside(ops[i]) \in Nat /\ ops[i].level \in Nat /\ Inside(ops[i]) > ops[i].level
  BY ItemIs
<1>3. \A i \in 1..Len(ops) - 1 : ops[i].level < ops[Len(ops)].level
  BY <1>1, <1>2 DEF Nested
<1> HIDE DEF out
<1>4. \A it \in ItemSet(out) : it.level < ops[Len(ops)].level
  BY <1>1, <1>3 DEF ItemSet
<1>5. ItemSet(out) \subseteq ItemSet(ops)
  BY <1>1 DEF ItemSet
<1>6. ASSUME NEW it \in ItemSet(ops), it # ops[Len(ops)] PROVE it \in ItemSet(out)
  BY <1>1, <1>6 DEF ItemSet
<1>7. ops[Len(ops)] \in ItemSet(ops) /\ ops[Len(ops)].level \in Nat
  BY <1>1, <1>2 DEF ItemSet
<1>8. ops[Len(ops)] \notin ItemSet(out)
  BY <1>4, <1>7
<1>9. ItemSet(out) = ItemSet(ops) \ {ops[Len(ops)]}
  BY <1>5, <1>6, <1>8
<1>10. QED BY <1>4, <1>7, <1>9 DEF out

Standing(ops, ls, lps, n) ==
    Outermost(ops) /\ \A i \in 1..Len(ops) : Placed(ops[i], ls, lps, n)

Blocks(ops) == \A i \in 1..Len(ops) : ops[i].kind = "block"

LEMMA StandingLater ==
    ASSUME NEW ops \in Seq(Items), NEW ls, NEW lps, NEW n \in Nat, NEW m \in Nat, n <= m,
           Standing(ops, ls, lps, n)
    PROVE  Standing(ops, ls, lps, m)
<1>1. ASSUME NEW i \in 1..Len(ops) PROVE Placed(ops[i], ls, lps, m)
  <2>1. Placed(ops[i], ls, lps, n) /\ ops[i].at \in Nat
    BY ItemIs DEF Standing
  <2>2. QED BY <2>1 DEF Placed
<1>2. QED BY <1>1 DEF Standing

LEMMA StandingBlocks ==
    ASSUME NEW ops, Blocks(ops), NEW ls, NEW lps, NEW n
    PROVE  Standing(ops, ls, lps, n)
<1>1. ASSUME NEW i \in 1..Len(ops) PROVE ops[i].kind \notin LoopKinds /\ ops[i].kind \notin {"then", "else"}
  BY DEF Blocks, LoopKinds
<1>2. QED BY <1>1 DEF Standing, Outermost, Placed

LEMMA StandingBegin ==
    ASSUME NEW ops \in Seq(Items), NEW ls, NEW lps, NEW n, Standing(ops, ls, lps, n),
           NEW it \in Items, Placed(it, ls, lps, n), it.kind \in LoopKinds => Blocks(ops)
    PROVE  Standing(Append(ops, it), ls, lps, n)
<1> DEFINE more == Append(ops, it)
<1>1. Len(more) = Len(ops) + 1 /\ Len(ops) \in Nat /\ more[Len(ops) + 1] = it
      /\ \A i \in 1..Len(ops) : more[i] = ops[i]
  BY AppendIs
<1>2. \A i, j \in 1..Len(ops) : ops[i].kind \in LoopKinds /\ j < i => ops[j].kind = "block"
  BY DEF Standing, Outermost
<1>3. \A i \in 1..Len(ops) : Placed(ops[i], ls, lps, n)
  BY DEF Standing
<1>4. it.kind \in LoopKinds => \A i \in 1..Len(ops) : ops[i].kind = "block"
  BY DEF Blocks
<1> HIDE DEF more
<1>5. \A i, j \in 1..Len(more) : more[i].kind \in LoopKinds /\ j < i => more[j].kind = "block"
  BY <1>1, <1>2, <1>4
<1>6. \A i \in 1..Len(more) : Placed(more[i], ls, lps, n)
  BY <1>1, <1>3
<1>7. Standing(more, ls, lps, n)
  BY <1>5, <1>6 DEF Standing, Outermost
<1>8. QED BY <1>7 DEF more

LEMMA StandingFront ==
    ASSUME NEW ops \in Seq(Items), ops # <<>>, NEW ls, NEW lps, NEW n, Standing(ops, ls, lps, n)
    PROVE  /\ Standing(SubSeq(ops, 1, Len(ops) - 1), ls, lps, n)
           /\ Placed(ops[Len(ops)], ls, lps, n)
           /\ ops[Len(ops)].kind \in LoopKinds => Blocks(SubSeq(ops, 1, Len(ops) - 1))
<1> DEFINE out == SubSeq(ops, 1, Len(ops) - 1)
<1>1. Len(ops) \in Nat \ {0} /\ Len(out) = Len(ops) - 1 /\ \A i \in 1..Len(ops) - 1 : out[i] = ops[i]
  BY FrontIs
<1> HIDE DEF out
<1>2. \A i, j \in 1..Len(out) : out[i].kind \in LoopKinds /\ j < i => out[j].kind = "block"
  BY <1>1 DEF Standing, Outermost
<1>3. \A i \in 1..Len(out) : Placed(out[i], ls, lps, n)
  BY <1>1 DEF Standing
<1>4. Placed(ops[Len(ops)], ls, lps, n)
  BY <1>1 DEF Standing
<1>5. ops[Len(ops)].kind \in LoopKinds => Blocks(out)
  BY <1>1 DEF Standing, Outermost, Blocks
<1>6. Standing(out, ls, lps, n)
  BY <1>2, <1>3 DEF Standing, Outermost
<1>7. QED BY <1>4, <1>5, <1>6 DEF out

LEMMA StandingKept ==
    ASSUME NEW ops, NEW ls \in Seq(Locals), Sorted(ls), NEW level \in Nat, NEW lps, NEW n,
           Standing(ops, ls, lps, n)
    PROVE  Standing(ops, Kept(ls, level), lps, n)
<1> DEFINE now == Kept(ls, level)
<1>1. Len(ls) \in Nat /\ Len(now) \in 0..Len(ls) /\ \A k \in 1..Len(now) : now[k] = ls[k]
  BY KeptIs
<1> HIDE DEF now
<1>2. ASSUME NEW i \in 1..Len(ops) PROVE Placed(ops[i], now, lps, n)
  BY <1>1 DEF Standing, Placed
<1>3. Standing(ops, now, lps, n)
  BY <1>2 DEF Standing
<1>4. QED BY <1>3 DEF now

LEMMA StandingLocal ==
    ASSUME NEW ops, NEW ls \in Seq(Locals), NEW l \in Locals, NEW lps, NEW n, Standing(ops, ls, lps, n),
           \A i \in 1..Len(ops) : l.level # ops[i].level + 1 \/ ops[i].kind \notin LoopKinds
    PROVE  Standing(ops, Append(ls, l), lps, n)
<1> DEFINE more == Append(ls, l)
<1>1. Len(more) = Len(ls) + 1 /\ Len(ls) \in Nat /\ more[Len(ls) + 1] = l
      /\ \A i \in 1..Len(ls) : more[i] = ls[i]
  BY AppendIs
<1> HIDE DEF more
<1>2. ASSUME NEW i \in 1..Len(ops) PROVE Placed(ops[i], more, lps, n)
  BY <1>1 DEF Standing, Placed, LoopKinds
<1>3. Standing(ops, more, lps, n)
  BY <1>2 DEF Standing
<1>4. QED BY <1>3 DEF more

-----------------------------------------------------------------------------
(* Pieces of code.                                                          *)
Longer(c, d) == d \in Codes /\ Len(c) <= Len(d)

LEMMA PieceIs ==
    ASSUME NEW cell \in Cells, NEW c \in Codes
    PROVE  Longer(c, c \o Instruction(cell)) /\ Len(c \o Instruction(cell)) = Len(c) + Size(cell.op)
<1>1. Instruction(cell) \in Codes /\ Len(Instruction(cell)) = Size(cell.op)
  BY InstructionIs
<1>2. Size(cell.op) \in 1..3 /\ Len(c) \in Nat
  BY SizeIs DEF Cells, Codes
<1>3. QED BY <1>1, <1>2, ConcatIs DEF Longer

LEMMA PiecesAre ==
    ASSUME NEW c \in Codes
    PROVE  /\ \A slot, n \in Nat : Longer(c, c \o Value(slot, n)) /\ Len(c \o Value(slot, n)) = Len(c) + 2
           /\ \A n \in Nat : Longer(c, c \o Temporary(n)) /\ Len(c \o Temporary(n)) = Len(c) + 2
           /\ Longer(c, c \o Pop) /\ Len(c \o Pop) = Len(c) + 1
           /\ \A op \in {"JUMP", "JUMP_IF_FALSE"}, loop \in Nat :
                 Longer(c, c \o emit_jump(op, loop)) /\ Len(c \o emit_jump(op, loop)) = Len(c) + 3
           /\ \A start \in Int, loop \in Nat :
                 Longer(c, emit_loop(c, start, loop)) /\ Len(emit_loop(c, start, loop)) = Len(c) + 3
           /\ Longer(c, c \o Instruction(Cell("DEFINE_GLOBAL", 0, 0, 0, 0)))
<1>1. Len(c) \in Nat
  BY DEF Codes
<1>2. ASSUME NEW slot \in Nat, NEW n \in Nat
      PROVE  Longer(c, c \o Value(slot, n)) /\ Len(c \o Value(slot, n)) = Len(c) + 2
  <2> DEFINE cell == Cell("VALUE", 0, slot, 0, n)
  <2>1. cell \in Cells /\ cell.op = "VALUE"
    BY CellIs DEF Ops
  <2> HIDE DEF cell
  <2>2. QED BY <2>1, PieceIs, SizeIs DEF Value, cell
<1>3. \A n \in Nat : Longer(c, c \o Temporary(n)) /\ Len(c \o Temporary(n)) = Len(c) + 2
  BY <1>2 DEF Temporary
<1>4. Longer(c, c \o Pop) /\ Len(c \o Pop) = Len(c) + 1
  <2> DEFINE cell == Cell("POP", 0, 0, 0, 0)
  <2>1. cell \in Cells /\ cell.op = "POP"
    BY CellIs DEF Ops
  <2> HIDE DEF cell
  <2>2. QED BY <2>1, PieceIs, SizeIs DEF Pop, cell
<1>5. ASSUME NEW op \in {"JUMP", "JUMP_IF_FALSE"}, NEW loop \in Nat
      PROVE  Longer(c, c \o emit_jump(op, loop)) /\ Len(c \o emit_jump(op, loop)) = Len(c) + 3
  <2> DEFINE cell == Cell(op, DUMMY_JUMP_TARGET, 0, loop, 0)
  <2>1. cell \in Cells /\ cell.op = op
    <3>1. op \in Ops
      BY DEF Ops
    <3>2. DUMMY_JUMP_TARGET \in Int
      BY DEF DUMMY_JUMP_TARGET
    <3>3. QED BY <3>1, <3>2, CellIs
  <2>2. Size(op) = 3
    BY SizeIs
  <2> HIDE DEF cell
  <2>3. QED BY <2>1, <2>2, PieceIs DEF emit_jump, cell
<1>6. ASSUME NEW start \in Int, NEW loop \in Nat
      PROVE  Longer(c, emit_loop(c, start, loop)) /\ Len(emit_loop(c, start, loop)) = Len(c) + 3
  <2> DEFINE cell == Cell("LOOP", Len(c) - start + 3, 0, loop, 0)
  <2>1. cell \in Cells /\ cell.op = "LOOP"
    <3>1. Len(c) - start + 3 \in Int
      BY <1>1
    <3>2. "LOOP" \in Ops
      BY DEF Ops
    <3>3. QED BY <3>1, <3>2, CellIs
  <2> HIDE DEF cell
  <2>2. QED BY <2>1, PieceIs, SizeIs DEF emit_loop, cell
<1>7. Longer(c, c \o Instruction(Cell("DEFINE_GLOBAL", 0, 0, 0, 0)))
  <2> DEFINE cell == Cell("DEFINE_GLOBAL", 0, 0, 0, 0)
  <2>1. cell \in Cells
    BY CellIs DEF Ops
  <2> HIDE DEF cell
  <2>2. QED BY <2>1, PieceIs DEF cell
<1>8. QED BY <1>2, <1>3, <1>4, <1>5, <1>6, <1>7

LEMMA ExitLonger ==
    ASSUME NEW c \in Codes, NEW ls \in Seq(Locals), Sorted(ls), NEW level \in Nat
    PROVE  /\ Longer(c, c \o scope_exit(ls, level)) /\ Len(c) \in Nat
           /\ Len(c \o scope_exit(ls, level)) \in Nat
<1>1. scope_exit(ls, level) \in Codes
  BY ExitIs
<1>2. Len(c) \in Nat /\ Len(scope_exit(ls, level)) \in Nat
  BY <1>1 DEF Codes
<1>3. QED BY <1>1, <1>2, ConcatIs DEF Longer

LEMMA PatchLonger ==
    ASSUME NEW c \in Codes, NEW at \in Nat, at < Len(c)
    PROVE  Longer(c, patch_jump(c, at)) /\ Len(patch_jump(c, at)) = Len(c)
<1>1. Len(c) \in Nat
  BY DEF Codes
<1>2. at \in 0..Len(c) - 1 /\ Len(c) - at - 3 \in Int
  BY <1>1
<1> DEFINE g == Len(c) - at - 3
<1>3. g \in Int
  BY <1>2
<1> HIDE DEF g
<1>4. Patched(c, at, g, [c EXCEPT ![at + 1].arg = g])
  BY <1>2, <1>3, PatchedIs
<1>5. QED BY <1>1, <1>4 DEF Patched, patch_jump, g, Longer

LEMMA PatchLoopLonger ==
    ASSUME NEW c \in Codes, NEW bottom \in Int, NEW adjust \in Int
    PROVE  Longer(c, PatchLoop(c, bottom, adjust)) /\ Len(PatchLoop(c, bottom, adjust)) = Len(c)
<1> DEFINE b == PatchFrom(c, "JUMP_IF_FALSE", bottom, -3)
<1>1. b \in Codes /\ Len(b) = Len(c) /\ Len(c) \in Nat
  BY PatchFromTyped DEF Codes
<1> HIDE DEF b
<1>2. PatchFrom(b, "JUMP", bottom, adjust) \in Codes /\ Len(PatchFrom(b, "JUMP", bottom, adjust)) = Len(b)
  BY <1>1, PatchFromTyped
<1>3. QED BY <1>1, <1>2 DEF PatchLoop, b, Longer

-----------------------------------------------------------------------------
(* What every state of a plain program has, however long its code.          *)
Scoped ==
    /\ code \in Codes /\ locals \in Seq(Locals) /\ scope \in Nat
    /\ open \in Seq(Items) /\ loops \in Seq(Ranges)
    /\ Nested(open, locals, scope)
    /\ Standing(open, locals, loops, Len(code))

LEMMA ScopedIs ==
    Scoped =>
    /\ code \in Codes /\ Len(code) \in Nat /\ locals \in Seq(Locals) /\ Len(locals) \in Nat
    /\ scope \in Nat /\ open \in Seq(Items) /\ loops \in Seq(Ranges)
    /\ Nested(open, locals, scope) /\ Sorted(locals)
    /\ Standing(open, locals, loops, Len(code))
BY DEF Scoped, Nested, Codes

(* The innermost statement ends, whatever its kind.                         *)
LEMMA InnermostIs ==
    Scoped /\ open # <<>> =>
    /\ Innermost \in Items /\ Innermost.level \in Nat /\ Innermost.at \in Nat /\ Innermost.loop \in Nat
    /\ Innermost.kind \in Kinds
    /\ Inside(Innermost) <= scope /\ Innermost.level < scope
    /\ Outer \in Seq(Items)
    /\ Nested(Outer, Kept(locals, Innermost.level), Innermost.level)
    /\ Standing(Outer, Kept(locals, Innermost.level), loops, Len(code))
    /\ Placed(Innermost, locals, loops, Len(code))
    /\ Innermost.kind \in LoopKinds => Blocks(Outer)
    /\ Kept(locals, Innermost.level) \in Seq(Locals)
<1> SUFFICES ASSUME Scoped, open # <<>>
             PROVE  /\ Innermost \in Items /\ Innermost.level \in Nat /\ Innermost.at \in Nat /\ Innermost.loop \in Nat
                    /\ Innermost.kind \in Kinds
                    /\ Inside(Innermost) <= scope /\ Innermost.level < scope
                    /\ Outer \in Seq(Items)
                    /\ Nested(Outer, Kept(locals, Innermost.level), Innermost.level)
                    /\ Standing(Outer, Kept(locals, Innermost.level), loops, Len(code))
                    /\ Placed(Innermost, locals, loops, Len(code))
                    /\ Innermost.kind \in LoopKinds => Blocks(Outer)
                    /\ Kept(locals, Innermost.level) \in Seq(Locals)
  OBVIOUS
<1>1. /\ locals \in Seq(Locals) /\ scope \in Nat /\ open \in Seq(Items)
      /\ Nested(open, locals, scope) /\ Sorted(locals)
      /\ Standing(open, locals, loops, Len(code))
  BY ScopedIs
<1>2. /\ Innermost \in Items /\ Innermost.level \in Nat /\ Inside(Innermost) <= scope
      /\ Nested(Outer, Kept(locals, Innermost.level), Innermost.level)
  BY <1>1, NestedEnd DEF Innermost, Outer
<1>3. Outer \in Seq(Items) /\ Len(open) \in 1..Len(open)
  BY <1>1, FrontIs DEF Outer
<1>4. /\ Innermost.at \in Nat /\ Innermost.loop \in Nat /\ Innermost.kind \in Kinds
      /\ Inside(Innermost) \in Nat /\ Innermost.level < Inside(Innermost)
  BY <1>1, <1>3, ItemIs DEF Innermost
<1>5. /\ Standing(Outer, locals, loops, Len(code)) /\ Placed(Innermost, locals, loops, Len(code))
      /\ Innermost.kind \in LoopKinds => Blocks(Outer)
  BY <1>1, StandingFront DEF Innermost, Outer
<1> DEFINE at == Innermost.level
<1>6. at \in Nat
  BY <1>2
<1> HIDE DEF at
<1>7. Standing(Outer, Kept(locals, at), loops, Len(code)) /\ Kept(locals, at) \in Seq(Locals)
  BY <1>1, <1>5, <1>6, StandingKept, KeptIs
<1>8. QED BY <1>1, <1>2, <1>3, <1>4, <1>5, <1>7 DEF at

LEMMA VarScoped == Scoped /\ VarDeclaration => Scoped' /\ Longer(code, code')
<1> SUFFICES ASSUME Scoped, VarDeclaration PROVE Scoped' /\ Longer(code, code')
  OBVIOUS
<1>1. /\ code \in Codes /\ Len(code) \in Nat /\ locals \in Seq(Locals) /\ Len(locals) \in Nat
      /\ scope \in Nat /\ open \in Seq(Items) /\ loops \in Seq(Ranges)
      /\ Nested(open, locals, scope) /\ Standing(open, locals, loops, Len(code))
  BY ScopedIs
<1>2. scope' = scope /\ open' = open /\ loops' = loops
  BY DEF VarDeclaration
<1>3. CASE scope = 0
  <2> DEFINE b == code \o Temporary(Len(locals))
  <2>1. Longer(code, b)
    BY <1>1, PiecesAre
  <2>2. code' = b \o Instruction(Cell("DEFINE_GLOBAL", 0, 0, 0, 0)) /\ locals' = locals
    BY <1>3 DEF VarDeclaration
  <2>3. b \in Codes /\ Len(b) \in Nat /\ Len(code) <= Len(b)
    BY <2>1 DEF Longer, Codes
  <2> HIDE DEF b
  <2>4. Longer(b, code')
    BY <2>2, <2>3, PiecesAre
  <2>5. code' \in Codes /\ Len(code') \in Nat /\ Len(code) <= Len(code')
    BY <1>1, <2>3, <2>4 DEF Longer, Codes
  <2>6. Standing(open, locals, loops, Len(code'))
    BY <1>1, <2>5, StandingLater
  <2>7. QED BY <1>1, <1>2, <2>2, <2>5, <2>6 DEF Scoped, Longer
<1>4. CASE scope # 0
  <2>1. PICK c \in Captures : locals' = Append(locals, [level |-> scope, captured |-> c])
    BY <1>4 DEF VarDeclaration
  <2> DEFINE l == [level |-> scope, captured |-> c]
  <2>2. l \in Locals /\ l.level = scope
    BY <1>1, <2>1, LoopsAssumption DEF Locals
  <2>3. code' = code \o Value(Len(locals) + 1, Len(locals))
    BY <1>4 DEF VarDeclaration
  <2>4. Longer(code, code')
    BY <1>1, <2>3, PiecesAre
  <2>5. code' \in Codes /\ Len(code') \in Nat /\ Len(code) <= Len(code')
    BY <2>4 DEF Longer, Codes
  <2>6. locals' = Append(locals, l)
    BY <2>1
  <2> HIDE DEF l
  <2>7. locals' \in Seq(Locals)
    BY <1>1, <2>2, <2>6, AppendIs
  <2>8. Nested(open, locals', scope)
    <3>1. \A i \in 1..Len(locals) : locals[i].level <= l.level
      BY <1>1, <2>2 DEF Nested
    <3>2. l.level <= scope
      BY <1>1, <2>2
    <3>3. QED BY <1>1, <2>2, <2>6, <3>1, <3>2, NestedLocal
  <2>9. Standing(open, locals', loops, Len(code'))
    <3>1. ASSUME NEW i \in 1..Len(open) PROVE l.level # open[i].level + 1 \/ open[i].kind \notin LoopKinds
      <4>1. Inside(open[i]) <= scope /\ open[i].level \in Nat /\ open[i].kind \in Kinds
        BY <1>1, ItemIs DEF Nested
      <4>2. CASE open[i].kind \in LoopKinds
        BY <1>1, <2>2, <4>1, <4>2 DEF Inside
      <4>3. QED BY <4>2
    <3>2. Standing(open, locals, loops, Len(code'))
      BY <1>1, <2>5, StandingLater
    <3>3. QED BY <1>1, <2>2, <2>6, <3>1, <3>2, StandingLocal
  <2>10. QED BY <1>1, <1>2, <2>4, <2>5, <2>7, <2>8, <2>9 DEF Scoped
<1>5. QED BY <1>3, <1>4

(* What the end of a statement leaves, once the code of its end is known to   *)
(* be longer.                                                               *)
LEMMA EndScoped ==
    /\ Scoped /\ open # <<>> /\ Longer(code, code')
    /\ open' = Outer /\ locals' = Kept(locals, Innermost.level) /\ scope' = Innermost.level
    /\ loops' = loops
    => Scoped'
<1> SUFFICES ASSUME Scoped, open # <<>>, Longer(code, code'),
                    open' = Outer, locals' = Kept(locals, Innermost.level),
                    scope' = Innermost.level, loops' = loops
             PROVE  Scoped'
  OBVIOUS
<1>1. code' \in Codes /\ Len(code') \in Nat /\ Len(code) <= Len(code') /\ Len(code) \in Nat
      /\ loops \in Seq(Ranges)
  BY ScopedIs DEF Longer, Codes
<1>2. /\ Innermost.level \in Nat /\ Outer \in Seq(Items)
      /\ Nested(Outer, Kept(locals, Innermost.level), Innermost.level)
      /\ Standing(Outer, Kept(locals, Innermost.level), loops, Len(code))
      /\ Kept(locals, Innermost.level) \in Seq(Locals)
  BY InnermostIs
<1>3. Standing(open', locals', loops', Len(code'))
  BY <1>1, <1>2, StandingLater
<1>4. QED BY <1>1, <1>2, <1>3 DEF Scoped

(* The code of a statement that begins and ends at once.                     *)
LEMMA SameScoped ==
    /\ Scoped /\ Longer(code, code')
    /\ open' = open /\ locals' = locals /\ scope' = scope /\ loops' = loops
    => Scoped'
<1> SUFFICES ASSUME Scoped, Longer(code, code'),
                    open' = open, locals' = locals, scope' = scope, loops' = loops
             PROVE  Scoped'
  OBVIOUS
<1>1. code' \in Codes /\ Len(code') \in Nat /\ Len(code) <= Len(code') /\ Len(code) \in Nat
  BY ScopedIs DEF Longer, Codes
<1>2. open \in Seq(Items) /\ Standing(open, locals, loops, Len(code))
  BY DEF Scoped
<1>3. Standing(open, locals, loops, Len(code'))
  BY <1>1, <1>2, StandingLater
<1>4. QED BY <1>1, <1>3 DEF Scoped

LEMMA LongerOn ==
    ASSUME NEW c \in Codes, NEW d, NEW e, Longer(c, d), d \in Codes => Longer(d, e)
    PROVE  Longer(c, e) /\ d \in Codes /\ e \in Codes
<1>1. d \in Codes /\ Len(c) \in Nat /\ Len(d) \in Nat
  BY DEF Longer, Codes
<1>2. e \in Codes /\ Len(e) \in Nat
  BY <1>1 DEF Longer, Codes
<1>3. QED BY <1>1, <1>2 DEF Longer

LEMMA ExpressionScoped == Scoped /\ ExpressionStatement => Scoped' /\ Longer(code, code')
<1> SUFFICES ASSUME Scoped, ExpressionStatement PROVE Scoped' /\ Longer(code, code')
  OBVIOUS
<1>1. code \in Codes /\ Len(locals) \in Nat
  BY ScopedIs
<1> DEFINE b == code \o Temporary(Len(locals))
<1>2. code' = b \o Pop
  BY DEF ExpressionStatement
<1>3. Longer(code, b)
  BY <1>1, PiecesAre
<1> HIDE DEF b
<1>4. b \in Codes => Longer(b, code')
  BY <1>2, PiecesAre
<1>5. Longer(code, code')
  BY <1>1, <1>3, <1>4, LongerOn
<1>6. QED BY <1>5, SameScoped DEF ExpressionStatement

LEMMA BlockBeginScoped == Scoped /\ BlockBegin => Scoped' /\ Longer(code, code')
<1> SUFFICES ASSUME Scoped, BlockBegin PROVE Scoped' /\ Longer(code, code')
  OBVIOUS
<1>1. /\ code \in Codes /\ Len(code) \in Nat /\ locals \in Seq(Locals)
      /\ scope \in Nat /\ open \in Seq(Items) /\ loops \in Seq(Ranges)
      /\ Nested(open, locals, scope) /\ Standing(open, locals, loops, Len(code))
  BY ScopedIs
<1> DEFINE it == [kind |-> "block", level |-> scope, at |-> 0, loop |-> 0]
<1>2. /\ code' = code /\ locals' = locals /\ loops' = loops /\ scope' = scope + 1
      /\ open' = Append(open, it)
  BY DEF BlockBegin, Open
<1>3. it \in Items /\ it.level = scope /\ Inside(it) = scope + 1 /\ Placed(it, locals, loops, Len(code))
      /\ it.kind \notin LoopKinds
  BY <1>1 DEF Items, Kinds, Inside, Placed, LoopKinds
<1> HIDE DEF it
<1>4. Nested(open', locals', scope')
  BY <1>1, <1>2, <1>3, NestedBegin
<1>5. Standing(open', locals', loops', Len(code'))
  BY <1>1, <1>2, <1>3, StandingBegin
<1>6. open' \in Seq(Items)
  BY <1>1, <1>2, <1>3, AppendIs
<1>7. QED BY <1>1, <1>2, <1>4, <1>5, <1>6 DEF Scoped, Longer

LEMMA BlockEndScoped == Scoped /\ BlockEnd => Scoped' /\ Longer(code, code')
<1> SUFFICES ASSUME Scoped, BlockEnd PROVE Scoped' /\ Longer(code, code')
  OBVIOUS
<1>1. code \in Codes /\ locals \in Seq(Locals) /\ Sorted(locals)
  BY ScopedIs
<1>2. /\ open # <<>> /\ open' = Outer /\ loops' = loops
      /\ code' = code \o scope_exit(locals, Innermost.level)
      /\ locals' = Kept(locals, Innermost.level) /\ scope' = Innermost.level
  BY DEF BlockEnd, Ends
<1>3. Innermost.level \in Nat
  BY <1>2, InnermostIs
<1>4. Longer(code, code')
  BY <1>1, <1>2, <1>3, ExitLonger
<1>5. QED BY <1>2, <1>4, EndScoped

LEMMA IfBeginScoped == Scoped /\ IfBegin => Scoped' /\ Longer(code, code')
<1> SUFFICES ASSUME Scoped, IfBegin PROVE Scoped' /\ Longer(code, code')
  OBVIOUS
<1>1. /\ code \in Codes /\ Len(code) \in Nat /\ locals \in Seq(Locals) /\ Len(locals) \in Nat
      /\ scope \in Nat /\ open \in Seq(Items) /\ loops \in Seq(Ranges)
      /\ Nested(open, locals, scope) /\ Standing(open, locals, loops, Len(code))
  BY ScopedIs
<1> DEFINE a == code \o Temporary(Len(locals))
           b == a \o emit_jump("JUMP_IF_FALSE", 0)
           it == [kind |-> "then", level |-> scope, at |-> Len(a), loop |-> 0]
<1>2. /\ code' = b \o Pop /\ locals' = locals /\ loops' = loops /\ scope' = scope + 1
      /\ open' = Append(open, it)
  BY DEF IfBegin, Open
<1>3. a \in Codes /\ Len(a) = Len(code) + 2
  BY <1>1, PiecesAre DEF Longer
<1>4. b \in Codes /\ Len(b) = Len(a) + 3
  <2> HIDE DEF a
  <2>1. QED BY <1>1, <1>3, PiecesAre DEF Longer
<1>5. code' \in Codes /\ Len(code') = Len(b) + 1
  <2> HIDE DEF b
  <2>1. QED BY <1>2, <1>4, PiecesAre DEF Longer
<1>6. Len(a) \in Nat /\ Len(code') \in Nat /\ Len(code) <= Len(code') /\ Len(a) < Len(code')
  <2> HIDE DEF a, b
  <2>1. QED BY <1>1, <1>3, <1>4, <1>5
<1> HIDE DEF a, b
<1>7. it \in Items /\ it.level = scope /\ Inside(it) = scope + 1 /\ Placed(it, locals, loops, Len(code'))
      /\ it.kind \notin LoopKinds
  BY <1>1, <1>6 DEF Items, Kinds, Inside, Placed, LoopKinds
<1> HIDE DEF it
<1>8. Nested(open', locals', scope')
  BY <1>1, <1>2, <1>7, NestedBegin
<1>9. Standing(open', locals', loops', Len(code'))
  <2>1. Standing(open, locals, loops, Len(code'))
    BY <1>1, <1>6, StandingLater
  <2>2. QED BY <1>1, <1>2, <1>7, <2>1, StandingBegin
<1>10. open' \in Seq(Items)
  BY <1>1, <1>2, <1>7, AppendIs
<1>11. QED BY <1>1, <1>2, <1>5, <1>6, <1>8, <1>9, <1>10 DEF Scoped, Longer

LEMMA MaxIs ==
    ASSUME NEW n \in Nat, NEW S \in SUBSET (0..n), S # {}
    PROVE  Max(S) \in S
<1> DEFINE T == {n - y : y \in S}
<1>1. T \in SUBSET Nat /\ T # {}
  <2>1. ASSUME NEW y \in S PROVE n - y \in Nat
    OBVIOUS
  <2>2. PICK y \in S : TRUE
    OBVIOUS
  <2>3. n - y \in T
    OBVIOUS
  <2>4. QED BY <2>1, <2>3
<1>2. PICK m \in T : \A x \in T : m <= x
  BY <1>1, LeastNat
<1>3. PICK y \in S : m = n - y
  BY <1>2
<1>4. ASSUME NEW z \in S PROVE y >= z
  <2>1. n - z \in T
    OBVIOUS
  <2>2. n - y <= n - z
    BY <1>2, <1>3, <2>1
  <2>3. y \in Nat /\ z \in Nat
    OBVIOUS
  <2>4. QED BY <2>2, <2>3
<1>5. QED BY <1>4 DEF Max

(* The loop a break or a continue is about.                                 *)
LEMMA BlockIs ==
    open \in Seq(Items) =>
    /\ Block \in Nat
    /\ Block # 0 => Block \in 1..Len(open) /\ open[Block].kind \in LoopKinds
<1> SUFFICES ASSUME open \in Seq(Items)
             PROVE  /\ Block \in Nat
                    /\ Block # 0 => Block \in 1..Len(open) /\ open[Block].kind \in LoopKinds
  OBVIOUS
<1> DEFINE S == {0} \cup {i \in DOMAIN open : open[i].kind \in LoopKinds}
<1>1. Len(open) \in Nat /\ DOMAIN open = 1..Len(open)
  OBVIOUS
<1>2. S \in SUBSET (0..Len(open)) /\ S # {}
  BY <1>1
<1>3. Max(S) \in S
  BY <1>1, <1>2, MaxIs
<1>4. Block = Max(S)
  BY DEF Block
<1>5. QED BY <1>1, <1>2, <1>3, <1>4

LEMMA ThenEndScoped == Scoped /\ ThenEnd => Scoped' /\ Longer(code, code')
<1> SUFFICES ASSUME Scoped, ThenEnd PROVE Scoped' /\ Longer(code, code')
  OBVIOUS
<1>1. /\ code \in Codes /\ Len(code) \in Nat /\ locals \in Seq(Locals) /\ Sorted(locals)
      /\ scope \in Nat /\ loops \in Seq(Ranges)
  BY ScopedIs
<1>2. open # <<>> /\ Innermost.kind = "then" /\ loops' = loops
      /\ locals' = Kept(locals, Innermost.level)
  BY DEF ThenEnd
<1>3. /\ Innermost \in Items /\ Innermost.level \in Nat /\ Innermost.at \in Nat /\ Innermost.loop \in Nat
      /\ Inside(Innermost) <= scope /\ Outer \in Seq(Items)
      /\ Nested(Outer, Kept(locals, Innermost.level), Innermost.level)
      /\ Standing(Outer, Kept(locals, Innermost.level), loops, Len(code))
      /\ Placed(Innermost, locals, loops, Len(code))
      /\ Kept(locals, Innermost.level) \in Seq(Locals)
  BY <1>2, InnermostIs
<1>4. Innermost.at < Len(code)
  BY <1>2, <1>3 DEF Placed
<1> DEFINE body == code \o scope_exit(locals, Innermost.level)
           jump == body \o emit_jump("JUMP", 0)
           over == patch_jump(jump, Innermost.at)
           skipped == over \o Pop
           else_jump == Len(body)
<1>5. Longer(code, body) /\ body \in Codes /\ Len(body) \in Nat
  BY <1>1, <1>3, ExitLonger DEF Longer
<1>6. Longer(body, jump) /\ jump \in Codes /\ Len(jump) = Len(body) + 3
  <2> HIDE DEF body
  <2>1. QED BY <1>5, PiecesAre DEF Longer
<1>7. Innermost.at < Len(jump) /\ Len(code) <= Len(body)
  <2> HIDE DEF body, jump
  <2>1. QED BY <1>1, <1>3, <1>4, <1>5, <1>6 DEF Longer
<1>8. over \in Codes /\ Len(over) = Len(jump)
  <2> HIDE DEF body, jump
  <2>1. QED BY <1>3, <1>6, <1>7, PatchLonger DEF Longer
<1>9. skipped \in Codes /\ Len(skipped) = Len(over) + 1
  <2> HIDE DEF over
  <2>1. QED BY <1>8, PiecesAre DEF Longer
<1>10. else_jump \in Nat /\ else_jump < Len(skipped) /\ Len(code) <= Len(skipped) /\ Len(skipped) \in Nat
  <2> HIDE DEF body, jump, over, skipped
  <2>1. QED BY <1>1, <1>5, <1>6, <1>7, <1>8, <1>9 DEF Longer
<1>11. CASE code' = patch_jump(skipped, else_jump) /\ scope' = Innermost.level /\ open' = Outer
  <2>1. Longer(code, code')
    <3> HIDE DEF skipped, else_jump
    <3>1. Longer(skipped, code')
      BY <1>9, <1>10, <1>11, PatchLonger
    <3>2. code' \in Codes /\ Len(code') \in Nat
      BY <3>1 DEF Longer, Codes
    <3>3. QED BY <1>1, <1>10, <3>1, <3>2 DEF Longer
  <2>2. QED BY <1>2, <1>11, <2>1, EndScoped
<1>12. CASE /\ code' = skipped /\ scope' = scope
            /\ open' = Append(Outer, [Innermost EXCEPT !.kind = "else", !.at = else_jump])
  <2> DEFINE it == [Innermost EXCEPT !.kind = "else", !.at = else_jump]
  <2> HIDE DEF body, jump, over, skipped, else_jump
  <2>1. it \in Items /\ it.level = Innermost.level /\ it.kind = "else" /\ it.at = else_jump
    BY <1>3, <1>10 DEF Items, Kinds
  <2>2. open' = Append(Outer, it)
    BY <1>12
  <2> HIDE DEF it
  <2>3. Inside(it) = Innermost.level + 1 /\ Inside(Innermost) = Innermost.level + 1
    BY <1>2, <2>1 DEF Inside, LoopKinds
  <2>4. it.kind \notin LoopKinds /\ Placed(it, locals', loops', Len(code'))
    BY <1>10, <1>12, <2>1 DEF Placed, LoopKinds
  <2>5. Nested(open', locals', Inside(it))
    BY <1>2, <1>3, <2>1, <2>2, NestedBegin
  <2>6. open' \in Seq(Items)
    BY <1>3, <2>1, <2>2, AppendIs
  <2>7. Nested(open', locals', scope')
    <3>1. Inside(it) \in Nat /\ Inside(it) <= scope
      BY <1>3, <2>3
    <3>2. QED BY <1>1, <1>2, <1>3, <1>12, <2>5, <2>6, <3>1, NestedHigher
  <2>8. Standing(open', locals', loops', Len(code'))
    <3>1. Standing(Outer, locals', loops', Len(code'))
      BY <1>1, <1>2, <1>3, <1>10, <1>12, StandingLater
    <3>2. QED BY <1>3, <2>1, <2>2, <2>4, <3>1, StandingBegin
  <2>9. QED BY <1>1, <1>2, <1>3, <1>9, <1>10, <1>12, <2>6, <2>7, <2>8 DEF Scoped, Longer
<1>13. QED BY <1>11, <1>12 DEF ThenEnd

LEMMA ElseEndScoped == Scoped /\ ElseEnd => Scoped' /\ Longer(code, code')
<1> SUFFICES ASSUME Scoped, ElseEnd PROVE Scoped' /\ Longer(code, code')
  OBVIOUS
<1>1. code \in Codes /\ Len(code) \in Nat /\ locals \in Seq(Locals) /\ Sorted(locals)
  BY ScopedIs
<1> DEFINE body == code \o scope_exit(locals, Innermost.level)
<1>2. /\ open # <<>> /\ Innermost.kind = "else" /\ open' = Outer /\ loops' = loops
      /\ code' = patch_jump(body, Innermost.at)
      /\ locals' = Kept(locals, Innermost.level) /\ scope' = Innermost.level
  BY DEF ElseEnd, Ends
<1>3. Innermost.level \in Nat /\ Innermost.at \in Nat /\ Placed(Innermost, locals, loops, Len(code))
  BY <1>2, InnermostIs
<1>4. Innermost.at < Len(code)
  BY <1>2, <1>3 DEF Placed
<1>5. Longer(code, body)
  BY <1>1, <1>3, ExitLonger
<1> HIDE DEF body
<1>6. Innermost.at < Len(body)
  BY <1>1, <1>3, <1>4, <1>5 DEF Longer, Codes
<1>7. body \in Codes => Longer(body, code')
  BY <1>2, <1>3, <1>6, PatchLonger
<1>8. Longer(code, code')
  BY <1>1, <1>5, <1>7, LongerOn
<1>9. QED BY <1>2, <1>8, EndScoped

LEMMA ContinueScoped == Scoped /\ ContinueStatement => Scoped' /\ Longer(code, code')
<1> SUFFICES ASSUME Scoped, ContinueStatement PROVE Scoped' /\ Longer(code, code')
  OBVIOUS
<1> DEFINE b == open[Block]
           discard == Len(locals) - Len(Kept(locals, LoopScopeLevel(b)))
           pops == [n \in 1..discard |-> Pop[1]]
           body == code \o pops
<1>1. /\ code \in Codes /\ locals \in Seq(Locals) /\ Sorted(locals) /\ open \in Seq(Items)
      /\ Len(locals) \in Nat
  BY ScopedIs
<1>2. Block # 0 /\ code' = emit_loop(body, b.at, b.loop)
  BY DEF ContinueStatement
<1>3. b \in Items /\ b.level \in Nat /\ b.at \in Nat /\ b.loop \in Nat
  BY <1>1, <1>2, BlockIs, ItemIs
<1>4. LoopScopeLevel(b) \in Nat
  BY <1>3 DEF LoopScopeLevel
<1>5. discard \in Nat
  <2> DEFINE lv == LoopScopeLevel(b)
  <2> HIDE DEF lv, b
  <2>1. Len(Kept(locals, lv)) \in 0..Len(locals)
    BY <1>1, <1>4, KeptIs DEF lv
  <2>2. QED BY <1>1, <2>1 DEF lv
<1>6. pops \in Codes /\ Len(pops) = discard /\ \A n \in 1..discard : pops[n] = Pop[1]
  <2>1. Pop[1] \in Cells
    <3>1. Cell("POP", 0, 0, 0, 0) \in Cells
      BY CellIs DEF Ops
    <3>2. QED BY <3>1, InstructionIs DEF Pop
  <2> HIDE DEF discard
  <2>2. QED BY <1>5, <2>1 DEF Codes
<1> HIDE DEF b, discard, pops
<1>7. Longer(code, body)
  <2>1. Len(code) \in Nat /\ Len(pops) \in Nat
    BY <1>1, <1>6 DEF Codes
  <2>2. QED BY <1>1, <1>6, <2>1, ConcatIs DEF Longer
<1> HIDE DEF body
<1>8. body \in Codes => Longer(body, code')
  <2>1. b.at \in Int
    BY <1>3
  <2>2. body \in Codes => Longer(body, emit_loop(body, b.at, b.loop))
    BY <1>3, <2>1, PiecesAre
  <2>3. QED BY <1>2, <2>2
<1>9. Longer(code, code')
  BY <1>1, <1>7, <1>8, LongerOn
<1>10. QED BY <1>9, SameScoped DEF ContinueStatement

LEMMA BreakScoped == Scoped /\ BreakStatement => Scoped' /\ Longer(code, code')
<1> SUFFICES ASSUME Scoped, BreakStatement PROVE Scoped' /\ Longer(code, code')
  OBVIOUS
<1>1. code \in Codes /\ open \in Seq(Items)
  BY ScopedIs
<1>2. Block # 0 /\ code' = code \o emit_jump("JUMP", open[Block].loop)
  BY DEF BreakStatement
<1>3. open[Block].loop \in Nat
  BY <1>1, <1>2, BlockIs, ItemIs
<1>4. Longer(code, code')
  BY <1>1, <1>2, <1>3, PiecesAre
<1>5. QED BY <1>4, SameScoped DEF BreakStatement

LEMMA EndIsScoped == Scoped /\ End => Scoped' /\ Longer(code, code')
<1> SUFFICES ASSUME Scoped, End PROVE Scoped' /\ Longer(code, code')
  OBVIOUS
<1> DEFINE nil == Cell("NIL", 0, 0, 0, 0)
           return == Cell("RETURN", 0, 0, 0, 0)
           b == code \o Instruction(nil)
<1>1. code \in Codes
  BY ScopedIs
<1>2. code' = b \o Instruction(return)
  BY DEF End
<1>3. nil \in Cells /\ return \in Cells
  BY CellIs DEF Ops
<1> HIDE DEF nil, return
<1>4. Longer(code, b)
  BY <1>1, <1>3, PieceIs
<1> HIDE DEF b
<1>5. b \in Codes => Longer(b, code')
  BY <1>2, <1>3, PieceIs
<1>6. Longer(code, code')
  BY <1>1, <1>4, <1>5, LongerOn
<1>7. QED BY <1>6, SameScoped DEF End

LEMMA RunScoped == Scoped /\ Run => Scoped' /\ code' = code
<1> SUFFICES ASSUME Scoped, Run PROVE Scoped' /\ code' = code
  OBVIOUS
<1>1. compiling' = compiling
  BY Zenon DEF Run, OpPush, OpPop, OpJump, OpJumpIfFalse, OpLoop
<1>2. code' = code /\ locals' = locals /\ scope' = scope /\ open' = open /\ loops' = loops
  BY <1>1 DEF compiling
<1>3. QED BY <1>2 DEF Scoped

(* The loops of a plain program.                                            *)
LEMMA StartIsPlain ==
    Programs = {} /\ Scoped /\ LoopMayStart =>
    /\ Blocks(open) /\ \A it \in ItemSet(open) : it.kind = "block"
<1> SUFFICES ASSUME Programs = {}, Scoped, LoopMayStart
             PROVE  Blocks(open) /\ \A it \in ItemSet(open) : it.kind = "block"
  OBVIOUS
<1>1. \A i \in DOMAIN open : open[i].kind = "block"
  BY DEF LoopMayStart
<1>2. DOMAIN open = 1..Len(open)
  BY DEF Scoped
<1>3. QED BY <1>1, <1>2 DEF Blocks, ItemSet

LEMMA SetIs ==
    ASSUME NEW S, NEW s \in Seq(S), NEW i \in 1..Len(s), NEW x \in S
    PROVE  LET t == [s EXCEPT ![i] = x] IN
           /\ t \in Seq(S) /\ Len(t) = Len(s) /\ t[i] = x
           /\ \A l \in 1..Len(s) : l # i => t[l] = s[l]
OBVIOUS

(* The range of a loop that is compiled.                                    *)
LEMMA ClosedIs ==
    ASSUME NEW lps \in Seq(Ranges), NEW id \in 1..Len(lps), NEW bottom \in Nat, NEW aft \in Nat
    PROVE  LET new == [lps EXCEPT ![id].bottom = bottom, ![id].after = aft] IN
           new \in Seq(Ranges) /\ Closed(lps, id, bottom, aft, new) /\ lps[id].top \in Nat
<1> DEFINE new == [lps EXCEPT ![id].bottom = bottom, ![id].after = aft]
<1>1. lps[id] \in Ranges
  OBVIOUS
<1>2. lps[id].top \in Nat /\ lps[id].bottom \in Nat
  BY <1>1 DEF Ranges
<1> DEFINE r == [lps[id] EXCEPT !.bottom = bottom]
           q == [r EXCEPT !.after = aft]
           mid == [lps EXCEPT ![id] = r]
<1>3. r \in Ranges /\ r.top = lps[id].top /\ r.bottom = bottom
  BY <1>1 DEF Ranges
<1>4. q \in Ranges /\ q.top = lps[id].top /\ q.bottom = bottom /\ q.after = aft
  <2> HIDE DEF r
  <2>1. QED BY <1>3 DEF Ranges
<1>5. mid \in Seq(Ranges) /\ Len(mid) = Len(lps) /\ mid[id] = r
      /\ \A l \in 1..Len(lps) : l # id => mid[l] = lps[l]
  <2> HIDE DEF r
  <2>1. QED BY <1>3
<1>6. new = [mid EXCEPT ![id] = q]
  <2>1. new = [mid EXCEPT ![id].after = aft]
    OBVIOUS
  <2> HIDE DEF mid, r
  <2>2. QED BY <1>5, <2>1
<1> HIDE DEF r, q, mid
<1>7. new \in Seq(Ranges) /\ Len(new) = Len(mid) /\ new[id] = q
      /\ \A l \in 1..Len(mid) : l # id => new[l] = mid[l]
  <2>1. id \in 1..Len(mid)
    BY <1>5
  <2> HIDE DEF new
  <2>2. QED BY <1>4, <1>5, <1>6, <2>1, SetIs
<1> HIDE DEF new
<1>8. DOMAIN new = 1..Len(new) /\ DOMAIN lps = 1..Len(lps)
  BY <1>7
<1>9. new \in Seq(Ranges) /\ Closed(lps, id, bottom, aft, new) /\ lps[id].top \in Nat
  BY <1>2, <1>4, <1>5, <1>7, <1>8 DEF Closed
<1>10. QED BY <1>9 DEF new

LEMMA RangeIs ==
    ASSUME NEW lps \in Seq(Ranges), NEW at \in Nat
    PROVE  LET r == [top |-> at, bottom |-> 0, after |-> 0]
               new == Append(lps, r)
           IN  /\ r \in Ranges /\ new \in Seq(Ranges)
               /\ Len(lps) + 1 \in Nat /\ Len(lps) + 1 # 0
               /\ Len(lps) + 1 \in DOMAIN new
               /\ new[Len(lps) + 1].after = 0 /\ new[Len(lps) + 1].top = at
<1> DEFINE r == [top |-> at, bottom |-> 0, after |-> 0]
           new == Append(lps, r)
<1>1. r \in Ranges /\ r.top = at /\ r.after = 0
  BY DEF Ranges
<1> HIDE DEF r
<1>2. new \in Seq(Ranges) /\ Len(new) = Len(lps) + 1 /\ Len(lps) \in Nat /\ new[Len(lps) + 1] = r
  BY <1>1, AppendIs
<1>3. DOMAIN new = 1..Len(new)
  BY <1>2
<1> HIDE DEF new
<1>4. QED BY <1>1, <1>2, <1>3 DEF new, r

LEMMA WhileBeginScoped ==
    Programs = {} /\ Scoped /\ WhileBegin => Scoped' /\ Longer(code, code')
<1> SUFFICES ASSUME Programs = {}, Scoped, WhileBegin PROVE Scoped' /\ Longer(code, code')
  OBVIOUS
<1>1. /\ code \in Codes /\ Len(code) \in Nat /\ locals \in Seq(Locals) /\ Len(locals) \in Nat
      /\ scope \in Nat /\ open \in Seq(Items) /\ loops \in Seq(Ranges)
      /\ Nested(open, locals, scope)
  BY ScopedIs
<1>2. Blocks(open)
  BY StartIsPlain DEF WhileBegin
<1> DEFINE a == code \o Temporary(Len(locals))
           b == a \o emit_jump("JUMP_IF_FALSE", 0)
           it == [kind |-> "while", level |-> scope, at |-> Len(code), loop |-> Len(loops) + 1]
<1>3. /\ code' = b \o Pop /\ locals' = locals /\ scope' = scope + 2
      /\ loops' = Append(loops, [top |-> Len(code), bottom |-> 0, after |-> 0])
      /\ open' = Append(open, it)
  BY DEF WhileBegin, Open, NewLoop
<1>4. a \in Codes /\ Longer(code, a)
  BY <1>1, PiecesAre DEF Longer
<1>5. b \in Codes /\ Longer(a, b)
  <2> HIDE DEF a
  <2>1. QED BY <1>1, <1>4, PiecesAre DEF Longer
<1>6. Longer(b, code')
  <2> HIDE DEF b
  <2>1. QED BY <1>3, <1>5, PiecesAre
<1> HIDE DEF a, b
<1>7. Longer(code, code')
  BY <1>1, <1>4, <1>5, <1>6, LongerOn
<1>8. /\ loops' \in Seq(Ranges) /\ Len(loops) + 1 \in Nat
      /\ Len(loops) + 1 \in DOMAIN loops' /\ loops'[Len(loops) + 1].after = 0
  BY <1>1, <1>3, RangeIs
<1>9. it \in Items /\ it.level = scope /\ Inside(it) = scope + 2 /\ it.loop = Len(loops) + 1 /\ it.kind = "while"
  BY <1>1, <1>8 DEF Items, Kinds, Inside, LoopKinds
<1> HIDE DEF it
<1>10. Placed(it, locals', loops', Len(code'))
  <2>1. \A k \in 1..Len(locals) : locals[k].level # it.level + 1
    <3>1. \A k \in 1..Len(locals) : locals[k].level \in Nat /\ locals[k].level <= scope
      BY <1>1, LevelIs DEF Nested
    <3>2. QED BY <1>1, <1>9, <3>1
  <2>2. QED BY <1>3, <1>8, <1>9, <2>1 DEF Placed
<1>11. Nested(open', locals', scope')
  BY <1>1, <1>3, <1>9, NestedBegin
<1>12. Standing(open', locals', loops', Len(code'))
  <2>1. Standing(open, locals', loops', Len(code'))
    BY <1>2, StandingBlocks
  <2>2. QED BY <1>1, <1>2, <1>3, <1>9, <1>10, <2>1, StandingBegin
<1>13. open' \in Seq(Items)
  BY <1>1, <1>3, <1>9, AppendIs
<1>14. QED BY <1>1, <1>3, <1>7, <1>8, <1>11, <1>12, <1>13 DEF Scoped, Longer

(* What the end of a loop leaves.                                           *)
LEMMA LoopEndScoped ==
    /\ Scoped /\ open # <<>> /\ Innermost.kind \in LoopKinds /\ Longer(code, code')
    /\ open' = Outer /\ locals' = Kept(locals, Innermost.level) /\ scope' = Innermost.level
    /\ loops' \in Seq(Ranges)
    => Scoped'
<1> SUFFICES ASSUME Scoped, open # <<>>, Innermost.kind \in LoopKinds, Longer(code, code'),
                    open' = Outer, locals' = Kept(locals, Innermost.level),
                    scope' = Innermost.level, loops' \in Seq(Ranges)
             PROVE  Scoped'
  OBVIOUS
<1>1. /\ Innermost.level \in Nat /\ Outer \in Seq(Items)
      /\ Nested(Outer, Kept(locals, Innermost.level), Innermost.level)
      /\ Blocks(Outer)
      /\ Kept(locals, Innermost.level) \in Seq(Locals)
  BY InnermostIs
<1>2. Standing(open', locals', loops', Len(code'))
  BY <1>1, StandingBlocks
<1>3. QED BY <1>1, <1>2 DEF Scoped, Longer

LEMMA WhileEndScoped == Scoped /\ WhileEnd => Scoped' /\ Longer(code, code')
<1> SUFFICES ASSUME Scoped, WhileEnd PROVE Scoped' /\ Longer(code, code')
  OBVIOUS
<1>1. code \in Codes /\ locals \in Seq(Locals) /\ Sorted(locals) /\ loops \in Seq(Ranges)
  BY ScopedIs
<1> DEFINE body == code \o scope_exit(locals, Innermost.level + 1)
           all  == emit_loop(body, Innermost.at, Innermost.loop)
           popped == all \o Pop
<1>2. /\ open # <<>> /\ Innermost.kind = "while" /\ open' = Outer
      /\ code' = PatchLoop(popped, Len(all), -2)
      /\ loops' = [loops EXCEPT ![Innermost.loop].bottom = Len(all), ![Innermost.loop].after = Len(all) + 1]
      /\ locals' = Kept(locals, Innermost.level) /\ scope' = Innermost.level
  BY DEF WhileEnd, Ends
<1>3. Innermost.level \in Nat /\ Innermost.at \in Nat /\ Innermost.loop \in Nat
      /\ Placed(Innermost, locals, loops, Len(code))
  BY <1>2, InnermostIs
<1>4. Innermost.loop \in 1..Len(loops) /\ Innermost.kind \in LoopKinds
  <2>1. Innermost.kind \in LoopKinds
    BY <1>2 DEF LoopKinds
  <2>2. QED BY <1>1, <1>3, <2>1 DEF Placed
<1>5. Longer(code, body)
  <2> DEFINE lv == Innermost.level + 1
  <2>1. lv \in Nat
    BY <1>3
  <2> HIDE DEF lv
  <2>2. QED BY <1>1, <2>1, ExitLonger DEF lv
<1> HIDE DEF body
<1>6. body \in Codes => Longer(body, all)
  <2>1. Innermost.at \in Int
    BY <1>3
  <2>2. QED BY <1>3, <2>1, PiecesAre
<1> HIDE DEF all
<1>7. all \in Codes => Longer(all, popped)
  BY PiecesAre
<1> HIDE DEF popped
<1>8. all \in Codes /\ popped \in Codes /\ Longer(code, popped) /\ Len(all) \in Nat
  <2>1. Longer(code, all) /\ all \in Codes
    BY <1>1, <1>5, <1>6, LongerOn
  <2>2. Longer(code, popped) /\ popped \in Codes
    BY <1>1, <1>7, <2>1, LongerOn
  <2>3. QED BY <2>1, <2>2 DEF Codes
<1>9. popped \in Codes => Longer(popped, code')
  <2>1. Len(all) \in Int /\ -2 \in Int
    BY <1>8
  <2>2. QED BY <1>2, <1>8, <2>1, PatchLoopLonger
<1>10. Longer(code, code')
  BY <1>1, <1>8, <1>9, LongerOn
<1>11. loops' \in Seq(Ranges)
  <2>1. Len(all) \in Nat /\ Len(all) + 1 \in Nat
    BY <1>8
  <2>2. QED BY <1>1, <1>2, <1>4, <2>1, ClosedIs
<1>12. QED BY <1>2, <1>4, <1>10, <1>11, LoopEndScoped

LEMMA ForEndScoped == Scoped /\ ForEnd => Scoped' /\ Longer(code, code')
<1> SUFFICES ASSUME Scoped, ForEnd PROVE Scoped' /\ Longer(code, code')
  OBVIOUS
<1>1. code \in Codes /\ locals \in Seq(Locals) /\ Sorted(locals) /\ loops \in Seq(Ranges)
  BY ScopedIs
<1> DEFINE body == code \o scope_exit(locals, Innermost.level + 1)
           all  == emit_loop(body, Innermost.at, Innermost.loop)
           patched == PatchLoop(all, Len(all), 0)
           exited == patched \o scope_exit(Kept(locals, Innermost.level + 1), Innermost.level)
<1>2. /\ open # <<>> /\ Innermost.kind = "for" /\ open' = Outer
      /\ code' = exited \o Pop
      /\ loops' = [loops EXCEPT ![Innermost.loop].bottom = Len(all), ![Innermost.loop].after = Len(code')]
      /\ locals' = Kept(locals, Innermost.level) /\ scope' = Innermost.level
  BY DEF ForEnd, Ends
<1>3. Innermost.level \in Nat /\ Innermost.at \in Nat /\ Innermost.loop \in Nat
      /\ Placed(Innermost, locals, loops, Len(code))
  BY <1>2, InnermostIs
<1>4. Innermost.loop \in 1..Len(loops) /\ Innermost.kind \in LoopKinds
  <2>1. Innermost.kind \in LoopKinds
    BY <1>2 DEF LoopKinds
  <2>2. QED BY <1>1, <1>3, <2>1 DEF Placed
<1> DEFINE lv == Innermost.level + 1
<1>5. lv \in Nat
  BY <1>3
<1>6. Longer(code, body)
  <2> HIDE DEF lv
  <2>1. Longer(code, code \o scope_exit(locals, lv))
    BY <1>1, <1>5, ExitLonger
  <2>2. QED BY <2>1 DEF lv
<1>7. patched \in Codes => Longer(patched, exited)
  <2> HIDE DEF lv, patched
  <2>1. Kept(locals, lv) \in Seq(Locals) /\ Sorted(Kept(locals, lv))
    BY <1>1, <1>5, KeptIs
  <2> DEFINE now == Kept(locals, lv)
  <2> HIDE DEF now
  <2>2. now \in Seq(Locals) /\ Sorted(now)
    BY <2>1 DEF now
  <2>3. patched \in Codes => Longer(patched, patched \o scope_exit(now, Innermost.level))
    BY <1>3, <2>2, ExitLonger
  <2>4. QED BY <2>3 DEF now, lv
<1> HIDE DEF body, lv
<1>8. body \in Codes => Longer(body, all)
  <2>1. Innermost.at \in Int
    BY <1>3
  <2>2. QED BY <1>3, <2>1, PiecesAre
<1> HIDE DEF all
<1>9. Longer(code, all) /\ all \in Codes /\ Len(all) \in Nat
  <2>1. Longer(code, all) /\ all \in Codes
    BY <1>1, <1>6, <1>8, LongerOn
  <2>2. QED BY <2>1 DEF Codes
<1>10. Longer(all, patched)
  <2>1. Len(all) \in Int /\ 0 \in Int
    BY <1>9
  <2>2. QED BY <1>9, <2>1, PatchLoopLonger
<1> HIDE DEF patched
<1>11. Longer(code, patched) /\ patched \in Codes
  BY <1>1, <1>9, <1>10, LongerOn
<1>12. Longer(code, exited) /\ exited \in Codes
  BY <1>1, <1>7, <1>11, LongerOn
<1> HIDE DEF exited
<1>13. Longer(exited, code')
  BY <1>2, <1>12, PiecesAre
<1>14. Longer(code, code') /\ code' \in Codes
  BY <1>1, <1>12, <1>13, LongerOn
<1>15. loops' \in Seq(Ranges)
  <2>1. Len(code') \in Nat
    BY <1>14 DEF Codes
  <2>2. QED BY <1>1, <1>2, <1>4, <1>9, <2>1, ClosedIs
<1>16. QED BY <1>2, <1>4, <1>14, <1>15, LoopEndScoped

-----------------------------------------------------------------------------
(* The pieces of code a for begins with.                                    *)
ForDepth(variable) == IF variable THEN Len(locals) + 1 ELSE Len(locals)
ForStarted(variable) ==
    IF variable THEN code \o Value(ForDepth(variable), Len(locals)) ELSE code
ForTested(variable, condition) ==
    IF condition THEN ForStarted(variable) \o Temporary(ForDepth(variable))
                                           \o emit_jump("JUMP_IF_FALSE", 0) \o Pop
    ELSE ForStarted(variable)
ForStep(variable, condition) ==
    ForTested(variable, condition) \o emit_jump("JUMP", 0) \o Temporary(ForDepth(variable)) \o Pop
ForStepped(variable, condition) ==
    emit_loop(ForStep(variable, condition), Len(ForStarted(variable)), NewLoop)
ForItem(at) == [kind |-> "for", level |-> scope, at |-> at, loop |-> NewLoop]
ForLocal(c) == [level |-> scope + 1, captured |-> c]

LEMMA ForBeginIs ==
    ForBegin =>
    \E variable, condition, increment \in BOOLEAN :
       /\ IF increment
          THEN /\ code' = patch_jump(ForStepped(variable, condition), Len(ForTested(variable, condition)))
               /\ open' = Append(open, ForItem(Len(ForTested(variable, condition)) + Size("JUMP")))
          ELSE /\ code' = ForTested(variable, condition)
               /\ open' = Append(open, ForItem(Len(ForStarted(variable))))
       /\ IF variable
          THEN \E c \in Captures : /\ "captured counter" \in Programs \/ ~c
                                   /\ locals' = Append(locals, ForLocal(c))
          ELSE locals' = locals
BY Zenon DEF ForBegin, ForDepth, ForStarted, ForTested, ForStep, ForStepped, ForItem, ForLocal, Open, NewLoop

(* The lengths of them.                                                     *)
LEMMA ForLengths ==
    ASSUME code \in Codes, Len(locals) \in Nat, Len(loops) \in Nat,
           NEW variable \in BOOLEAN, NEW condition \in BOOLEAN
    PROVE  LET started == ForStarted(variable)
               tested  == ForTested(variable, condition)
               stepped == ForStepped(variable, condition)
           IN  /\ ForDepth(variable) \in Nat
               /\ started \in Codes /\ Longer(code, started) /\ Len(started) \in Nat
               /\ tested \in Codes /\ Longer(code, tested) /\ Len(tested) \in Nat
               /\ Len(started) <= Len(tested)
               /\ ForStep(variable, condition) \in Codes
               /\ Len(ForStep(variable, condition)) = Len(tested) + 6
               /\ stepped \in Codes /\ Longer(code, stepped) /\ Len(stepped) = Len(tested) + 9
<1> DEFINE depth == ForDepth(variable)
           started == ForStarted(variable)
           tested == ForTested(variable, condition)
           step == ForStep(variable, condition)
<1>1. depth \in Nat
  BY DEF ForDepth
<1>2. Len(code) \in Nat /\ NewLoop \in Nat
  BY DEF Codes, NewLoop
<1>3. started \in Codes /\ Len(code) <= Len(started) /\ Len(started) \in Nat
  <2> HIDE DEF depth
  <2> DEFINE v == code \o Value(depth, Len(locals))
  <2>1. v \in Codes /\ Len(v) = Len(code) + 2
    BY <1>1, PiecesAre DEF Longer
  <2>2. started = v \/ started = code
    BY Zenon DEF ForStarted, depth
  <2> HIDE DEF started, v
  <2>3. QED BY <1>2, <2>1, <2>2
<1> HIDE DEF depth, started
<1>4. tested \in Codes /\ Len(started) <= Len(tested) /\ Len(tested) \in Nat
  <2> DEFINE a == started \o Temporary(depth)
             b == a \o emit_jump("JUMP_IF_FALSE", 0)
             e == b \o Pop
  <2>1. a \in Codes /\ Len(a) = Len(started) + 2
    BY <1>1, <1>3, PiecesAre DEF Longer
  <2> HIDE DEF a
  <2>2. b \in Codes /\ Len(b) = Len(a) + 3
    BY <2>1, PiecesAre DEF Longer
  <2> HIDE DEF b
  <2>3. e \in Codes /\ Len(e) = Len(b) + 1
    BY <2>2, PiecesAre DEF Longer
  <2> HIDE DEF e
  <2>4. CASE condition
    <3>1. tested = e
      BY <2>4 DEF ForTested, started, depth, a, b, e
    <3>2. QED BY <1>3, <2>1, <2>2, <2>3, <3>1
  <2>5. CASE ~condition
    BY <1>3, <2>5 DEF ForTested, started
  <2>6. QED BY <2>4, <2>5
<1> HIDE DEF tested
<1>5. step \in Codes /\ Len(step) = Len(tested) + 6
  <2> DEFINE a == tested \o emit_jump("JUMP", 0)
             b == a \o Temporary(depth)
             e == b \o Pop
  <2>1. a \in Codes /\ Len(a) = Len(tested) + 3
    BY <1>4, PiecesAre DEF Longer
  <2> HIDE DEF a
  <2>2. b \in Codes /\ Len(b) = Len(a) + 2
    BY <1>1, <2>1, PiecesAre DEF Longer
  <2> HIDE DEF b
  <2>3. e \in Codes /\ Len(e) = Len(b) + 1
    BY <2>2, PiecesAre DEF Longer
  <2> HIDE DEF e
  <2>4. step = e
    BY DEF ForStep, tested, depth, a, b, e
  <2>5. QED BY <1>4, <2>1, <2>2, <2>3, <2>4
<1> HIDE DEF step
<1> DEFINE stepped == emit_loop(step, Len(started), NewLoop)
<1>6. stepped \in Codes /\ Len(stepped) = Len(tested) + 9
  <2>1. Len(started) \in Int
    BY <1>3
  <2>2. stepped \in Codes /\ Len(stepped) = Len(step) + 3
    BY <1>2, <1>5, <2>1, PiecesAre DEF Longer
  <2> HIDE DEF stepped
  <2>3. QED BY <1>4, <1>5, <2>2
<1>7. stepped = ForStepped(variable, condition)
  BY DEF ForStepped, step, started
<1> HIDE DEF stepped
<1>8. Len(code) <= Len(tested) /\ Len(code) <= Len(stepped)
  BY <1>2, <1>3, <1>4, <1>6
<1>9. Longer(code, started) /\ Longer(code, tested) /\ Longer(code, stepped)
  BY <1>3, <1>4, <1>6, <1>8 DEF Longer
<1>10. QED BY <1>1, <1>3, <1>4, <1>5, <1>6, <1>7, <1>9 DEF depth, started, tested, step

LEMMA ForBeginScoped ==
    Programs = {} /\ Scoped /\ ForBegin => Scoped' /\ Longer(code, code')
<1> SUFFICES ASSUME Programs = {}, Scoped, ForBegin PROVE Scoped' /\ Longer(code, code')
  OBVIOUS
<1>1. /\ code \in Codes /\ Len(code) \in Nat /\ locals \in Seq(Locals) /\ Len(locals) \in Nat
      /\ scope \in Nat /\ open \in Seq(Items) /\ loops \in Seq(Ranges)
      /\ Nested(open, locals, scope)
  BY ScopedIs
<1>2. Blocks(open)
  BY StartIsPlain DEF ForBegin
<1>3. scope' = scope + 2 /\ loops' = Append(loops, [top |-> Len(code), bottom |-> 0, after |-> 0])
  BY DEF ForBegin
<1>4. PICK variable, condition, increment \in BOOLEAN :
       /\ IF increment
          THEN /\ code' = patch_jump(ForStepped(variable, condition), Len(ForTested(variable, condition)))
               /\ open' = Append(open, ForItem(Len(ForTested(variable, condition)) + Size("JUMP")))
          ELSE /\ code' = ForTested(variable, condition)
               /\ open' = Append(open, ForItem(Len(ForStarted(variable))))
       /\ IF variable
          THEN \E c \in Captures : /\ "captured counter" \in Programs \/ ~c
                                   /\ locals' = Append(locals, ForLocal(c))
          ELSE locals' = locals
  BY ForBeginIs
<1> DEFINE started == ForStarted(variable)
           tested == ForTested(variable, condition)
           stepped == ForStepped(variable, condition)
<1>5. /\ Len(started) \in Nat /\ tested \in Codes /\ Longer(code, tested) /\ Len(tested) \in Nat
      /\ stepped \in Codes /\ Longer(code, stepped) /\ Len(stepped) = Len(tested) + 9
  <2>1. Len(loops) \in Nat
    BY <1>1
  <2>2. QED BY <1>1, <2>1, ForLengths
<1> HIDE DEF started, tested, stepped
<1>6. PICK at \in Nat : open' = Append(open, ForItem(at))
  <2>1. Len(tested) + Size("JUMP") \in Nat
    BY <1>5, SizeIs
  <2>2. QED BY <1>4, <1>5, <2>1 DEF started, tested
<1>7. Longer(code, code')
  <2>1. CASE increment
    <3>1. code' = patch_jump(stepped, Len(tested))
      BY <1>4, <2>1 DEF stepped, tested
    <3>2. Len(tested) < Len(stepped)
      BY <1>5
    <3>3. stepped \in Codes => Longer(stepped, code')
      BY <1>5, <3>1, <3>2, PatchLonger
    <3>4. QED BY <1>1, <1>5, <3>3, LongerOn
  <2>2. CASE ~increment
    BY <1>4, <1>5, <2>2 DEF tested
  <2>3. QED BY <2>1, <2>2
<1>8. /\ loops' \in Seq(Ranges) /\ NewLoop \in Nat
      /\ NewLoop \in DOMAIN loops' /\ loops'[NewLoop].after = 0
  BY <1>1, <1>3, RangeIs DEF NewLoop
<1> DEFINE it == ForItem(at)
<1>9. it \in Items /\ it.level = scope /\ Inside(it) = scope + 2 /\ it.loop = NewLoop /\ it.kind = "for"
  BY <1>1, <1>8 DEF Items, Kinds, Inside, LoopKinds, ForItem
<1> HIDE DEF it
<1>10. /\ locals' \in Seq(Locals) /\ Nested(open', locals', scope')
       /\ \A k \in 1..Len(locals') : locals'[k].level = scope + 1 => locals'[k].captured = FALSE
  <2>1. \A k \in 1..Len(locals) : locals[k].level \in Nat /\ locals[k].level <= scope
    BY <1>1, LevelIs DEF Nested
  <2>2. Nested(open', locals, scope') /\ open' \in Seq(Items) /\ scope' \in Nat
    <3>1. open' = Append(open, it)
      BY <1>6 DEF it
    <3>2. Nested(Append(open, it), locals, Inside(it))
      BY <1>1, <1>9, NestedBegin
    <3>3. Append(open, it) \in Seq(Items)
      BY <1>1, <1>9, AppendIs
    <3>4. scope' \in Nat /\ scope' = Inside(it)
      BY <1>1, <1>3, <1>9
    <3>5. QED BY <3>1, <3>2, <3>3, <3>4
  <2>3. CASE locals' = locals
    BY <1>1, <2>1, <2>2, <2>3
  <2>4. CASE variable
    <3>1. PICK c \in Captures : ~c /\ locals' = Append(locals, ForLocal(c))
      BY <1>4, <2>4
    <3> DEFINE l == ForLocal(c)
    <3>2. l \in Locals /\ l.level = scope + 1 /\ l.captured = FALSE
      <4>1. c \in BOOLEAN
        BY LoopsAssumption
      <4>2. c = FALSE
        BY <3>1, <4>1, Zenon
      <4>3. scope + 1 \in Nat
        BY <1>1
      <4>4. l \in Locals
        BY <4>1, <4>3, Zenon DEF Locals, ForLocal
      <4>5. l.level = scope + 1
        BY DEF ForLocal
      <4>6. l.captured = FALSE
        BY <4>2, Zenon DEF ForLocal
      <4>7. QED BY <4>4, <4>5, <4>6
    <3>3. locals' = Append(locals, l)
      BY <3>1
    <3> HIDE DEF l
    <3>4. \A i \in 1..Len(locals) : locals[i].level <= l.level
      BY <1>1, <2>1, <3>2
    <3>5. l.level <= scope'
      BY <1>1, <1>3, <3>2
    <3>6. Nested(open', locals', scope')
      BY <1>1, <2>2, <3>2, <3>3, <3>4, <3>5, NestedLocal
    <3>7. locals' \in Seq(Locals) /\ Len(locals') = Len(locals) + 1
          /\ locals'[Len(locals) + 1] = l /\ \A i \in 1..Len(locals) : locals'[i] = locals[i]
      BY <1>1, <3>2, <3>3, AppendIs
    <3>8. QED BY <1>1, <2>1, <3>2, <3>6, <3>7
  <2>5. QED BY <1>4, <2>3, <2>4
<1>11. Placed(it, locals', loops', Len(code'))
  BY <1>8, <1>9, <1>10 DEF Placed
<1>12. Standing(open', locals', loops', Len(code'))
  <2>1. Standing(open, locals', loops', Len(code'))
    BY <1>2, StandingBlocks
  <2>2. QED BY <1>1, <1>2, <1>6, <1>9, <1>11, <2>1, StandingBegin DEF it
<1>13. open' \in Seq(Items)
  BY <1>1, <1>6, <1>9, AppendIs DEF it
<1>14. QED BY <1>1, <1>3, <1>7, <1>8, <1>10, <1>12, <1>13 DEF Scoped, Longer

LEMMA ScopedStep == Programs = {} /\ Scoped /\ LoopsNext => Scoped' /\ (code' = code \/ Longer(code, code'))
<1> SUFFICES ASSUME Programs = {}, Scoped, LoopsNext PROVE Scoped' /\ (code' = code \/ Longer(code, code'))
  OBVIOUS
<1>1. CASE VarDeclaration
  BY <1>1, VarScoped
<1>2. CASE ExpressionStatement
  BY <1>2, ExpressionScoped
<1>3. CASE BlockBegin
  BY <1>3, BlockBeginScoped
<1>4. CASE BlockEnd
  BY <1>4, BlockEndScoped
<1>5. CASE IfBegin
  BY <1>5, IfBeginScoped
<1>6. CASE ThenEnd
  BY <1>6, ThenEndScoped
<1>7. CASE ElseEnd
  BY <1>7, ElseEndScoped
<1>8. CASE WhileBegin
  BY <1>8, WhileBeginScoped
<1>9. CASE WhileEnd
  BY <1>9, WhileEndScoped
<1>10. CASE ForBegin
  BY <1>10, ForBeginScoped
<1>11. CASE ForEnd
  BY <1>11, ForEndScoped
<1>12. CASE ContinueStatement
  BY <1>12, ContinueScoped
<1>13. CASE BreakStatement
  BY <1>13, BreakScoped
<1>14. CASE End
  BY <1>14, EndIsScoped
<1>15. CASE Run
  BY <1>15, RunScoped
<1>16. QED BY <1>1, <1>2, <1>3, <1>4, <1>5, <1>6, <1>7, <1>8, <1>9, <1>10, <1>11, <1>12, <1>13, <1>14, <1>15
           DEF LoopsNext, Compile

-----------------------------------------------------------------------------
(* The code that is written so far is that of the statements that are not     *)
(* finished, and an expression that followed would find the locals in scope.  *)
Wrote == Writes(code, Ident(Len(locals)), ItemSet(open), locals, loops)

LEMMA DepthIs ==
    ASSUME NEW ls \in Seq(Locals), Sorted(ls), NEW it, it.level \in Nat
    PROVE  Depth(ls, it) \in 0..Len(ls) /\ LoopScopeLevel(it) \in Nat
<1> DEFINE lv == LoopScopeLevel(it)
<1>1. lv \in Nat
  BY DEF LoopScopeLevel
<1> HIDE DEF lv
<1>2. Len(Kept(ls, lv)) \in 0..Len(ls)
  BY <1>1, KeptIs
<1>3. QED BY <1>1, <1>2 DEF Depth, lv

(* A statement that begins here goes on with all the locals in scope.        *)
LEMMA DepthAll ==
    ASSUME NEW ops, NEW ls \in Seq(Locals), NEW level \in Nat, Nested(ops, ls, level),
           NEW it, LoopScopeLevel(it) \in Nat, level <= LoopScopeLevel(it)
    PROVE  Depth(ls, it) = Len(ls)
<1> DEFINE lv == LoopScopeLevel(it)
<1>1. lv \in Nat /\ level <= lv
  OBVIOUS
<1> HIDE DEF lv
<1>2. \A i \in 1..Len(ls) : ls[i].level \in Nat /\ ls[i].level <= level
  BY LevelIs DEF Nested
<1>3. \A i \in 1..Len(ls) : ls[i].level <= lv
  BY <1>1, <1>2
<1>4. Kept(ls, lv) = ls
  BY <1>1, <1>3, KeptAll
<1>5. QED BY <1>4 DEF Depth, lv

LEMMA ItemSetIs ==
    ASSUME NEW ops \in Seq(Items), NEW ls, NEW level, Nested(ops, ls, level), NEW it \in ItemSet(ops)
    PROVE  /\ it \in Items /\ it.kind \in Kinds /\ it.level \in Nat /\ it.at \in Nat /\ it.loop \in Nat
           /\ Inside(it) \in Nat /\ Inside(it) <= level
           /\ LoopScopeLevel(it) \in Nat /\ LoopScopeLevel(it) < Inside(it)
<1>1. PICK i \in 1..Len(ops) : it = ops[i]
  BY DEF ItemSet
<1>2. /\ it \in Items /\ it.kind \in Kinds /\ it.level \in Nat /\ it.at \in Nat /\ it.loop \in Nat
      /\ Inside(it) \in Nat
  BY <1>1, ItemIs
<1>3. Inside(it) <= level
  BY <1>1 DEF Nested
<1>4. LoopScopeLevel(it) \in Nat /\ LoopScopeLevel(it) < Inside(it)
  BY <1>2 DEF LoopScopeLevel, Inside, LoopKinds
<1>5. QED BY <1>2, <1>3, <1>4

(* A local is added to the innermost scope.                                  *)
LEMMA LocalWrites ==
    ASSUME NEW ops \in Seq(Items), NEW ls \in Seq(Locals), NEW level \in Nat, Nested(ops, ls, level),
           NEW l \in Locals, l.level = level,
           NEW c, NEW s, NEW lps, Writes(c, s, ItemSet(ops), ls, lps)
    PROVE  Writes(c, s, ItemSet(ops), Append(ls, l), lps)
<1> DEFINE its == ItemSet(ops)
           now == Append(ls, l)
<1>1. Sorted(ls)
  BY DEF Nested
<1>2. ASSUME NEW it \in its PROVE Depth(now, it) = Depth(ls, it)
  <2> DEFINE lv == LoopScopeLevel(it)
  <2>1. lv \in Nat /\ lv < level
    <3>1. /\ Inside(it) \in Nat /\ Inside(it) <= level
          /\ LoopScopeLevel(it) \in Nat /\ LoopScopeLevel(it) < Inside(it)
      BY <1>2, ItemSetIs
    <3>2. QED BY <3>1
  <2> HIDE DEF lv
  <2>2. l.level > lv
    BY <2>1
  <2>3. Len(Kept(Append(ls, l), lv)) = Len(Kept(ls, lv))
    BY <1>1, <2>1, <2>2, KeptAppend
  <2>4. QED BY <2>3 DEF Depth, lv
<1> HIDE DEF its, now
<1>3. Writes(c, s, its, ls, lps)
  BY DEF its
<1>4. /\ \A it \in its : it.kind = "block" \/ it \in its
      /\ \A it \in its : it.kind = "block" \/ Depth(now, it) = Depth(ls, it)
  BY <1>2
<1>5. Writes(c, s, its, now, lps)
  BY <1>3, <1>4, Rescope
<1>6. QED BY <1>5 DEF its, now

(* The innermost statement ends: its has the others, and what is not a block  *)
(* of them.                                                                *)
LEMMA EndWrites ==
    ASSUME NEW ops \in Seq(Items), NEW ls \in Seq(Locals), NEW level \in Nat, Nested(ops, ls, level),
           ops # <<>>, NEW c, NEW s, NEW lps, NEW its, Writes(c, s, its, ls, lps),
           \A it \in its : it.kind = "block" \/ it \in ItemSet(SubSeq(ops, 1, Len(ops) - 1)),
           \A it \in ItemSet(SubSeq(ops, 1, Len(ops) - 1)) : it.kind = "block" \/ it \in its
    PROVE  Writes(c, s, ItemSet(SubSeq(ops, 1, Len(ops) - 1)), Kept(ls, ops[Len(ops)].level), lps)
<1> DEFINE out == SubSeq(ops, 1, Len(ops) - 1)
           at == ops[Len(ops)].level
           now == Kept(ls, at)
           more == ItemSet(out)
<1>1. at \in Nat /\ Nested(out, now, at) /\ out \in Seq(Items) /\ Sorted(ls)
  <2>1. ops[Len(ops)].level \in Nat /\ Nested(out, now, at)
    BY NestedEnd
  <2>2. out \in Seq(Items)
    BY FrontIs
  <2>3. QED BY <2>1, <2>2 DEF Nested
<1>2. /\ \A it \in its : it.kind = "block" \/ it \in more
      /\ \A it \in more : it.kind = "block" \/ it \in its
  OBVIOUS
<1> HIDE DEF at, out
<1>3. ASSUME NEW it \in more PROVE Depth(now, it) = Depth(ls, it)
  <2> DEFINE lv == LoopScopeLevel(it)
  <2>1. lv \in Nat /\ lv <= at
    <3> HIDE DEF now
    <3>1. /\ Inside(it) \in Nat /\ Inside(it) <= at
          /\ LoopScopeLevel(it) \in Nat /\ LoopScopeLevel(it) < Inside(it)
      BY <1>1, <1>3, ItemSetIs
    <3>2. QED BY <1>1, <3>1
  <2> HIDE DEF lv
  <2>2. Len(Kept(Kept(ls, at), lv)) = Len(Kept(ls, lv))
    BY <1>1, <2>1, KeptKept
  <2>3. QED BY <2>2 DEF Depth, lv
<1> HIDE DEF more, now
<1>4. Writes(c, s, more, now, lps)
  BY <1>2, <1>3, Rescope
<1>5. QED BY <1>4 DEF more, now, out, at

LEMMA VarWrites == Scoped /\ Wrote /\ VarDeclaration => Wrote'
<1> SUFFICES ASSUME Scoped, Wrote, VarDeclaration PROVE Wrote'
  OBVIOUS
<1> DEFINE n == Len(locals)
           its == ItemSet(open)
<1>1. /\ locals \in Seq(Locals) /\ n \in Nat
      /\ scope \in Nat /\ open \in Seq(Items) /\ Nested(open, locals, scope)
  BY ScopedIs
<1>2. open' = open /\ loops' = loops
  BY DEF VarDeclaration
<1>3. Writes(code, Ident(n), its, locals, loops)
  BY DEF Wrote
<1>4. Ident(n) \in Seq(Nat) /\ Append(Ident(n), n + 1) = Ident(n + 1)
  <2> HIDE DEF n
  <2>1. QED BY <1>1, IdentIs
<1>5. CASE scope = 0
  <2> HIDE DEF its, n
  <2> DEFINE b == code \o Value(0, n)
             s == Append(Ident(n), 0)
  <2>1. Writes(b, s, its, locals, loops)
    BY <1>1, <1>3, ValueWrites
  <2>2. code' = b \o Instruction(Cell("DEFINE_GLOBAL", 0, 0, 0, 0)) /\ locals' = locals
    BY <1>5 DEF VarDeclaration, Temporary, n
  <2>3. s # <<>> /\ SubSeq(s, 1, Len(s) - 1) = Ident(n)
    BY <1>4, AppendFront
  <2> HIDE DEF b, s
  <2>4. Writes(code', SubSeq(s, 1, Len(s) - 1), its, locals, loops)
    BY <2>1, <2>2, <2>3, DiscardWrites
  <2>5. QED BY <1>2, <2>2, <2>3, <2>4 DEF Wrote, its, n
<1>6. CASE scope # 0
  <2>1. PICK c \in Captures : locals' = Append(locals, [level |-> scope, captured |-> c])
    BY <1>6 DEF VarDeclaration
  <2> DEFINE l == [level |-> scope, captured |-> c]
  <2>2. l \in Locals /\ l.level = scope
    BY <1>1, <2>1, LoopsAssumption DEF Locals
  <2>3. code' = code \o Value(n + 1, n)
    BY <1>6 DEF VarDeclaration
  <2>4. locals' = Append(locals, l)
    BY <2>1
  <2> HIDE DEF l
  <2>5. Writes(code', Ident(n + 1), its, locals, loops)
    <3> HIDE DEF n, its
    <3>1. n + 1 \in Nat
      BY <1>1
    <3>2. Writes(code', Append(Ident(n), n + 1), its, locals, loops)
      BY <1>1, <1>3, <2>3, <3>1, ValueWrites
    <3>3. QED BY <1>4, <3>2
  <2>6. Writes(code', Ident(n + 1), its, locals', loops)
    BY <1>1, <2>2, <2>4, <2>5, LocalWrites
  <2>7. Len(locals') = n + 1
    BY <1>1, <2>2, <2>4, AppendIs
  <2>8. QED BY <1>2, <2>6, <2>7 DEF Wrote
<1>7. QED BY <1>5, <1>6

LEMMA ExpressionWrites == Scoped /\ Wrote /\ ExpressionStatement => Wrote'
<1> SUFFICES ASSUME Scoped, Wrote, ExpressionStatement PROVE Wrote'
  OBVIOUS
<1> DEFINE n == Len(locals)
           its == ItemSet(open)
<1>1. n \in Nat
  BY ScopedIs
<1>2. open' = open /\ loops' = loops /\ locals' = locals
  BY DEF ExpressionStatement
<1>3. Writes(code, Ident(n), its, locals, loops)
  BY DEF Wrote
<1> DEFINE b == code \o Value(0, n)
<1>4. code' = b \o Pop
  BY DEF ExpressionStatement, Temporary
<1> HIDE DEF n, its
<1>5. Ident(n) \in Seq(Nat)
  BY <1>1, IdentIs
<1>6. Writes(b, Append(Ident(n), 0), its, locals, loops)
  BY <1>1, <1>3, ValueWrites
<1> HIDE DEF b
<1>7. Writes(code', Ident(n), its, locals, loops)
  BY <1>4, <1>5, <1>6, PopWrites
<1>8. QED BY <1>2, <1>7 DEF Wrote, n, its

LEMMA BlockBeginWrites == Scoped /\ Wrote /\ BlockBegin => Wrote'
<1> SUFFICES ASSUME Scoped, Wrote, BlockBegin PROVE Wrote'
  OBVIOUS
<1> DEFINE its == ItemSet(open)
           it == [kind |-> "block", level |-> scope, at |-> 0, loop |-> 0]
           more == its \cup {it}
<1>1. scope \in Nat /\ open \in Seq(Items)
  BY ScopedIs
<1>2. code' = code /\ locals' = locals /\ loops' = loops /\ open' = Append(open, it)
  BY DEF BlockBegin, Open
<1>3. it \in Items /\ it.kind = "block"
  BY <1>1 DEF Items, Kinds
<1> HIDE DEF it
<1>4. ItemSet(open') = more
  BY <1>1, <1>2, <1>3, ItemSetAppend
<1>5. Writes(code, Ident(Len(locals)), its, locals, loops)
  BY DEF Wrote
<1> HIDE DEF its
<1>6. /\ \A jt \in its : jt.kind = "block" \/ jt \in more
      /\ \A jt \in more : jt.kind = "block" \/ jt \in its
      /\ \A jt \in more : jt.kind = "block" \/ Depth(locals, jt) = Depth(locals, jt)
  BY <1>3
<1> HIDE DEF more
<1>7. Writes(code, Ident(Len(locals)), more, locals, loops)
  BY <1>5, <1>6, Rescope
<1>8. QED BY <1>2, <1>4, <1>7 DEF Wrote

LEMMA BlockEndWrites == Scoped /\ Wrote /\ BlockEnd => Wrote'
<1> SUFFICES ASSUME Scoped, Wrote, BlockEnd PROVE Wrote'
  OBVIOUS
<1> DEFINE its == ItemSet(open)
           at == Innermost.level
           out == ItemSet(Outer)
<1>1. /\ locals \in Seq(Locals) /\ Sorted(locals) /\ open \in Seq(Items) /\ scope \in Nat
      /\ Nested(open, locals, scope)
  BY ScopedIs
<1>2. /\ open # <<>> /\ Innermost.kind = "block" /\ open' = Outer /\ loops' = loops
      /\ code' = code \o scope_exit(locals, at)
      /\ locals' = Kept(locals, at)
  BY DEF BlockEnd, Ends
<1>3. at \in Nat
  BY <1>2, InnermostIs
<1>4. Writes(code, Ident(Len(locals)), its, locals, loops)
  BY DEF Wrote
<1>5. out = its \ {Innermost}
  BY <1>1, <1>2, ItemSetFront DEF Outer, Innermost
<1> HIDE DEF its, at, out
<1>6. Writes(code', Ident(Len(locals')), its, locals, loops)
  BY <1>1, <1>2, <1>3, <1>4, ExitWrites
<1>7. (\A it \in its : it.kind = "block" \/ it \in out) /\ (\A it \in out : it.kind = "block" \/ it \in its)
  BY <1>2, <1>5
<1>8. Writes(code', Ident(Len(locals')), out, Kept(locals, at), loops)
  BY <1>1, <1>2, <1>6, <1>7, EndWrites DEF out, at, Outer, Innermost
<1>9. QED BY <1>2, <1>8 DEF Wrote, out

LEMMA IfBeginWrites == Scoped /\ Wrote /\ IfBegin => Wrote'
<1> SUFFICES ASSUME Scoped, Wrote, IfBegin PROVE Wrote'
  OBVIOUS
<1> DEFINE its == ItemSet(open)
           n == Len(locals)
           a == code \o Value(0, n)
           b == a \o emit_jump("JUMP_IF_FALSE", 0)
           it == [kind |-> "then", level |-> scope, at |-> Len(a), loop |-> 0]
<1>1. /\ code \in Codes /\ locals \in Seq(Locals) /\ n \in Nat /\ open \in Seq(Items) /\ scope \in Nat
      /\ Nested(open, locals, scope)
  BY ScopedIs
<1>2. code' = b \o Pop /\ locals' = locals /\ loops' = loops /\ open' = Append(open, it)
  BY DEF IfBegin, Open, Temporary
<1>3. Len(a) \in Nat
  BY <1>1, PiecesAre DEF Longer, Codes
<1> HIDE DEF a
<1>4. it \in Items /\ it.kind = "then" /\ it.at = Len(a) /\ it.level = scope
  BY <1>1, <1>3 DEF Items, Kinds
<1> HIDE DEF it
<1>5. Depth(locals, it) = n
  <2>1. LoopScopeLevel(it) = scope
    BY <1>4 DEF LoopScopeLevel
  <2>2. LoopScopeLevel(it) \in Nat /\ scope <= LoopScopeLevel(it)
    BY <1>1, <2>1
  <2>3. QED BY <1>1, <2>2, DepthAll
<1>6. Writes(code, Ident(n), its, locals, loops)
  BY DEF Wrote
<1>7. ItemSet(open') = its \cup {it}
  BY <1>1, <1>2, <1>4, ItemSetAppend
<1> HIDE DEF its, n, b
<1>8. Ident(n) \in Seq(Nat)
  BY <1>1, IdentIs
<1> DEFINE s == Append(Ident(n), 0)
<1>9. Writes(a, s, its, locals, loops)
  BY <1>1, <1>6, ValueWrites DEF a
<1>10. s = Append(Ident(Depth(locals, it)), 0)
  BY <1>5
<1> HIDE DEF s
<1>11. Writes(b, s, its \cup {it}, locals, loops)
  BY <1>4, <1>9, <1>10, ThenWrites DEF b
<1>12. Writes(code', Ident(n), its \cup {it}, locals, loops)
  BY <1>2, <1>8, <1>11, PopWrites DEF s
<1>13. QED BY <1>2, <1>7, <1>12 DEF Wrote, n

LEMMA ElseEndWrites ==
    Scoped /\ Wrote /\ ElseEnd /\ Len(code') < DUMMY_JUMP_TARGET => Wrote'
<1> SUFFICES ASSUME Scoped, Wrote, ElseEnd, Len(code') < DUMMY_JUMP_TARGET PROVE Wrote'
  OBVIOUS
<1> DEFINE its == ItemSet(open)
           at == Innermost.level
           out == ItemSet(Outer)
           body == code \o scope_exit(locals, at)
           k == Len(Kept(locals, at))
<1>1. /\ code \in Codes /\ locals \in Seq(Locals) /\ Sorted(locals) /\ open \in Seq(Items) /\ scope \in Nat
      /\ Nested(open, locals, scope)
  BY ScopedIs
<1>2. /\ open # <<>> /\ Innermost.kind = "else" /\ open' = Outer /\ loops' = loops
      /\ code' = patch_jump(body, Innermost.at)
      /\ locals' = Kept(locals, at)
  BY DEF ElseEnd, Ends
<1>3. at \in Nat /\ Innermost.at \in Nat /\ Placed(Innermost, locals, loops, Len(code))
  BY <1>2, InnermostIs
<1>4. Writes(code, Ident(Len(locals)), its, locals, loops)
  BY DEF Wrote
<1>5. out = its \ {Innermost} /\ Innermost \in its
  BY <1>1, <1>2, ItemSetFront DEF Outer, Innermost
<1>6. Depth(locals, Innermost) = k
  <2>1. LoopScopeLevel(Innermost) = at
    BY <1>2 DEF LoopScopeLevel
  <2>2. QED BY <2>1 DEF Depth
<1> HIDE DEF its, at, out
<1>7. Writes(body, Ident(k), its, locals, loops)
  BY <1>1, <1>3, <1>4, ExitWrites
<1>8. Len(body) < DUMMY_JUMP_TARGET
  <2>1. Longer(code, body)
    BY <1>1, <1>3, ExitLonger
  <2> HIDE DEF body
  <2>2. Innermost.at < Len(code)
    BY <1>2, <1>3 DEF Placed
  <2>3. body \in Codes /\ Innermost.at < Len(body)
    BY <1>1, <1>3, <2>1, <2>2 DEF Longer, Codes
  <2>4. Len(code') = Len(body)
    BY <1>2, <1>3, <2>3, PatchLonger
  <2>5. QED BY <2>4
<1> HIDE DEF body, k
<1>9. Innermost.kind = "else" /\ Ident(k) = Ident(Depth(locals, Innermost))
  BY <1>2, <1>6
<1>10. Writes(code', Ident(k), its \ {Innermost}, locals, loops)
  BY <1>2, <1>5, <1>7, <1>8, <1>9, PatchWrites
<1>11. Writes(code', Ident(k), out, locals, loops)
  BY <1>5, <1>10
<1>12. (\A it \in out : it.kind = "block" \/ it \in out)
  OBVIOUS
<1>13. Writes(code', Ident(k), out, Kept(locals, at), loops)
  BY <1>1, <1>2, <1>11, <1>12, EndWrites DEF out, at, Outer, Innermost
<1>14. QED BY <1>2, <1>13 DEF Wrote, out, k

LEMMA ThenEndWrites ==
    Scoped /\ Wrote /\ ThenEnd /\ Len(code') < DUMMY_JUMP_TARGET => Wrote'
<1> SUFFICES ASSUME Scoped, Wrote, ThenEnd, Len(code') < DUMMY_JUMP_TARGET PROVE Wrote'
  OBVIOUS
<1> DEFINE its == ItemSet(open)
           at == Innermost.level
           out == ItemSet(Outer)
           k == Len(Kept(locals, at))
           s == Append(Ident(k), 0)
           body == code \o scope_exit(locals, at)
           else_jump == Len(body)
           jump == body \o emit_jump("JUMP", 0)
           over == patch_jump(jump, Innermost.at)
           skipped == over \o Pop
           it == [Innermost EXCEPT !.kind = "else", !.at = else_jump]
<1>1. /\ code \in Codes /\ locals \in Seq(Locals) /\ Sorted(locals) /\ open \in Seq(Items) /\ scope \in Nat
      /\ Nested(open, locals, scope)
  BY ScopedIs
<1>2. /\ open # <<>> /\ Innermost.kind = "then" /\ loops' = loops
      /\ locals' = Kept(locals, at)
      /\ \/ code' = patch_jump(skipped, else_jump) /\ open' = Outer
         \/ code' = skipped /\ open' = Append(Outer, it)
  BY DEF ThenEnd
<1>3. /\ Innermost \in Items /\ at \in Nat /\ Innermost.at \in Nat /\ Outer \in Seq(Items)
      /\ Placed(Innermost, locals, loops, Len(code))
  BY <1>2, InnermostIs
<1>4. Innermost.at < Len(code)
  BY <1>2, <1>3 DEF Placed
<1>5. Writes(code, Ident(Len(locals)), its, locals, loops)
  BY DEF Wrote
<1>6. /\ out = its \ {Innermost} /\ Innermost \in its
      /\ \A jt \in out : jt.level < at
  BY <1>1, <1>2, ItemSetFront DEF Outer, Innermost
<1>7. Longer(code, body) /\ body \in Codes /\ Len(body) \in Nat
  BY <1>1, <1>3, ExitLonger DEF Longer
<1>8. it \in Items /\ it.kind = "else" /\ it.at = Len(body) /\ it.level = at
  <2> HIDE DEF body
  <2>1. QED BY <1>3, <1>7 DEF Items, Kinds
<1> HIDE DEF it
<1>9. Depth(locals, Innermost) = k /\ Depth(locals, it) = k
  <2>1. LoopScopeLevel(Innermost) = at /\ LoopScopeLevel(it) = at
    BY <1>2, <1>8 DEF LoopScopeLevel
  <2>2. QED BY <2>1 DEF Depth
<1>10. k \in Nat
  <2>1. Len(Kept(locals, at)) \in 0..Len(locals)
    BY <1>1, <1>3, KeptIs
  <2>2. QED BY <1>1, <2>1
<1> HIDE DEF its, at, out
<1>11. Writes(body, Ident(k), its, locals, loops)
  BY <1>1, <1>3, <1>5, ExitWrites
<1> HIDE DEF body
<1>12. jump \in Codes /\ Len(jump) = Len(body) + 3
  BY <1>7, PiecesAre DEF Longer
<1>13. Innermost.at < Len(jump)
  BY <1>1, <1>3, <1>4, <1>7, <1>12 DEF Longer, Codes
<1> HIDE DEF k
<1>14. Ident(k) \in Seq(Nat) /\ s \in Seq(Nat)
  <2>1. Ident(k) \in Seq(Nat)
    BY <1>10, IdentIs
  <2>2. QED BY <2>1, AppendFront
<1> HIDE DEF s
<1>15. Writes(jump, s, its \cup {it}, locals, loops)
  <2>1. Writes(body, Ident(Depth(locals, it)), its, locals, loops)
    BY <1>9, <1>11
  <2>2. QED BY <1>8, <1>14, <2>1, ElseWrites
<1> HIDE DEF jump
<1>16. over \in Codes /\ Len(over) = Len(jump)
  BY <1>3, <1>12, <1>13, PatchLonger DEF Longer
<1>17. skipped \in Codes /\ Len(skipped) = Len(over) + 1
  <2> HIDE DEF over
  <2>1. QED BY <1>16, PiecesAre DEF Longer
<1>18. Len(code') = Len(skipped)
  <2>1. CASE code' = skipped
    BY <2>1
  <2>2. CASE code' = patch_jump(skipped, else_jump)
    <3>1. else_jump < Len(skipped) /\ else_jump \in Nat
      <4> HIDE DEF skipped, over
      <4>1. QED BY <1>7, <1>12, <1>16, <1>17
    <3> HIDE DEF skipped
    <3>2. QED BY <1>17, <2>2, <3>1, PatchLonger
  <2>3. QED BY <1>2, <2>1, <2>2
<1>19. Len(skipped) < DUMMY_JUMP_TARGET /\ Len(jump) < DUMMY_JUMP_TARGET
  <2>1. Len(skipped) < DUMMY_JUMP_TARGET
    BY <1>18
  <2> HIDE DEF skipped, over
  <2>2. QED BY <1>7, <1>12, <1>16, <1>17, <2>1 DEF DUMMY_JUMP_TARGET
<1> DEFINE both == its \cup {it}
           one  == both \ {Innermost}
           none == one \ {it}
<1>20. Innermost \in both /\ it \in one
  <2>1. it # Innermost
    BY <1>2, <1>8
  <2>2. QED BY <1>6, <2>1
<1> HIDE DEF both
<1>21. Writes(over, s, one, locals, loops)
  <2>1. Innermost.kind = "then" /\ s = Append(Ident(Depth(locals, Innermost)), 0)
    BY <1>2, <1>9 DEF s
  <2>2. Writes(jump, s, both, locals, loops)
    BY <1>15 DEF both
  <2>3. QED BY <1>19, <1>20, <2>1, <2>2, PatchWrites
<1> HIDE DEF one, over
<1>22. Writes(skipped, Ident(k), one, locals, loops)
  BY <1>14, <1>21, PopWrites DEF s
<1> HIDE DEF skipped
<1>23. CASE code' = patch_jump(skipped, else_jump) /\ open' = Outer
  <2>1. it.kind = "else" /\ Ident(k) = Ident(Depth(locals, it)) /\ else_jump = it.at
    BY <1>8, <1>9
  <2>2. Writes(code', Ident(k), none, locals, loops)
    BY <1>19, <1>20, <1>22, <1>23, <2>1, PatchWrites
  <2>3. (\A jt \in none : jt.kind = "block" \/ jt \in out) /\ (\A jt \in out : jt.kind = "block" \/ jt \in none)
    <3>1. it \notin out
      <4>1. ~(at < at)
        BY <1>3
      <4>2. QED BY <1>6, <1>8, <4>1
    <3>2. QED BY <1>6, <3>1 DEF one, both
  <2> HIDE DEF none
  <2>4. Writes(code', Ident(k), out, Kept(locals, at), loops)
    BY <1>1, <1>2, <2>2, <2>3, EndWrites DEF out, at, Outer, Innermost
  <2>5. QED BY <1>2, <1>23, <2>4 DEF Wrote, out, k
<1>24. CASE code' = skipped /\ open' = Append(Outer, it)
  <2>1. ItemSet(open') = out \cup {it}
    BY <1>3, <1>8, <1>24, ItemSetAppend DEF out
  <2>2. one = out \cup {it}
    <3>1. it # Innermost
      BY <1>2, <1>8
    <3>2. QED BY <1>6, <3>1 DEF one, both
  <2>3. Writes(code', Ident(k), out \cup {it}, locals, loops)
    BY <1>22, <1>24, <2>2
  <2> DEFINE now == Kept(locals, at)
  <2>4. Nested(Outer, now, at) /\ Sorted(locals)
    BY <1>1, <1>2, InnermostIs DEF at
  <2>5. ASSUME NEW jt \in out \cup {it} PROVE Depth(now, jt) = Depth(locals, jt)
    <3> DEFINE lv == LoopScopeLevel(jt)
    <3>1. lv \in Nat /\ lv <= at
      <4> HIDE DEF now
      <4>1. CASE jt = it
        BY <1>3, <1>8, <4>1 DEF LoopScopeLevel
      <4>2. CASE jt \in out
        <5>1. /\ Inside(jt) \in Nat /\ Inside(jt) <= at
              /\ LoopScopeLevel(jt) \in Nat /\ LoopScopeLevel(jt) < Inside(jt)
          BY <1>3, <2>4, <4>2, ItemSetIs DEF out
        <5>2. QED BY <1>3, <5>1
      <4>3. QED BY <2>5, <4>1, <4>2
    <3> HIDE DEF lv
    <3>2. Len(Kept(Kept(locals, at), lv)) = Len(Kept(locals, lv))
      BY <1>1, <1>3, <3>1, KeptKept
    <3>3. QED BY <3>2 DEF Depth, lv
  <2> DEFINE more == out \cup {it}
  <2> HIDE DEF now
  <2>6. /\ \A jt \in more : jt.kind = "block" \/ jt \in more
        /\ \A jt \in more : jt.kind = "block" \/ Depth(now, jt) = Depth(locals, jt)
    BY <2>5
  <2>7. Writes(code', Ident(k), more, locals, loops)
    BY <2>3
  <2> HIDE DEF more
  <2>8. Writes(code', Ident(k), more, now, loops)
    BY <2>6, <2>7, Rescope
  <2>9. QED BY <1>2, <2>1, <2>8 DEF Wrote, more, now, k
<1>25. QED BY <1>2, <1>23, <1>24

(* Pops of as many values as there are locals beyond a loop's.               *)
LEMMA PopsWrite ==
    ASSUME NEW c, NEW its, NEW ls, NEW lps, NEW n \in Nat, Writes(c, Ident(n), its, ls, lps),
           NEW k \in 0..n
    PROVE  Writes(c \o [i \in 1..n - k |-> Pop[1]], Ident(k), its, ls, lps)
<1> DEFINE e == [i \in 1..n - k |-> Pop[1]]
           pop == Cell("POP", 0, 0, 0, 0)
<1>1. pop \in Cells /\ pop.op = "POP" /\ pop.loop = 0
  BY CellIs DEF Ops
<1>2. Pop[1] = pop
  BY <1>1, InstructionIs DEF Pop
<1> HIDE DEF pop
<1>3. n - k \in Nat /\ n - (n - k) = k
  OBVIOUS
<1>4. e \in Codes /\ Len(e) = n - k /\ \A i \in 1..n - k : e[i] = pop
  BY <1>1, <1>2, <1>3 DEF Codes
<1> HIDE DEF e
<1>5. /\ Len(Ident(n)) = n /\ Ident(n) \in Seq(Nat) /\ SubSeq(Ident(n), 1, k) = Ident(k)
  BY IdentIs
<1> DEFINE s == Ident(n)
<1> HIDE DEF s
<1>6. Len(s) = n /\ SubSeq(s, 1, k) = Ident(k) /\ Writes(c, s, its, ls, lps)
  BY <1>5 DEF s
<1>7. /\ Len(e) <= Len(s)
      /\ \A i \in 1..Len(e) :
              /\ e[i].op \in {"POP", "CLOSE_UPVALUE"} /\ e[i].loop = 0
              /\ e[i].op = "CLOSE_UPVALUE" => s[Len(s) + 1 - i] = e[i].slot
  BY <1>1, <1>3, <1>4, <1>6
<1>8. Writes(c \o e, SubSeq(s, 1, Len(s) - Len(e)), its, ls, lps)
  BY <1>4, <1>6, <1>7, DiscardsWrite
<1>9. Len(s) - Len(e) = k
  BY <1>3, <1>4, <1>6
<1>10. QED BY <1>6, <1>8, <1>9 DEF e

LEMMA ContinueWrites == Scoped /\ Wrote /\ ContinueStatement => Wrote'
<1> SUFFICES ASSUME Scoped, Wrote, ContinueStatement PROVE Wrote'
  OBVIOUS
<1> DEFINE b == open[Block]
           its == ItemSet(open)
           n == Len(locals)
           k == Depth(locals, b)
           body == code \o [i \in 1..n - k |-> Pop[1]]
<1>1. /\ locals \in Seq(Locals) /\ Sorted(locals) /\ open \in Seq(Items) /\ n \in Nat
  BY ScopedIs
<1>2. Block # 0 /\ code' = emit_loop(body, b.at, b.loop)
      /\ locals' = locals /\ open' = open /\ loops' = loops
  BY DEF ContinueStatement, Depth
<1>3. /\ b \in its /\ b.kind \in LoopKinds /\ b.level \in Nat /\ b.at \in Nat /\ b.loop \in Nat
  BY <1>1, <1>2, BlockIs, ItemIs DEF ItemSet
<1> HIDE DEF b
<1>4. k \in 0..n
  BY <1>1, <1>3, DepthIs
<1>5. Writes(code, Ident(n), its, locals, loops)
  BY DEF Wrote
<1> HIDE DEF its, n, k
<1>6. Writes(body, Ident(k), its, locals, loops)
  BY <1>1, <1>4, <1>5, PopsWrite
<1> HIDE DEF body
<1>7. Ident(n) \in Seq(Nat)
  BY <1>1, IdentIs
<1>8. Writes(body, Ident(Depth(locals, b)), its, locals, loops)
  BY <1>6 DEF k
<1>9. Writes(code', Ident(n), its, locals, loops)
  BY <1>2, <1>3, <1>7, <1>8, LoopWrites
<1>10. QED BY <1>2, <1>9 DEF Wrote, its, n

LEMMA BreakStatementWrites == Programs = {} /\ Scoped /\ Wrote /\ BreakStatement => Wrote'
<1> SUFFICES ASSUME Programs = {}, Scoped, Wrote, BreakStatement PROVE Wrote'
  OBVIOUS
<1> DEFINE b == open[Block]
           its == ItemSet(open)
           n == Len(locals)
<1>1. /\ locals \in Seq(Locals) /\ Sorted(locals) /\ open \in Seq(Items) /\ n \in Nat /\ code \in Codes
  BY ScopedIs
<1>2. /\ Block # 0 /\ BreakIsPlain(b) /\ code' = code \o emit_jump("JUMP", b.loop)
      /\ locals' = locals /\ open' = open /\ loops' = loops
  BY DEF BreakStatement
<1>3. /\ b \in its /\ b.loop \in Nat
  BY <1>1, <1>2, BlockIs, ItemIs DEF ItemSet
<1> HIDE DEF b
<1>4. /\ b.kind = "while" /\ Kept(locals, LoopScopeLevel(b)) = locals
      /\ \A o \in DOMAIN code : ~(code[o].op = "JUMP" /\ code[o].loop = b.loop)
  BY <1>2 DEF BreakIsPlain
<1>5. \A o \in 1..Len(code) : ~(code[o].op = "JUMP" /\ code[o].loop = b.loop)
  BY <1>1, <1>4 DEF Codes
<1>6. Writes(code, Ident(Depth(locals, b)), its, locals, loops)
  BY <1>4 DEF Wrote, Depth
<1>7. Ident(n) \in Seq(Nat)
  BY <1>1, IdentIs
<1> HIDE DEF its, n
<1>8. Writes(code', Ident(n), its, locals, loops)
  BY <1>2, <1>3, <1>4, <1>5, <1>6, <1>7, BreakWrites
<1>9. QED BY <1>2, <1>8 DEF Wrote, its, n

LEMMA WhileBeginWrites == Programs = {} /\ Scoped /\ Wrote /\ WhileBegin => Wrote'
<1> SUFFICES ASSUME Programs = {}, Scoped, Wrote, WhileBegin PROVE Wrote'
  OBVIOUS
<1> DEFINE its == ItemSet(open)
           n == Len(locals)
           r == [top |-> Len(code), bottom |-> 0, after |-> 0]
           lps == Append(loops, r)
           it == [kind |-> "while", level |-> scope, at |-> Len(code), loop |-> Len(loops) + 1]
<1>1. /\ code \in Codes /\ Len(code) \in Nat /\ locals \in Seq(Locals) /\ n \in Nat
      /\ scope \in Nat /\ open \in Seq(Items) /\ loops \in Seq(Ranges)
      /\ Nested(open, locals, scope)
  BY ScopedIs
<1>2. \A jt \in its : jt.kind = "block"
  BY StartIsPlain DEF WhileBegin
<1>3. /\ code' = code \o Temporary(n) \o emit_jump("JUMP_IF_FALSE", 0) \o Pop /\ locals' = locals
      /\ loops' = lps /\ open' = Append(open, it)
  BY DEF WhileBegin, Open, NewLoop
<1>4. /\ r \in Ranges /\ Len(loops) + 1 \in Nat
      /\ Len(loops) + 1 \in DOMAIN lps /\ lps[Len(loops) + 1].after = 0 /\ lps[Len(loops) + 1].top = Len(code)
  BY <1>1, RangeIs
<1>5. it \in Items /\ it.kind = "while" /\ it.level = scope /\ it.at = Len(code) /\ it.loop = Len(loops) + 1
  BY <1>1, <1>4 DEF Items, Kinds
<1> HIDE DEF it
<1>6. Depth(locals, it) = n
  <2>1. LoopScopeLevel(it) = scope
    BY <1>5 DEF LoopScopeLevel
  <2>2. LoopScopeLevel(it) \in Nat /\ scope <= LoopScopeLevel(it)
    BY <1>1, <2>1
  <2>3. QED BY <1>1, <2>2, DepthAll
<1>7. Writes(code, Ident(n), its, locals, loops)
  BY DEF Wrote
<1>8. ItemSet(open') = its \cup {it}
  BY <1>1, <1>3, <1>5, ItemSetAppend
<1> HIDE DEF its, n, r
<1>9. Writes(code, Ident(n), its, locals, lps)
  BY <1>1, <1>2, <1>4, <1>7, NewLoopWrites
<1> HIDE DEF lps
<1>10. NewHead(it, lps, Len(code))
  BY <1>1, <1>4, <1>5 DEF NewHead, LoopKinds
<1>11. Depth(locals, it) \in Nat /\ Writes(code, Ident(Depth(locals, it)), its, locals, lps)
  BY <1>1, <1>6, <1>9
<1>12. Writes(code \o Temporary(Depth(locals, it)) \o emit_jump("JUMP_IF_FALSE", 0) \o Pop,
              Ident(Depth(locals, it)), its \cup {it}, locals, lps)
  BY <1>2, <1>10, <1>11, HeadWrites
<1>13. Writes(code', Ident(n), its \cup {it}, locals, lps)
  BY <1>3, <1>6, <1>12
<1>14. QED BY <1>3, <1>8, <1>13 DEF Wrote, n

(* The jump back to where a loop goes on.                                    *)
LEMMA BackIs ==
    ASSUME NEW body, NEW its, NEW ls, NEW lps, NEW it \in its, it.kind \in LoopKinds,
           it.loop \in Nat, it.at \in Nat, Depth(ls, it) \in Nat,
           Writes(body, Ident(Depth(ls, it)), its, ls, lps)
    PROVE  LET all == emit_loop(body, it.at, it.loop) IN
           /\ Writes(all, Append(Ident(Depth(ls, it)), 0), its, ls, lps)
           /\ Len(all) >= 3 /\ Roomy(all)
<1> DEFINE all == emit_loop(body, it.at, it.loop)
           cell == Cell("LOOP", Len(body) - it.at + 3, 0, it.loop, 0)
<1>1. PICK shape : body \in Codes /\ Comp(body, its, ls, lps, shape)
  BY DEF Writes
<1>2. Len(body) \in Nat /\ Coherent(body, shape)
  BY <1>1, CompCoheres DEF Codes
<1>3. Ident(Depth(ls, it)) \in Seq(Nat) /\ Append(Ident(Depth(ls, it)), 0) \in Seq(Nat)
  <2> DEFINE k == Depth(ls, it)
  <2> HIDE DEF k
  <2>1. k \in Nat
    BY DEF k
  <2>2. Ident(k) \in Seq(Nat)
    BY <2>1, IdentIs
  <2>3. Append(Ident(k), 0) \in Seq(Nat)
    BY <2>2, AppendFront
  <2>4. QED BY <2>2, <2>3 DEF k
<1>4. Writes(all, Append(Ident(Depth(ls, it)), 0), its, ls, lps)
  BY <1>3, LoopWrites
<1>5. cell \in Cells /\ cell.op = "LOOP"
  <2> DEFINE g == Len(body) - it.at + 3
             id == it.loop
  <2>1. g \in Int /\ id \in Nat
    BY <1>2
  <2> HIDE DEF g, id, cell
  <2>2. Cell("LOOP", g, 0, id, 0) \in Cells /\ Cell("LOOP", g, 0, id, 0).op = "LOOP"
    BY <2>1, JumpBackIs
  <2>3. QED BY <2>2 DEF g, id, cell
<1>6. Emitted(body, cell, all)
  <2>1. all = body \o Instruction(cell)
    BY DEF emit_loop
  <2> HIDE DEF all, cell
  <2>2. QED BY <1>1, <1>5, <2>1, EmittedIs
<1> HIDE DEF all, cell
<1>7. /\ Len(all) = Len(body) + 3 /\ \A i \in 1..Len(body) : all[i] = body[i]
      /\ all[Len(body) + 1] = cell /\ \A i \in Len(body) + 2..Len(all) : all[i] = Operand
  BY <1>5, <1>6, SizeIs DEF Emitted
<1>8. ASSUME NEW p \in Nat, NEW op \in {"JUMP", "JUMP_IF_FALSE"}, Awaits(all, p, op)
      PROVE  Len(all) > 3
  <2>1. p \in 0..Len(all) - 1 /\ all[p + 1].op = op /\ all[p + 1].arg = DUMMY_JUMP_TARGET
    BY <1>8 DEF Awaits
  <2>2. p < Len(body)
    <3>1. SUFFICES ASSUME p >= Len(body) PROVE FALSE
      BY <1>2
    <3>2. CASE p = Len(body)
      BY <1>5, <1>7, <2>1, <3>2
    <3>3. CASE p > Len(body)
      <4>1. p + 1 \in Len(body) + 2..Len(all)
        BY <1>2, <1>7, <2>1, <3>3
      <4>2. QED BY <1>7, <2>1, <4>1, OperandIs
    <3>4. QED BY <1>2, <3>1, <3>2, <3>3
  <2>3. Awaits(body, p, op)
    <3>1. p + 1 \in 1..Len(body) /\ p \in 0..Len(body) - 1
      BY <1>2, <2>2
    <3>2. QED BY <1>7, <2>1, <3>1 DEF Awaits
  <2>4. p \in 0..Len(body) - 3
    BY <1>1, <1>2, <2>3, JumpFits
  <2>5. QED BY <1>2, <1>7, <2>4
<1>9. Len(all) >= 3 /\ Roomy(all)
  BY <1>2, <1>7, <1>8 DEF Roomy
<1>10. QED BY <1>4, <1>9 DEF all

(* A while ends.                                                            *)
LEMMA WhileCloses ==
    ASSUME NEW all, NEW its, NEW ls, NEW lps, NEW it \in its, it.kind = "while", it.loop # 0,
           Depth(ls, it) \in Nat, \A jt \in its : jt = it \/ jt.kind = "block",
           Writes(all, Append(Ident(Depth(ls, it)), 0), its, ls, lps), Len(all) >= 3, Roomy(all),
           Len(all) + 1 < DUMMY_JUMP_TARGET, lps[it.loop].top \in Nat,
           NEW new, Closed(lps, it.loop, Len(all), Len(all) + 1, new), NEW now
    PROVE  Writes(PatchLoop(all \o Pop, Len(all), -2), Ident(Depth(ls, it)), its \ {it}, now, new)
<1> DEFINE k == Depth(ls, it)
           s == Append(Ident(k), 0)
           d == all \o Pop
           pop == Cell("POP", 0, 0, 0, 0)
<1>1. k \in Nat /\ Writes(all, s, its, ls, lps)
  OBVIOUS
<1> HIDE DEF k
<1>2. Ident(k) \in Seq(Nat)
  BY <1>1, IdentIs
<1>3. s \in Seq(Nat) /\ s # <<>> /\ SubSeq(s, 1, Len(s) - 1) = Ident(k)
  BY <1>2, AppendFront
<1> HIDE DEF s
<1>4. PICK from : all \in Codes /\ Comp(all, its, ls, lps, from) /\ from[Len(all)] = s
  BY <1>1 DEF Writes
<1>5. Len(all) \in Nat /\ Coherent(all, from)
  BY <1>4, CompCoheres DEF Codes
<1>6. pop \in Cells /\ pop.op = "POP" /\ d = all \o Instruction(pop)
  <2>1. pop \in Cells /\ pop.op = "POP"
    BY CellIs DEF Ops
  <2>2. QED BY <2>1 DEF Pop
<1> DEFINE r == SubSeq(s, 1, Len(s) - 1)
<1>e. Emitted(all, pop, d)
  <2> HIDE DEF d, pop
  <2>1. QED BY <1>4, <1>6, EmittedIs
<1>f. Fits(all, from, pop, r)
  <2>1. r \in Seq(Nat) /\ r = SubSeq(s, 1, Len(s) - 1)
    BY <1>2, <1>3
  <2> HIDE DEF r, pop
  <2>2. QED BY <1>3, <1>4, <1>6, <2>1 DEF Fits, Discards
<1>7. PICK into : Grows(all, from, d, into) /\ into[Len(d)] = Ident(k)
  <2>1. r = Ident(k)
    BY <1>3
  <2> HIDE DEF d, pop, r
  <2>2. PICK into : Grows(all, from, d, into) /\ into[Len(d)] = r
    BY <1>4, <1>5, <1>e, <1>f, FittingGrows
  <2>3. QED BY <2>1, <2>2
<1>8. pop.loop = 0 /\ pop.op = "POP"
  BY CellIs DEF Ops
<1> HIDE DEF pop
<1>9. Quiet(all, d)
  BY <1>5, <1>e, <1>8, QuietEmitted
<1>10. Len(d) = Len(all) + 1 /\ d \in Codes
  BY <1>4, PiecesAre DEF Longer
<1> HIDE DEF d
<1>11. it.kind \in LoopKinds
  BY DEF LoopKinds
<1>12. Ending(all, its, it, ls, lps, from, d, into)
  BY <1>4, <1>7, <1>9, <1>10, <1>11, Zenon DEF Ending, k, s
<1>13. Len(all) + 1 \in Nat /\ Len(all) + 1 >= Len(all) /\ -2 \in Int
  BY <1>5
<1>14. LET e == PatchLoop(d, Len(all), -2) IN
       Comp(e, its \ {it}, now, new, into) /\ e \in Codes /\ Len(e) = Len(d)
  BY <1>12, <1>13, EndingComp
<1> DEFINE e == PatchLoop(d, Len(all), -2)
<1>15. Comp(e, its \ {it}, now, new, into) /\ e \in Codes /\ Len(e) = Len(d)
  BY <1>14
<1> HIDE DEF e
<1>16. Writes(e, Ident(k), its \ {it}, now, new)
  BY <1>2, <1>7, <1>15 DEF Writes
<1>17. QED BY <1>16 DEF e, d, k

(* The body of a for ends.                                                  *)
LEMMA ForCloses ==
    ASSUME NEW all, NEW its, NEW ls, NEW lps, NEW it \in its, it.kind = "for", it.loop # 0,
           Depth(ls, it) \in Nat, \A jt \in its : jt = it \/ jt.kind = "block",
           Writes(all, Append(Ident(Depth(ls, it)), 0), its, ls, lps), Len(all) >= 3, Roomy(all),
           Len(all) < DUMMY_JUMP_TARGET, lps[it.loop].top \in Nat,
           NEW aft \in Nat, aft >= Len(all),
           NEW new, Closed(lps, it.loop, Len(all), aft, new), NEW now
    PROVE  Writes(PatchLoop(all, Len(all), 0), Append(Ident(Depth(ls, it)), 0), its \ {it}, now, new)
<1> DEFINE s == Append(Ident(Depth(ls, it)), 0)
<1>1. Writes(all, s, its, ls, lps)
  OBVIOUS
<1> HIDE DEF s
<1>2. PICK from : all \in Codes /\ s \in Seq(Nat) /\ Comp(all, its, ls, lps, from) /\ from[Len(all)] = s
  BY <1>1 DEF Writes
<1>3. Len(all) \in Nat /\ Coherent(all, from)
  BY <1>2, CompCoheres DEF Codes
<1>4. Grows(all, from, all, from)
  BY <1>2, <1>3 DEF Grows
<1>5. Quiet(all, all)
  BY <1>3 DEF Quiet
<1>6. it.kind \in LoopKinds /\ it.kind # "while"
  BY DEF LoopKinds
<1>7. Ending(all, its, it, ls, lps, from, all, from)
  BY <1>2, <1>4, <1>5, <1>6, Zenon DEF Ending, s
<1> DEFINE e == PatchLoop(all, Len(all), 0)
<1>8. 0 \in Int
  OBVIOUS
<1>9. Comp(e, its \ {it}, now, new, from) /\ e \in Codes /\ Len(e) = Len(all)
  BY <1>6, <1>7, <1>8, EndingComp
<1> HIDE DEF e
<1>10. Writes(e, s, its \ {it}, now, new)
  BY <1>2, <1>9 DEF Writes
<1>11. QED BY <1>10 DEF e, s

(* The innermost loop.                                                      *)
LEMMA LoopIsLast ==
    Scoped /\ open # <<>> /\ Innermost.kind \in LoopKinds =>
    /\ Innermost \in ItemSet(open) /\ ItemSet(Outer) = ItemSet(open) \ {Innermost}
    /\ \A jt \in ItemSet(open) : jt = Innermost \/ jt.kind = "block"
    /\ Innermost.loop \in 1..Len(loops) /\ Innermost.loop # 0
    /\ Innermost.level \in Nat /\ Innermost.at \in Nat /\ Innermost.loop \in Nat
    /\ Depth(locals, Innermost) \in Nat
    /\ \A i \in 1..Len(locals) : locals[i].level = Innermost.level + 1 =>
          Innermost.kind = "for" /\ locals[i].captured = FALSE
<1> SUFFICES ASSUME Scoped, open # <<>>, Innermost.kind \in LoopKinds
             PROVE  /\ Innermost \in ItemSet(open) /\ ItemSet(Outer) = ItemSet(open) \ {Innermost}
                    /\ \A jt \in ItemSet(open) : jt = Innermost \/ jt.kind = "block"
                    /\ Innermost.loop \in 1..Len(loops) /\ Innermost.loop # 0
                    /\ Innermost.level \in Nat /\ Innermost.at \in Nat /\ Innermost.loop \in Nat
                    /\ Depth(locals, Innermost) \in Nat
                    /\ \A i \in 1..Len(locals) : locals[i].level = Innermost.level + 1 =>
                          Innermost.kind = "for" /\ locals[i].captured = FALSE
  OBVIOUS
<1>1. /\ locals \in Seq(Locals) /\ Len(locals) \in Nat /\ Sorted(locals) /\ open \in Seq(Items) /\ loops \in Seq(Ranges)
      /\ Nested(open, locals, scope)
  BY ScopedIs
<1>2. /\ Innermost.level \in Nat /\ Innermost.at \in Nat /\ Innermost.loop \in Nat
      /\ Placed(Innermost, locals, loops, Len(code)) /\ Blocks(Outer)
  BY InnermostIs
<1>3. Innermost \in ItemSet(open) /\ ItemSet(Outer) = ItemSet(open) \ {Innermost}
  BY <1>1, ItemSetFront DEF Innermost, Outer
<1>4. \A jt \in ItemSet(Outer) : jt.kind = "block"
  BY <1>2 DEF Blocks, ItemSet
<1>5. \A jt \in ItemSet(open) : jt = Innermost \/ jt.kind = "block"
  BY <1>3, <1>4
<1>6. Innermost.loop \in 1..Len(loops) /\ Innermost.loop # 0
  BY <1>1, <1>2 DEF Placed
<1>7. Depth(locals, Innermost) \in Nat
  <2>1. Depth(locals, Innermost) \in 0..Len(locals)
    BY <1>1, <1>2, DepthIs
  <2>2. QED BY <1>1, <2>1
<1>8. \A i \in 1..Len(locals) : locals[i].level = Innermost.level + 1 =>
          Innermost.kind = "for" /\ locals[i].captured = FALSE
  BY <1>2 DEF Placed
<1>9. QED BY <1>2, <1>3, <1>5, <1>6, <1>7, <1>8

LEMMA WhileEndWrites ==
    Scoped /\ Wrote /\ WhileEnd /\ Len(code') < DUMMY_JUMP_TARGET => Wrote'
<1> SUFFICES ASSUME Scoped, Wrote, WhileEnd, Len(code') < DUMMY_JUMP_TARGET PROVE Wrote'
  OBVIOUS
<1> DEFINE its == ItemSet(open)
           it == Innermost
           at == it.level
           out == ItemSet(Outer)
           body == code \o scope_exit(locals, at + 1)
           all  == emit_loop(body, it.at, it.loop)
           popped == all \o Pop
           k == Depth(locals, it)
<1>1. /\ code \in Codes /\ locals \in Seq(Locals) /\ Sorted(locals) /\ loops \in Seq(Ranges)
  BY ScopedIs
<1>2. /\ open # <<>> /\ it.kind = "while" /\ open' = Outer
      /\ code' = PatchLoop(popped, Len(all), -2)
      /\ loops' = [loops EXCEPT ![it.loop].bottom = Len(all), ![it.loop].after = Len(all) + 1]
      /\ locals' = Kept(locals, at)
  BY DEF WhileEnd, Ends
<1>3. /\ it \in its /\ out = its \ {it}
      /\ \A jt \in its : jt = it \/ jt.kind = "block"
      /\ it.loop \in 1..Len(loops) /\ it.loop # 0
      /\ at \in Nat /\ it.at \in Nat /\ it.loop \in Nat /\ k \in Nat
      /\ \A i \in 1..Len(locals) : locals[i].level # at + 1
  <2>1. it.kind \in LoopKinds /\ it.kind # "for"
    BY <1>2 DEF LoopKinds
  <2>2. QED BY <1>2, <2>1, LoopIsLast
<1> HIDE DEF it, its, out
<1>4. Writes(code, Ident(Len(locals)), its, locals, loops)
  BY DEF Wrote, its
<1>5. Kept(locals, at + 1) = Kept(locals, at)
  <2> DEFINE high == at + 1
  <2>1. high \in Nat /\ at <= high
    BY <1>3
  <2>2. \A i \in 1..Len(locals) : locals[i].level <= high => locals[i].level <= at
    <3>1. \A i \in 1..Len(locals) : locals[i].level \in Nat /\ locals[i].level # high
      BY <1>1, <1>3, LevelIs
    <3>2. QED BY <1>3, <3>1
  <2> HIDE DEF high
  <2>3. Kept(locals, high) = Kept(locals, at)
    BY <1>1, <1>3, <2>1, <2>2, KeptSame
  <2>4. QED BY <2>3 DEF high
<1>6. k = Len(Kept(locals, at)) /\ k = Len(Kept(locals, at + 1))
  <2>1. LoopScopeLevel(it) = at
    BY <1>2 DEF LoopScopeLevel
  <2>2. QED BY <1>5, <2>1 DEF Depth
<1>7. Writes(body, Ident(k), its, locals, loops)
  <2> DEFINE high == at + 1
  <2>1. high \in Nat
    BY <1>3
  <2> HIDE DEF high
  <2>2. Writes(code \o scope_exit(locals, high), Ident(Len(Kept(locals, high))), its, locals, loops)
    BY <1>1, <1>4, <2>1, ExitWrites
  <2>3. QED BY <1>6, <2>2 DEF high
<1> HIDE DEF body
<1>8. Writes(all, Append(Ident(k), 0), its, locals, loops) /\ Len(all) >= 3 /\ Roomy(all)
  <2>1. it.kind \in LoopKinds
    BY <1>2 DEF LoopKinds
  <2>2. QED BY <1>3, <1>7, <2>1, BackIs
<1> HIDE DEF all
<1>9. all \in Codes /\ Len(all) \in Nat
  BY <1>8 DEF Writes, Codes
<1>10. popped \in Codes /\ Len(popped) = Len(all) + 1
  BY <1>9, PiecesAre DEF Longer
<1>11. Len(all) + 1 < DUMMY_JUMP_TARGET
  <2>1. Len(all) \in Int /\ -2 \in Int
    BY <1>9
  <2> HIDE DEF popped
  <2>2. Len(code') = Len(popped)
    BY <1>2, <1>10, <2>1, PatchLoopLonger
  <2>3. QED BY <1>10, <2>2
<1>12. Closed(loops, it.loop, Len(all), Len(all) + 1, loops') /\ loops[it.loop].top \in Nat
  <2>1. Len(all) \in Nat /\ Len(all) + 1 \in Nat
    BY <1>9
  <2>2. QED BY <1>1, <1>2, <1>3, <2>1, ClosedIs
<1>13. Writes(code', Ident(k), its \ {it}, locals', loops')
  BY <1>2, <1>3, <1>8, <1>11, <1>12, WhileCloses
<1>14. ItemSet(open') = its \ {it}
  BY <1>2, <1>3 DEF out
<1>15. Len(locals') = k
  BY <1>2, <1>6
<1>16. QED BY <1>13, <1>14, <1>15 DEF Wrote

(* The counter of a for goes, and the value of its condition.                *)
LEMMA CounterGoes ==
    ASSUME NEW c, NEW its, NEW scoped, NEW lps, NEW ls \in Seq(Locals), Sorted(ls), NEW level \in Nat,
           Writes(c, Append(Ident(Len(ls)), 0), its, scoped, lps),
           \A i \in 1..Len(ls) : ls[i].level > level => ls[i].captured = FALSE
    PROVE  Writes(c \o scope_exit(ls, level) \o Pop, Ident(Len(Kept(ls, level))), its, scoped, lps)
<1> DEFINE e == scope_exit(ls, level)
           k == Len(Kept(ls, level))
           n == Len(ls)
           s == Append(Ident(n), 0)
           r == SubSeq(s, 1, Len(s) - Len(e))
<1>1. /\ e \in Codes /\ Len(e) = n - k /\ k \in 0..n
      /\ \A m \in 1..Len(e) :
            /\ e[m].op \in {"POP", "CLOSE_UPVALUE"} /\ e[m].loop = 0
            /\ ls[n + 1 - m].captured = FALSE => e[m].op = "POP"
  BY ExitIs
<1>2. n \in Nat /\ Cuts(ls, level, k)
  BY KeptIs
<1>3. \A i \in 1..n : ls[i].level \in Nat /\ (i > k => ls[i].captured = FALSE)
  <2>1. \A i \in 1..n : ls[i].level <= level <=> i <= k
    BY <1>2 DEF Cuts
  <2>2. \A i \in 1..n : ls[i].level \in Nat
    BY LevelIs
  <2>3. QED BY <1>1, <1>2, <2>1, <2>2
<1> HIDE DEF e, k
<1>4. \A m \in 1..Len(e) : e[m].op = "POP" /\ e[m].loop = 0
  <2>1. \A m \in 1..Len(e) : n + 1 - m \in 1..n /\ n + 1 - m > k
    BY <1>1, <1>2
  <2>2. QED BY <1>1, <1>3, <2>1
<1>5. Writes(c, s, its, scoped, lps)
  OBVIOUS
<1> HIDE DEF n
<1>6. /\ Ident(n) \in Seq(Nat) /\ Len(Ident(n)) = n /\ \A i \in 1..n : Ident(n)[i] = i
  BY <1>2, IdentIs
<1>7. /\ s \in Seq(Nat) /\ Len(s) = n + 1 /\ \A i \in 1..n : s[i] = i
  BY <1>2, <1>6, AppendIs
<1> HIDE DEF s
<1>8. /\ Len(e) <= Len(s)
      /\ \A m \in 1..Len(e) :
              /\ e[m].op \in {"POP", "CLOSE_UPVALUE"} /\ e[m].loop = 0
              /\ e[m].op = "CLOSE_UPVALUE" => s[Len(s) + 1 - m] = e[m].slot
  BY <1>1, <1>2, <1>4, <1>7
<1>9. Writes(c \o e, r, its, scoped, lps)
  BY <1>1, <1>5, <1>8, DiscardsWrite
<1>10. r \in Seq(Nat) /\ Len(r) = k + 1 /\ \A i \in 1..k : r[i] = i
  <2>1. Len(s) - Len(e) = k + 1 /\ k + 1 \in Nat /\ k + 1 <= Len(s) /\ k <= n
    BY <1>1, <1>2, <1>7
  <2> DEFINE q == k + 1
  <2>2. \A i \in 1..q : s[i] \in Nat
    BY <1>1, <1>2, <1>7, <2>1
  <2> HIDE DEF q
  <2>3. SubSeq(s, 1, q) \in Seq(Nat) /\ Len(SubSeq(s, 1, q)) = q /\ \A i \in 1..q : SubSeq(s, 1, q)[i] = s[i]
    <3>1. q \in Nat /\ q <= Len(s)
      BY <2>1 DEF q
    <3>2. QED BY <1>7, <2>2, <3>1
  <2>4. r = SubSeq(s, 1, q)
    BY <2>1 DEF q
  <2> HIDE DEF r
  <2>5. Len(r) = k + 1
    BY <2>3, <2>4 DEF q
  <2>6. \A i \in 1..k : r[i] = i
    <3>1. \A i \in 1..k : i \in 1..q /\ i \in 1..n
      BY <1>1, <1>2 DEF q
    <3>2. QED BY <1>7, <2>3, <2>4, <3>1
  <2>7. QED BY <2>3, <2>4, <2>5, <2>6
<1> HIDE DEF r
<1>11. SubSeq(r, 1, Len(r) - 1) = Ident(k) /\ r # <<>>
  <2>1. k \in Nat /\ Len(r) - 1 = k
    BY <1>1, <1>2, <1>10
  <2>2. Ident(k) \in Seq(Nat) /\ Len(Ident(k)) = k /\ \A i \in 1..k : Ident(k)[i] = i
    BY <2>1, IdentIs
  <2>3. SubSeq(r, 1, k) \in Seq(Nat) /\ Len(SubSeq(r, 1, k)) = k /\ \A i \in 1..k : SubSeq(r, 1, k)[i] = r[i]
    BY <1>10, <2>1
  <2>4. SubSeq(r, 1, k) = Ident(k)
    BY <1>10, <2>1, <2>2, <2>3, SeqEqual
  <2>5. r # <<>>
    <3>1. Len(<<>>) = 0
      OBVIOUS
    <3>2. Len(r) # 0
      BY <1>10, <2>1
    <3>3. QED BY <3>1, <3>2, Zenon
  <2>6. QED BY <2>1, <2>4, <2>5
<1> DEFINE d == c \o e
<1> HIDE DEF d
<1>12. Writes(d, r, its, scoped, lps) /\ "POP" \in {"POP", "DEFINE_GLOBAL"}
  BY <1>9 DEF d
<1>13. Writes(d \o Instruction(Cell("POP", 0, 0, 0, 0)), SubSeq(r, 1, Len(r) - 1), its, scoped, lps)
  BY <1>11, <1>12, DiscardWrites
<1>14. QED BY <1>11, <1>13 DEF d, e, k, Pop

LEMMA ForEndWrites ==
    Scoped /\ Wrote /\ ForEnd /\ Len(code') < DUMMY_JUMP_TARGET => Wrote'
<1> SUFFICES ASSUME Scoped, Wrote, ForEnd, Len(code') < DUMMY_JUMP_TARGET PROVE Wrote'
  OBVIOUS
<1> DEFINE its == ItemSet(open)
           it == Innermost
           at == it.level
           high == at + 1
           out == ItemSet(Outer)
           inner == Kept(locals, high)
           body == code \o scope_exit(locals, high)
           all  == emit_loop(body, it.at, it.loop)
           patched == PatchLoop(all, Len(all), 0)
           exited == patched \o scope_exit(inner, at)
           k == Depth(locals, it)
<1>1. /\ code \in Codes /\ locals \in Seq(Locals) /\ Sorted(locals) /\ loops \in Seq(Ranges)
  BY ScopedIs
<1>2. /\ open # <<>> /\ it.kind = "for" /\ open' = Outer
      /\ code' = exited \o Pop
      /\ loops' = [loops EXCEPT ![it.loop].bottom = Len(all), ![it.loop].after = Len(code')]
      /\ locals' = Kept(locals, at)
  BY DEF ForEnd, Ends
<1>3. /\ it \in its /\ out = its \ {it}
      /\ \A jt \in its : jt = it \/ jt.kind = "block"
      /\ it.loop \in 1..Len(loops) /\ it.loop # 0
      /\ at \in Nat /\ it.at \in Nat /\ it.loop \in Nat /\ k \in Nat
      /\ \A i \in 1..Len(locals) : locals[i].level = high => locals[i].captured = FALSE
  <2>1. it.kind \in LoopKinds
    BY <1>2 DEF LoopKinds
  <2>2. QED BY <1>2, <2>1, LoopIsLast
<1> HIDE DEF it, its, out
<1>4. Writes(code, Ident(Len(locals)), its, locals, loops)
  BY DEF Wrote, its
<1>5. high \in Nat /\ at <= high
  BY <1>3
<1>6. k = Len(inner)
  <2>1. LoopScopeLevel(it) = high
    BY <1>2 DEF LoopScopeLevel
  <2>2. QED BY <2>1 DEF Depth
<1>h. high = at + 1
  OBVIOUS
<1> HIDE DEF high
<1>7. Writes(body, Ident(k), its, locals, loops)
  BY <1>1, <1>4, <1>5, <1>6, ExitWrites
<1> HIDE DEF body
<1>8. Writes(all, Append(Ident(k), 0), its, locals, loops) /\ Len(all) >= 3 /\ Roomy(all)
  <2>1. it.kind \in LoopKinds
    BY <1>2 DEF LoopKinds
  <2>2. QED BY <1>3, <1>7, <2>1, BackIs
<1> HIDE DEF all
<1>9. all \in Codes /\ Len(all) \in Nat
  BY <1>8 DEF Writes, Codes
<1>10. /\ inner \in Seq(Locals) /\ Sorted(inner) /\ Len(inner) \in 0..Len(locals)
       /\ \A i \in 1..Len(inner) : inner[i] = locals[i] /\ locals[i].level <= high
  BY <1>1, <1>5, KeptIs
<1>11. Len(Kept(inner, at)) = Len(Kept(locals, at))
  BY <1>1, <1>3, <1>5, KeptKept
<1>12. \A i \in 1..Len(inner) : inner[i].level > at => inner[i].captured = FALSE
  <2>1. \A i \in 1..Len(locals) : locals[i].level \in Nat
    BY <1>1, LevelIs
  <2>2. \A i \in 1..Len(inner) : i \in 1..Len(locals)
    BY <1>1, <1>10
  <2> HIDE DEF inner
  <2>3. ASSUME NEW i \in 1..Len(inner), inner[i].level > at PROVE inner[i].captured = FALSE
    <3>1. i \in 1..Len(locals) /\ inner[i] = locals[i] /\ locals[i].level \in Nat /\ locals[i].level <= high
      BY <1>10, <2>1, <2>2
    <3>2. locals[i].level = at + 1
      BY <1>3, <1>h, <2>3, <3>1
    <3>3. QED BY <1>3, <1>h, <3>1, <3>2
  <2>4. QED BY <2>3
<1>13. patched \in Codes /\ Len(patched) = Len(all)
  <2>1. Len(all) \in Int /\ 0 \in Int
    BY <1>9
  <2>2. QED BY <1>9, <2>1, PatchLoopLonger DEF Longer
<1> HIDE DEF patched, inner
<1>14. Longer(patched, exited) /\ exited \in Codes
  BY <1>3, <1>10, <1>13, ExitLonger DEF Longer
<1> HIDE DEF exited
<1>15. code' \in Codes /\ Len(code') \in Nat /\ Len(all) <= Len(code')
  <2>1. code' \in Codes /\ Len(code') = Len(exited) + 1
    BY <1>2, <1>14, PiecesAre DEF Longer
  <2>2. Len(exited) \in Nat /\ Len(all) <= Len(exited)
    BY <1>13, <1>14 DEF Longer, Codes
  <2>3. QED BY <1>9, <2>1, <2>2
<1>16. Len(all) < DUMMY_JUMP_TARGET /\ Len(code') >= Len(all)
  BY <1>9, <1>15 DEF DUMMY_JUMP_TARGET
<1>17. Closed(loops, it.loop, Len(all), Len(code'), loops') /\ loops[it.loop].top \in Nat
  BY <1>1, <1>2, <1>3, <1>9, <1>15, ClosedIs
<1>18. Writes(patched, Append(Ident(k), 0), its \ {it}, locals', loops')
  BY <1>2, <1>3, <1>8, <1>15, <1>16, <1>17, ForCloses DEF patched
<1>19. Writes(code', Ident(Len(Kept(inner, at))), its \ {it}, locals', loops')
  BY <1>2, <1>3, <1>6, <1>10, <1>12, <1>18, CounterGoes DEF exited
<1>20. ItemSet(open') = its \ {it}
  BY <1>2, <1>3 DEF out
<1>21. Len(locals') = Len(Kept(inner, at))
  BY <1>2, <1>11
<1>22. QED BY <1>19, <1>20, <1>21 DEF Wrote

LEMMA DepthWhole ==
    ASSUME NEW ls \in Seq(Locals), NEW it, NEW level \in Nat, LoopScopeLevel(it) = level,
           \A i \in 1..Len(ls) : ls[i].level <= level
    PROVE  Depth(ls, it) = Len(ls)
BY KeptAll DEF Depth

(* Of two places where a loop goes on, one is enough.                        *)
LEMMA TwinWrites ==
    ASSUME NEW c, NEW its, NEW ls, NEW lps, NEW s, Writes(c, s, its, ls, lps),
           NEW it, NEW jt \in its, it.kind = "for", jt.kind = "for", it.loop = jt.loop, it # jt,
           Depth(ls, it) = Depth(ls, jt)
    PROVE  Writes(c, s, its \ {it}, ls, lps)
<1> DEFINE more == its \ {it}
<1>1. PICK shape : Comp(c, its, ls, lps, shape) /\ shape[Len(c)] = s
  BY DEF Writes
<1>2. /\ more \subseteq its /\ jt \in more
      /\ \A kt \in its : kt = it \/ kt \in more
  OBVIOUS
<1> HIDE DEF more
<1>3. \A kt \in more : ItemFits(c, ls, lps, shape, kt)
  <2>1. \A kt \in its : ItemFits(c, ls, lps, shape, kt)
    BY <1>1, Zenon DEF Comp
  <2>2. QED BY <1>2, <2>1
<1>4. \A kt \in more, lt \in more : kt.kind \in {"then", "else"} /\ lt.kind = kt.kind /\ lt.at = kt.at => lt = kt
  <2>1. \A kt, lt \in its : kt.kind \in {"then", "else"} /\ lt.kind = kt.kind /\ lt.at = kt.at => lt = kt
    BY <1>1, Zenon DEF Comp
  <2>2. QED BY <1>2, <2>1
<1>5. ASSUME NEW kt \in its PROVE Remains(kt, ls, more, ls)
  <2>1. CASE kt = it
    BY <1>2, <2>1 DEF Remains
  <2>2. CASE kt \in more
    BY <2>2 DEF Remains
  <2>3. QED BY <1>2, <2>1, <2>2
<1>6. LoopCells(c, lps)
  BY <1>1, Zenon DEF Comp
<1>7. Comp(c, more, ls, lps, shape)
  BY <1>1, <1>3, <1>4, <1>5, <1>6, Reitem
<1>8. Writes(c, s, more, ls, lps)
  BY <1>1, <1>7 DEF Writes
<1>9. QED BY <1>8 DEF more

(* The increment of a for comes before its body, and is jumped over.         *)
LEMMA IncrementWrites ==
    ASSUME NEW tested, NEW its, NEW ls \in Seq(Locals), NEW lps, NEW start \in Nat, NEW id \in Nat,
           NEW level \in Nat, \A i \in 1..Len(ls) : ls[i].level <= level + 1,
           Writes(tested, Ident(Len(ls)),
                  its \cup {[kind |-> "for", level |-> level, at |-> start, loop |-> id]}, ls, lps),
           start <= Len(tested),
           \A it \in its : it.kind = "block",
           id \in DOMAIN lps, lps[id].after = 0, lps[id].top \in Nat, lps[id].top <= start,
           NEW step, step = tested \o emit_jump("JUMP", 0) \o Temporary(Len(ls)) \o Pop,
           Len(emit_loop(step, start, id)) < DUMMY_JUMP_TARGET
    PROVE  Writes(patch_jump(emit_loop(step, start, id), Len(tested)), Ident(Len(ls)),
                  its \cup {[kind |-> "for", level |-> level, at |-> Len(tested) + 3, loop |-> id]}, ls, lps)
<1> DEFINE n == Len(ls)
           head == [kind |-> "for", level |-> level, at |-> start, loop |-> id]
           else == [kind |-> "else", level |-> level + 1, at |-> Len(tested), loop |-> 0]
           next == [kind |-> "for", level |-> level, at |-> Len(tested) + 3, loop |-> id]
           jumped == tested \o emit_jump("JUMP", 0)
           valued == jumped \o Value(0, n)
           one == its \cup {head}
           two == one \cup {else}
           three == two \cup {next}
           stepped == emit_loop(step, start, id)
           patched == patch_jump(stepped, Len(tested))
<1>1. tested \in Codes /\ Len(tested) \in Nat /\ n \in Nat /\ Len(ls) = n
  BY DEF Writes, Codes
<1>2. Writes(tested, Ident(n), one, ls, lps)
  OBVIOUS
<1>3. /\ head.kind = "for" /\ head.at = start /\ head.loop = id /\ head.level = level
      /\ else.kind = "else" /\ else.at = Len(tested) /\ else.level = level + 1
      /\ next.kind = "for" /\ next.at = Len(tested) + 3 /\ next.loop = id /\ next.level = level
  OBVIOUS
<1>s. step = valued \o Pop
  BY DEF Temporary
<1>p. Len(stepped) < DUMMY_JUMP_TARGET
  OBVIOUS
<1>q. patched = patch_jump(emit_loop(step, start, id), Len(tested)) /\ head \in one
      /\ next = [kind |-> "for", level |-> level, at |-> Len(tested) + 3, loop |-> id]
      /\ \A it \in one : it = head \/ it \in its
  OBVIOUS
<1>r. /\ else \in two /\ one \subseteq two /\ \A it \in two : it = else \/ it \in one
      /\ next \in three /\ two \subseteq three /\ \A it \in three : it = next \/ it \in two
  OBVIOUS
<1> HIDE DEF head, else, next, one, n
<1>4. Depth(ls, head) = n /\ Depth(ls, else) = n /\ Depth(ls, next) = n
  <2>1. LoopScopeLevel(head) = level + 1 /\ LoopScopeLevel(else) = level + 1 /\ LoopScopeLevel(next) = level + 1
    BY <1>3 DEF LoopScopeLevel
  <2> DEFINE lv == level + 1
  <2>2. lv \in Nat
    OBVIOUS
  <2>3. \A i \in 1..Len(ls) : ls[i].level <= lv
    OBVIOUS
  <2>4. LoopScopeLevel(head) = lv /\ LoopScopeLevel(else) = lv /\ LoopScopeLevel(next) = lv
    BY <2>1
  <2> HIDE DEF lv
  <2>5. QED BY <1>1, <2>2, <2>3, <2>4, DepthWhole
<1>5. Ident(n) \in Seq(Nat)
  BY <1>1, IdentIs
<1>6. Writes(jumped, Ident(n), two, ls, lps)
  <2>1. Writes(tested, Ident(Depth(ls, else)), one, ls, lps)
    BY <1>2, <1>4
  <2>2. QED BY <1>3, <1>5, <2>1, ElseWrites
<1>7. jumped \in Codes /\ Len(jumped) = Len(tested) + 3
  BY <1>1, PiecesAre DEF Longer
<1> HIDE DEF jumped, two
<1>8. Writes(jumped, Ident(n), three, ls, lps)
  <2>1. Writes(jumped, Ident(Depth(ls, next)), two, ls, lps)
    BY <1>4, <1>6
  <2>2. NewHead(next, lps, Len(jumped))
    <3>1. lps[id].top <= Len(tested) + 3
      BY <1>1
    <3>2. QED BY <1>3, <1>7, <3>1 DEF NewHead, LoopKinds
  <2>3. Writes(jumped, Ident(Depth(ls, next)), two \cup {next}, ls, lps)
    BY <2>1, <2>2, StartWrites
  <2>4. QED BY <1>4, <2>3
<1> HIDE DEF three
<1>9. Writes(valued, Append(Ident(n), 0), three, ls, lps)
  BY <1>1, <1>8, ValueWrites
<1> HIDE DEF valued
<1>10. Writes(step, Ident(n), three, ls, lps)
  <2> DEFINE ended == valued \o Pop
  <2>1. Writes(ended, Ident(n), three, ls, lps)
    BY <1>5, <1>9, PopWrites
  <2>2. step = ended
    BY <1>s
  <2> HIDE DEF ended
  <2>3. QED BY <2>1, <2>2
<1>11. Writes(stepped, Ident(n), three, ls, lps)
  <2>1. head \in three /\ head.kind \in LoopKinds
    BY <1>3, <1>q, <1>r DEF LoopKinds
  <2>2. Writes(step, Ident(Depth(ls, head)), three, ls, lps)
    BY <1>4, <1>10
  <2>3. head.loop \in Nat /\ head.at \in Nat
    BY <1>3
  <2>4. Writes(emit_loop(step, head.at, head.loop), Ident(n), three, ls, lps)
    BY <1>5, <2>1, <2>2, <2>3, LoopWrites
  <2>5. QED BY <1>3, <2>4
<1> HIDE DEF stepped
<1>12. Writes(patched, Ident(n), three \ {else}, ls, lps)
  <2>1. else \in three
    BY <1>r
  <2>2. else.kind = "else" /\ Ident(n) = Ident(Depth(ls, else))
    BY <1>3, <1>4
  <2>3. Writes(patch_jump(stepped, else.at), Ident(n), three \ {else}, ls, lps)
    BY <1>p, <1>11, <2>1, <2>2, PatchWrites
  <2>4. QED BY <1>3, <2>3
<1> HIDE DEF patched
<1>13. head # next
  BY <1>1, <1>3
<1>14. Writes(patched, Ident(n), (three \ {else}) \ {head}, ls, lps)
  <2>1. next \in three \ {else} /\ head.loop = next.loop /\ Depth(ls, head) = Depth(ls, next)
        /\ head.kind = "for" /\ next.kind = "for"
    BY <1>3, <1>4, <1>r
  <2>2. QED BY <1>12, <1>13, <2>1, TwinWrites
<1>15. (three \ {else}) \ {head} = its \cup {next}
  <2>1. ASSUME NEW it \in (three \ {else}) \ {head} PROVE it \in its \cup {next}
    BY <1>q, <1>r
  <2>2. ASSUME NEW it \in its PROVE it \in (three \ {else}) \ {head}
    <3>1. it \in one
      BY DEF one
    <3>2. it \in three /\ it.kind = "block"
      BY <1>r, <3>1
    <3>3. QED BY <1>3, <3>2
  <2>3. next \in (three \ {else}) \ {head}
    BY <1>3, <1>13, <1>r
  <2>4. QED BY <2>1, <2>2, <2>3
<1>16. Writes(patched, Ident(n), its \cup {next}, ls, lps)
  BY <1>14, <1>15
<1>17. QED BY <1>16, <1>q DEF n

(* The condition of a for, if it has one.                                    *)
LEMMA TestWrites ==
    ASSUME NEW started, NEW its, \A it \in its : it.kind = "block",
           NEW ls \in Seq(Locals), NEW lps, NEW level \in Nat, NEW id \in Nat,
           \A i \in 1..Len(ls) : ls[i].level <= level + 1,
           Writes(started, Ident(Len(ls)), its, ls, lps),
           id \in DOMAIN lps, lps[id].after = 0, lps[id].top \in Nat, lps[id].top <= Len(started)
    PROVE  LET more == its \cup {[kind |-> "for", level |-> level, at |-> Len(started), loop |-> id]}
           IN  /\ Writes(started, Ident(Len(ls)), more, ls, lps)
               /\ Writes(started \o Temporary(Len(ls)) \o emit_jump("JUMP_IF_FALSE", 0) \o Pop,
                         Ident(Len(ls)), more, ls, lps)
<1> DEFINE it == [kind |-> "for", level |-> level, at |-> Len(started), loop |-> id]
           n == Len(ls)
           more == its \cup {it}
<1>1. n \in Nat
  OBVIOUS
<1>2. it.kind = "for" /\ it.at = Len(started) /\ it.loop = id /\ it.level = level
  OBVIOUS
<1> HIDE DEF it
<1>3. Depth(ls, it) = n
  <2> DEFINE lv == level + 1
  <2>1. lv \in Nat /\ \A i \in 1..Len(ls) : ls[i].level <= lv
    OBVIOUS
  <2>2. LoopScopeLevel(it) = lv
    BY <1>2 DEF LoopScopeLevel
  <2> HIDE DEF lv
  <2>3. QED BY <2>1, <2>2, DepthWhole
<1>4. NewHead(it, lps, Len(started))
  BY <1>2 DEF NewHead, LoopKinds
<1>5. Writes(started, Ident(Depth(ls, it)), its, ls, lps)
  BY <1>3
<1>6. Writes(started, Ident(Depth(ls, it)), its \cup {it}, ls, lps)
  BY <1>4, <1>5, StartWrites
<1>7. Writes(started \o Temporary(Depth(ls, it)) \o emit_jump("JUMP_IF_FALSE", 0) \o Pop,
             Ident(Depth(ls, it)), its \cup {it}, ls, lps)
  <2>1. Depth(ls, it) \in Nat
    BY <1>1, <1>3
  <2>2. QED BY <1>4, <1>5, <2>1, HeadWrites
<1>8. QED BY <1>3, <1>6, <1>7 DEF it

(* The initializer of a for, and its variable.                               *)
LEMMA InitializerWrites ==
    ASSUME NEW c, NEW its, \A it \in its : it.kind = "block",
           NEW ls \in Seq(Locals), NEW lps \in Seq(Ranges), NEW r \in Ranges, NEW now,
           Writes(c, Ident(Len(ls)), its, ls, lps)
    PROVE  /\ Writes(c, Ident(Len(ls)), its, now, Append(lps, r))
           /\ Writes(c \o Value(Len(ls) + 1, Len(ls)), Ident(Len(ls) + 1), its, now, Append(lps, r))
<1> DEFINE n == Len(ls)
           m == n + 1
           new == Append(lps, r)
<1>1. n \in Nat /\ m \in Nat /\ m = n + 1
  OBVIOUS
<1> HIDE DEF n, m
<1>2. Writes(c, Ident(n), its, ls, lps)
  BY DEF n
<1>3. Writes(c, Ident(n), its, ls, new)
  BY <1>2, NewLoopWrites
<1> HIDE DEF new
<1>4. Writes(c, Ident(n), its, now, new)
  BY <1>3, Rescope
<1>5. Writes(c \o Value(m, n), Append(Ident(n), m), its, now, new)
  BY <1>1, <1>4, ValueWrites
<1>6. Append(Ident(n), m) = Ident(m)
  BY <1>1, IdentIs
<1>7. QED BY <1>4, <1>5, <1>6 DEF n, m, new

LEMMA ForBeginWrites ==
    Programs = {} /\ Scoped /\ Wrote /\ ForBegin /\ Len(code') < DUMMY_JUMP_TARGET => Wrote'
<1> SUFFICES ASSUME Programs = {}, Scoped, Wrote, ForBegin, Len(code') < DUMMY_JUMP_TARGET PROVE Wrote'
  OBVIOUS
<1> DEFINE its == ItemSet(open)
           r == [top |-> Len(code), bottom |-> 0, after |-> 0]
           lps == Append(loops, r)
           id == NewLoop
<1>1. /\ code \in Codes /\ Len(code) \in Nat /\ locals \in Seq(Locals) /\ Len(locals) \in Nat
      /\ scope \in Nat /\ open \in Seq(Items) /\ loops \in Seq(Ranges) /\ Len(loops) \in Nat
      /\ Nested(open, locals, scope)
  BY ScopedIs
<1>2. \A jt \in its : jt.kind = "block"
  BY StartIsPlain DEF ForBegin
<1>3. loops' = lps
  BY DEF ForBegin
<1>4. r \in Ranges /\ id \in Nat /\ id \in DOMAIN lps /\ lps[id].after = 0 /\ lps[id].top = Len(code)
  BY <1>1, RangeIs DEF NewLoop
<1>5. PICK variable, condition, increment \in BOOLEAN :
       /\ IF increment
          THEN /\ code' = patch_jump(ForStepped(variable, condition), Len(ForTested(variable, condition)))
               /\ open' = Append(open, ForItem(Len(ForTested(variable, condition)) + Size("JUMP")))
          ELSE /\ code' = ForTested(variable, condition)
               /\ open' = Append(open, ForItem(Len(ForStarted(variable))))
       /\ IF variable
          THEN \E c \in Captures : /\ "captured counter" \in Programs \/ ~c
                                   /\ locals' = Append(locals, ForLocal(c))
          ELSE locals' = locals
  BY ForBeginIs
<1> DEFINE started == ForStarted(variable)
           tested == ForTested(variable, condition)
           step == ForStep(variable, condition)
           stepped == ForStepped(variable, condition)
           depth == ForDepth(variable)
<1>6. /\ started \in Codes /\ Longer(code, started) /\ Len(started) \in Nat /\ depth \in Nat
      /\ tested \in Codes /\ Len(tested) \in Nat /\ Len(started) <= Len(tested)
      /\ stepped \in Codes /\ Len(stepped) = Len(tested) + 9
  BY <1>1, ForLengths
<1>7. Scoped' /\ locals' \in Seq(Locals)
  BY ForBeginScoped DEF Scoped
<1>8. scope' = scope + 2
  BY DEF ForBegin
<1>9. Len(locals') = depth /\ \A i \in 1..Len(locals') : locals'[i].level <= scope + 1
  <2>1. \A i \in 1..Len(locals) : locals[i].level \in Nat /\ locals[i].level <= scope
    BY <1>1, LevelIs DEF Nested
  <2>2. CASE ~variable
    BY <1>1, <1>5, <2>1, <2>2 DEF ForDepth
  <2>3. CASE variable
    <3>1. PICK c \in Captures : locals' = Append(locals, ForLocal(c))
      BY <1>5, <2>3
    <3> DEFINE l == ForLocal(c)
    <3>2. l \in Locals /\ l.level = scope + 1
      <4>1. c \in BOOLEAN
        BY LoopsAssumption
      <4>2. scope + 1 \in Nat
        BY <1>1
      <4>3. l \in Locals
        BY <4>1, <4>2, Zenon DEF Locals, ForLocal
      <4>4. QED BY <4>3 DEF ForLocal
    <3>3. locals' = Append(locals, l)
      BY <3>1
    <3> HIDE DEF l
    <3>4. /\ Len(locals') = Len(locals) + 1
          /\ locals'[Len(locals) + 1] = l /\ \A i \in 1..Len(locals) : locals'[i] = locals[i]
      BY <1>1, <3>2, <3>3, AppendIs
    <3>5. depth = Len(locals) + 1
      BY <2>3 DEF ForDepth
    <3> HIDE DEF depth
    <3>6. ASSUME NEW i \in 1..Len(locals') PROVE locals'[i].level <= scope + 1
      <4>1. CASE i \in 1..Len(locals)
        <5>1. locals'[i] = locals[i] /\ locals[i].level \in Nat /\ locals[i].level <= scope
          BY <2>1, <3>4, <4>1
        <5>2. QED BY <1>1, <5>1
      <4>2. CASE i = Len(locals) + 1
        <5>1. locals'[i].level = scope + 1
          BY <3>2, <3>4, <4>2
        <5>2. QED BY <1>1, <5>1
      <4>3. QED BY <1>1, <3>4, <4>1, <4>2
    <3>7. Len(locals') = depth
      BY <3>4, <3>5
    <3>8. QED BY <3>6, <3>7
  <2>4. QED BY <2>2, <2>3
<1>10. Writes(started, Ident(Len(locals')), its, locals', lps)
  <2>1. Writes(code, Ident(Len(locals)), its, locals, loops)
    BY DEF Wrote
  <2> DEFINE now == locals'
  <2>n. now = locals'
    OBVIOUS
  <2> HIDE DEF its, r, now
  <2>2. /\ Writes(code, Ident(Len(locals)), its, now, Append(loops, r))
        /\ Writes(code \o Value(Len(locals) + 1, Len(locals)), Ident(Len(locals) + 1), its, now, Append(loops, r))
    BY <1>1, <1>2, <1>4, <2>1, InitializerWrites
  <2>3. CASE variable
    BY <1>9, <2>2, <2>3, <2>n DEF ForStarted, ForDepth
  <2>4. CASE ~variable
    BY <1>9, <2>2, <2>4, <2>n DEF ForStarted, ForDepth
  <2>5. QED BY <2>3, <2>4
<1> HIDE DEF lps, r, id
<1>11. lps[id].top \in Nat /\ lps[id].top <= Len(started)
  BY <1>1, <1>4, <1>6 DEF Longer
<1>12. \A at : ForItem(at) = [kind |-> "for", level |-> scope, at |-> at, loop |-> id]
  BY DEF ForItem, id
<1>t. tested = IF condition THEN started \o Temporary(depth) \o emit_jump("JUMP_IF_FALSE", 0) \o Pop
               ELSE started
  BY DEF ForTested
<1>s. step = tested \o emit_jump("JUMP", 0) \o Temporary(depth) \o Pop /\ stepped = emit_loop(step, Len(started), id)
  BY DEF ForStep, ForStepped, id
<1>c. IF increment THEN /\ code' = patch_jump(stepped, Len(tested))
                        /\ open' = Append(open, ForItem(Len(tested) + Size("JUMP")))
                   ELSE code' = tested /\ open' = Append(open, ForItem(Len(started)))
  BY <1>5
<1> DEFINE ls == locals'
<1>l. ls = locals' /\ ls \in Seq(Locals) /\ Len(ls) = depth /\ \A i \in 1..Len(ls) : ls[i].level <= scope + 1
  BY <1>7, <1>9
<1>w. Writes(started, Ident(Len(ls)), its, ls, lps)
  BY <1>10
<1> HIDE DEF started, tested, step, stepped, depth, its, ls
<1> DEFINE more == its \cup {[kind |-> "for", level |-> scope, at |-> Len(started), loop |-> id]}
<1>13. Writes(tested, Ident(Len(ls)), more, ls, lps)
  <2>1. /\ Writes(started, Ident(Len(ls)), more, ls, lps)
        /\ Writes(started \o Temporary(Len(ls)) \o emit_jump("JUMP_IF_FALSE", 0) \o Pop,
                  Ident(Len(ls)), more, ls, lps)
    BY <1>1, <1>2, <1>4, <1>11, <1>l, <1>w, TestWrites
  <2> HIDE DEF more
  <2>2. CASE condition
    BY <1>l, <1>t, <2>1, <2>2
  <2>3. CASE ~condition
    BY <1>t, <2>1, <2>3
  <2>4. QED BY <2>2, <2>3
<1>14. CASE ~increment
  <2>1. open' = Append(open, ForItem(Len(started))) /\ code' = tested
    BY <1>c, <1>14
  <2>2. ForItem(Len(started)) \in Items
    BY <1>1, <1>4, <1>6, <1>12 DEF Items, Kinds
  <2>3. ItemSet(open') = more
    BY <1>1, <1>12, <2>1, <2>2, ItemSetAppend DEF its
  <2>4. QED BY <1>3, <1>13, <1>l, <2>1, <2>3 DEF Wrote
<1>15. CASE increment
  <2> DEFINE at == Len(tested) + 3
             last == its \cup {[kind |-> "for", level |-> scope, at |-> Len(tested) + 3, loop |-> id]}
  <2>1. open' = Append(open, ForItem(at)) /\ code' = patch_jump(stepped, Len(tested))
    BY <1>c, <1>15, SizeIs
  <2>2. ForItem(at) \in Items
    BY <1>1, <1>4, <1>6, <1>12 DEF Items, Kinds
  <2>3. ItemSet(open') = last
    BY <1>1, <1>12, <2>1, <2>2, ItemSetAppend DEF its
  <2>4. Len(stepped) < DUMMY_JUMP_TARGET
    <3>1. Len(tested) < Len(stepped)
      BY <1>6
    <3>2. Len(patch_jump(stepped, Len(tested))) = Len(stepped)
      BY <1>6, <3>1, PatchLonger
    <3>3. QED BY <2>1, <3>2
  <2> DEFINE ss == Len(started)
  <2>5. Writes(tested, Ident(Len(ls)),
               its \cup {[kind |-> "for", level |-> scope, at |-> ss, loop |-> id]}, ls, lps)
    BY <1>13
  <2>6. ss \in Nat /\ ss <= Len(tested) /\ lps[id].top <= ss
    BY <1>6, <1>11
  <2>7. step = tested \o emit_jump("JUMP", 0) \o Temporary(Len(ls)) \o Pop
    BY <1>l, <1>s
  <2>8. Len(emit_loop(step, ss, id)) < DUMMY_JUMP_TARGET
    BY <1>s, <2>4
  <2>9. patch_jump(emit_loop(step, ss, id), Len(tested)) = code'
    BY <1>s, <2>1
  <2> HIDE DEF ss, at
  <2>10. Writes(patch_jump(emit_loop(step, ss, id), Len(tested)), Ident(Len(ls)),
                its \cup {[kind |-> "for", level |-> scope, at |-> Len(tested) + 3, loop |-> id]}, ls, lps)
    BY <1>1, <1>2, <1>4, <1>11, <1>l, <2>5, <2>6, <2>7, <2>8, IncrementWrites
  <2>11. Writes(code', Ident(Len(ls)), last, ls, lps)
    BY <2>9, <2>10
  <2>12. QED BY <1>3, <1>l, <2>3, <2>11 DEF Wrote
<1>16. QED BY <1>14, <1>15

-----------------------------------------------------------------------------
(* Code that is complete: whatever the conditions, control stays in it.      *)
Stays(c, a) ==
    LET cell == c[a + 1]
        next == a + Size(cell.op)
    IN  /\ cell.op # "RETURN" => next < Len(c)
        /\ cell.op \in {"JUMP", "JUMP_IF_FALSE"} =>
              cell.arg # DUMMY_JUMP_TARGET /\ next + cell.arg < Len(c)
        /\ cell.op = "LOOP" => next - cell.arg < Len(c)

Complete(c, shape) ==
    /\ Coherent(c, shape) /\ 0 < Len(c)
    /\ \A a \in 0..Len(c) - 1 : c[a + 1].op # "operand" => Stays(c, a)

LEMMA OnlyBlocksComplete ==
    ASSUME NEW c, NEW its, \A it \in its : it.kind = "block", NEW ls, NEW lps, NEW s,
           Writes(c, s, its, ls, lps)
    PROVE  LET d == c \o Instruction(Cell("NIL", 0, 0, 0, 0)) \o Instruction(Cell("RETURN", 0, 0, 0, 0))
           IN  \E shape : Complete(d, shape) /\ LoopCells(d, lps)
<1> DEFINE nil == Cell("NIL", 0, 0, 0, 0)
           ret == Cell("RETURN", 0, 0, 0, 0)
           b == c \o Instruction(nil)
           d == b \o Instruction(ret)
           t == Append(s, 0)
<1>1. c \in Codes /\ Len(c) \in Nat /\ s \in Seq(Nat)
  BY DEF Writes, Codes
<1>2. PICK shape : Comp(c, its, ls, lps, shape) /\ shape[Len(c)] = s
  BY DEF Writes
<1>3. /\ nil \in Cells /\ nil.op = "NIL" /\ nil.slot = 0 /\ nil.loop = 0
      /\ ret \in Cells /\ ret.op = "RETURN" /\ ret.loop = 0
  BY DEF Cell, Cells, Ops
<1>4. t \in Seq(Nat) /\ t = Append(s, 0)
  BY <1>1, AppendFront
<1> HIDE DEF nil, ret, t
<1>5. Emitted(c, nil, b)
  BY <1>1, <1>3, EmittedIs
<1>6. Coherent(c, shape)
  BY <1>2, CompCoheres
<1>7. Fits(c, shape, nil, t)
  BY <1>2, <1>3, <1>4 DEF Fits, Discards
<1> HIDE DEF b
<1>8. PICK into : Grows(c, shape, b, into) /\ into[Len(b)] = t
  BY <1>1, <1>5, <1>6, <1>7, FittingGrows
<1>9. Comp(b, its, ls, lps, into) /\ b \in Codes /\ Len(b) \in Nat
  <2>1. nil.op # "JUMP" /\ nil.op # "JUMP_IF_FALSE"
    BY <1>3
  <2>2. Quiet(c, b)
    BY <1>1, <1>3, <1>5, <2>1, QuietEmitted
  <2>3. QED BY <1>1, <1>2, <1>8, <2>2, QuietGrowth DEF Grows, Codes
<1>10. Emitted(b, ret, d)
  BY <1>3, <1>9, EmittedIs
<1>11. Coherent(b, into)
  BY <1>9, CompCoheres
<1>12. Fits(b, into, ret, t)
  BY <1>3, <1>4 DEF Fits, Discards
<1> HIDE DEF d
<1>13. PICK onto : Grows(b, into, d, onto) /\ onto[Len(d)] = t
  BY <1>9, <1>10, <1>11, <1>12, FittingGrows
<1>14. Comp(d, its, ls, lps, onto) /\ d \in Codes /\ Len(d) \in Nat
  <2>1. ret.op # "JUMP" /\ ret.op # "JUMP_IF_FALSE"
    BY <1>3
  <2>2. Quiet(b, d)
    BY <1>3, <1>9, <1>10, <2>1, QuietEmitted
  <2>3. QED BY <1>9, <1>13, <2>2, QuietGrowth DEF Grows, Codes
<1>15. Coherent(d, onto) /\ LoopCells(d, lps)
  BY <1>14, Zenon DEF Comp
<1>16. \A q \in Nat : ~Awaits(d, q, "JUMP_IF_FALSE") /\ ~Awaits(d, q, "JUMP")
  BY <1>14, BlocksAwaitNothing
<1>17. /\ Len(b) = Len(c) + 1 /\ Len(d) = Len(c) + 2
       /\ \A i \in 1..Len(c) : b[i] = c[i] /\ d[i] = c[i]
       /\ d[Len(c) + 1].op = "NIL" /\ d[Len(c) + 2].op = "RETURN"
  <2>1. Len(b) = Len(c) + 1 /\ Len(d) = Len(b) + 1
    BY <1>3, <1>5, <1>10, SizeIs DEF Emitted
  <2>2. \A i \in 1..Len(c) : b[i] = c[i]
    BY <1>5 DEF Emitted
  <2>3. \A i \in 1..Len(b) : d[i] = b[i]
    BY <1>10 DEF Emitted
  <2>4. b[Len(c) + 1] = nil /\ d[Len(b) + 1] = ret
    BY <1>5, <1>10 DEF Emitted
  <2>5. QED BY <1>1, <1>3, <2>1, <2>2, <2>3, <2>4
<1>18. ASSUME NEW a \in 0..Len(d) - 1, d[a + 1].op # "operand" PROVE Stays(d, a)
  <2>1. CASE a \in 0..Len(c) - 1
    <3> DEFINE cell == c[a + 1]
               next == a + Size(cell.op)
    <3>1. d[a + 1] = cell
      BY <1>1, <1>17, <2>1
    <3>2. Sound(c, shape, a)
      BY <1>6, <1>18, <2>1, <3>1 DEF Coherent
    <3>3. /\ Leads(c, shape, next, shape[next])
          /\ cell.op \in {"JUMP", "JUMP_IF_FALSE"} =>
                cell.arg = DUMMY_JUMP_TARGET \/ Leads(c, shape, next + cell.arg, shape[a])
          /\ cell.op = "LOOP" => Leads(c, shape, next - cell.arg, shape[a])
      BY <3>2, Zenon DEF Sound
    <3>4. cell.op \in {"JUMP", "JUMP_IF_FALSE"} => cell.arg # DUMMY_JUMP_TARGET
      <4>1. a \in Nat /\ ~Awaits(d, a, "JUMP_IF_FALSE") /\ ~Awaits(d, a, "JUMP")
        BY <1>14, <1>16
      <4>2. QED BY <1>18, <3>1, <4>1, Zenon DEF Awaits
    <3>5. \A p, r : Leads(c, shape, p, r) => p < Len(d)
      BY <1>1, <1>17 DEF Leads
    <3> HIDE DEF cell, next
    <3>6. /\ next < Len(d)
          /\ cell.op \in {"JUMP", "JUMP_IF_FALSE"} => next + cell.arg < Len(d)
          /\ cell.op = "LOOP" => next - cell.arg < Len(d)
      BY <3>3, <3>4, <3>5, Zenon
    <3>7. QED BY <3>1, <3>4, <3>6, Zenon DEF Stays, next
  <2>2. CASE a = Len(c)
    <3>1. d[a + 1].op = "NIL" /\ a + Size("NIL") < Len(d)
      BY <1>1, <1>17, <2>2, SizeIs
    <3>2. QED BY <3>1 DEF Stays
  <2>3. CASE a = Len(c) + 1
    <3>1. d[a + 1].op = "RETURN"
      BY <1>1, <1>17, <2>3
    <3>2. QED BY <3>1 DEF Stays
  <2>4. QED BY <1>1, <1>17, <2>1, <2>2, <2>3
<1>19. 0 < Len(d)
  BY <1>1, <1>17
<1>20. Complete(d, onto) /\ LoopCells(d, lps)
  BY <1>15, <1>18, <1>19 DEF Complete
<1>21. QED BY <1>20 DEF d, b, nil, ret

-----------------------------------------------------------------------------
(* The code is being written and nothing has run, or it is complete and runs. *)
Idle == phase \in {"compile", "run"} /\ (phase = "compile" => pc = 0 /\ stack = <<>>)

Completed ==
    \E shape : Complete(code, shape) /\ LoopCells(code, loops)
               /\ Leads(code, shape, pc, stack) /\ pc < Len(code)

(* Code whose bytes all have a number below DUMMY_JUMP_TARGET.                *)
Short == Len(code) < DUMMY_JUMP_TARGET

LoopsInv ==
    /\ Scoped /\ Idle
    /\ Short => (phase = "compile" => Wrote) /\ (phase = "run" => Completed)

LEMMA WroteStep ==
    Programs = {} /\ Scoped /\ Wrote /\ Compile /\ ~End /\ Short /\ Short' => Wrote' /\ UNCHANGED <<phase, pc, stack>>
<1> SUFFICES ASSUME Programs = {}, Scoped, Wrote, Compile, ~End, Short, Short'
             PROVE  Wrote' /\ UNCHANGED <<phase, pc, stack>>
  OBVIOUS
<1>s. Len(code') < DUMMY_JUMP_TARGET
  BY DEF Short
<1>1. CASE VarDeclaration
  BY <1>1, VarWrites DEF VarDeclaration, running
<1>2. CASE ExpressionStatement
  BY <1>2, ExpressionWrites DEF ExpressionStatement, running
<1>3. CASE BlockBegin
  BY <1>3, BlockBeginWrites DEF BlockBegin, running
<1>4. CASE BlockEnd
  BY <1>4, BlockEndWrites DEF BlockEnd, running
<1>5. CASE IfBegin
  BY <1>5, IfBeginWrites DEF IfBegin, running
<1>6. CASE ThenEnd
  BY <1>6, <1>s, ThenEndWrites DEF ThenEnd, running
<1>7. CASE ElseEnd
  BY <1>7, <1>s, ElseEndWrites DEF ElseEnd, running
<1>8. CASE WhileBegin
  BY <1>8, WhileBeginWrites DEF WhileBegin, running
<1>9. CASE WhileEnd
  BY <1>9, <1>s, WhileEndWrites DEF WhileEnd, running
<1>10. CASE ForBegin
  BY <1>10, <1>s, ForBeginWrites DEF ForBegin, running
<1>11. CASE ForEnd
  BY <1>11, <1>s, ForEndWrites DEF ForEnd, running
<1>12. CASE ContinueStatement
  BY <1>12, ContinueWrites DEF ContinueStatement, running
<1>13. CASE BreakStatement
  BY <1>13, BreakStatementWrites DEF BreakStatement, running
<1>14. QED BY <1>1, <1>2, <1>3, <1>4, <1>5, <1>6, <1>7, <1>8, <1>9, <1>10, <1>11, <1>12, <1>13 DEF Compile

LEMMA EndFinishes == Scoped /\ Idle /\ Wrote /\ End => Completed' /\ phase' = "run"
<1> SUFFICES ASSUME Scoped, Idle, Wrote, End PROVE Completed' /\ phase' = "run"
  OBVIOUS
<1>1. /\ open = <<>> /\ pc' = pc /\ stack' = stack /\ loops' = loops /\ phase' = "run" /\ phase = "compile"
      /\ code' = code \o Instruction(Cell("NIL", 0, 0, 0, 0)) \o Instruction(Cell("RETURN", 0, 0, 0, 0))
  BY DEF End, running
<1>2. pc = 0 /\ stack = <<>>
  BY <1>1 DEF Idle
<1> DEFINE its == ItemSet(open)
<1>3. \A it \in its : it.kind = "block"
  <2>1. Len(open) = 0
    BY <1>1
  <2>2. QED BY <2>1 DEF ItemSet
<1>4. Writes(code, Ident(Len(locals)), its, locals, loops)
  BY DEF Wrote
<1> HIDE DEF its
<1>5. PICK shape : Complete(code', shape) /\ LoopCells(code', loops)
  BY <1>1, <1>3, <1>4, OnlyBlocksComplete
<1>6. Leads(code', shape, 0, <<>>) /\ 0 < Len(code')
  BY <1>5 DEF Complete, Coherent
<1>7. QED BY <1>1, <1>2, <1>5, <1>6 DEF Completed

LEMMA RunFinishes == Scoped /\ Completed /\ Run => Completed' /\ phase' = phase
<1> SUFFICES ASSUME Scoped, Completed, Run PROVE Completed' /\ phase' = phase
  OBVIOUS
<1>1. PICK shape : /\ Complete(code, shape) /\ LoopCells(code, loops)
                   /\ Leads(code, shape, pc, stack) /\ pc < Len(code)
  BY DEF Completed
<1>2. code' = code /\ loops' = loops /\ phase' = phase
  BY Zenon DEF Run, OpPush, OpPop, OpJump, OpJumpIfFalse, OpLoop, compiling
<1> DEFINE cell == code[pc + 1]
           next == pc + Size(cell.op)
           s == shape[pc]
<1>3. pc \in 0..Len(code) - 1 /\ cell.op # "operand" /\ stack = s /\ pc \in Nat
  BY <1>1 DEF Leads
<1>4. Sound(code, shape, pc) /\ Stays(code, pc)
  BY <1>1, <1>3 DEF Complete, Coherent
<1>5. /\ Leads(code, shape, next, shape[next])
      /\ cell.op \in {"VALUE", "NIL"} => shape[next] = Append(s, cell.slot)
      /\ cell.op \in Discards => s # <<>> /\ shape[next] = SubSeq(s, 1, Len(s) - 1)
      /\ cell.op = "JUMP_IF_FALSE" => shape[next] = s
      /\ cell.op \in {"JUMP", "JUMP_IF_FALSE"} =>
            cell.arg = DUMMY_JUMP_TARGET \/ Leads(code, shape, next + cell.arg, s)
      /\ cell.op = "LOOP" => Leads(code, shape, next - cell.arg, s)
  BY <1>4, Zenon DEF Sound
<1>6. /\ cell.op # "RETURN" => next < Len(code)
      /\ cell.op \in {"JUMP", "JUMP_IF_FALSE"} =>
            cell.arg # DUMMY_JUMP_TARGET /\ next + cell.arg < Len(code)
      /\ cell.op = "LOOP" => next - cell.arg < Len(code)
  BY <1>4, Zenon DEF Stays
<1> SUFFICES Leads(code, shape, pc', stack') /\ pc' < Len(code)
  BY <1>1, <1>2 DEF Completed
<1>7. CASE OpPush
  <2>1. cell.op \in {"VALUE", "NIL"} /\ stack' = Append(stack, cell.slot) /\ pc' = next
    BY <1>7 DEF OpPush, At
  <2> HIDE DEF cell, next, s
  <2>2. shape[next] = stack' /\ cell.op # "RETURN"
    BY <1>3, <1>5, <2>1
  <2>3. QED BY <1>5, <1>6, <2>1, <2>2
<1>8. CASE OpPop
  <2>1. cell.op \in Discards /\ stack' = SubSeq(stack, 1, Len(stack) - 1) /\ pc' = next
    BY <1>8 DEF OpPop, At, Discards
  <2> HIDE DEF cell, next, s
  <2>2. shape[next] = stack' /\ cell.op # "RETURN"
    BY <1>3, <1>5, <2>1 DEF Discards
  <2>3. QED BY <1>5, <1>6, <2>1, <2>2
<1>9. CASE OpJump
  <2>1. cell.op = "JUMP" /\ stack' = stack /\ pc' = next + cell.arg
    BY <1>9, SizeIs DEF OpJump, At, Arg
  <2> HIDE DEF cell, next, s
  <2>2. QED BY <1>3, <1>5, <1>6, <2>1
<1>10. CASE OpJumpIfFalse
  <2>1. cell.op = "JUMP_IF_FALSE" /\ stack' = stack /\ (pc' = next + cell.arg \/ pc' = next)
    BY <1>10, SizeIs DEF OpJumpIfFalse, At, Arg
  <2> HIDE DEF cell, next, s
  <2>2. QED BY <1>3, <1>5, <1>6, <2>1
<1>11. CASE OpLoop
  <2>1. cell.op = "LOOP" /\ stack' = stack /\ pc' = next - cell.arg
    <3>1. cell \in Cells
      BY <1>3 DEF Scoped, Codes
    <3>2. cell.arg \in Int
      BY <3>1 DEF Cells
    <3>3. cell.op = "LOOP" /\ stack' = stack /\ pc' = pc + (3 - cell.arg)
      BY <1>11 DEF OpLoop, At, Arg
    <3>4. next = pc + 3
      BY <3>3, SizeIs
    <3> HIDE DEF next, cell
    <3>5. QED BY <1>3, <3>2, <3>3, <3>4
  <2> HIDE DEF cell, next, s
  <2>2. QED BY <1>3, <1>5, <1>6, <2>1
<1>12. QED BY <1>7, <1>8, <1>9, <1>10, <1>11 DEF Run

LEMMA RunsAsMeant ==
    Completed =>
    /\ pc < Len(code) /\ code[pc + 1].op # "operand"
    /\ code[pc + 1].op \in {"POP", "CLOSE_UPVALUE", "DEFINE_GLOBAL"} => stack # <<>>
    /\ code[pc + 1].op = "VALUE" => stack = [i \in 1..code[pc + 1].depth |-> i]
    /\ code[pc + 1].op = "CLOSE_UPVALUE" => stack[Len(stack)] = code[pc + 1].slot
<1> SUFFICES ASSUME Completed
             PROVE  /\ pc < Len(code) /\ code[pc + 1].op # "operand"
                    /\ code[pc + 1].op \in {"POP", "CLOSE_UPVALUE", "DEFINE_GLOBAL"} => stack # <<>>
                    /\ code[pc + 1].op = "VALUE" => stack = [i \in 1..code[pc + 1].depth |-> i]
                    /\ code[pc + 1].op = "CLOSE_UPVALUE" => stack[Len(stack)] = code[pc + 1].slot
  OBVIOUS
<1>1. PICK shape : Complete(code, shape) /\ Leads(code, shape, pc, stack) /\ pc < Len(code)
  BY DEF Completed
<1> DEFINE cell == code[pc + 1]
<1>2. pc \in 0..Len(code) - 1 /\ cell.op # "operand" /\ shape[pc] = stack
  BY <1>1 DEF Leads
<1>3. Sound(code, shape, pc)
  BY <1>1, <1>2 DEF Complete, Coherent
<1>4. /\ cell.op = "VALUE" => stack = Ident(cell.depth)
      /\ cell.op \in Discards => stack # <<>>
      /\ cell.op = "CLOSE_UPVALUE" => stack[Len(stack)] = cell.slot
  BY <1>2, <1>3, Zenon DEF Sound
<1>5. QED BY <1>1, <1>2, <1>4 DEF Ident, Discards

LEMMA LoopsStart == LoopsInit => LoopsInv
<1> SUFFICES ASSUME LoopsInit PROVE LoopsInv
  OBVIOUS
<1>1. /\ code = <<>> /\ locals = <<>> /\ scope = 0 /\ open = <<>> /\ loops = <<>>
      /\ phase = "compile" /\ pc = 0 /\ stack = <<>>
  BY DEF LoopsInit
<1>2. \A S : <<>> \in Seq(S)
  BY EmptySeq
<1>3. code \in Codes /\ Len(code) = 0 /\ Len(locals) = 0 /\ Len(open) = 0
  BY <1>1, <1>2 DEF Codes
<1>4. Nested(open, locals, scope)
  BY <1>3 DEF Nested, Sorted
<1>5. Standing(open, locals, loops, Len(code))
  BY <1>3 DEF Standing, Outermost
<1>6. Scoped
  BY <1>1, <1>2, <1>3, <1>4, <1>5 DEF Scoped
<1> DEFINE shape == [n \in Nat |-> <<>>]
           its == ItemSet(open)
<1>7. shape \in Shapes /\ shape[0] = <<>> /\ Ident(0) = <<>> /\ Ident(0) \in Seq(Nat)
  BY <1>2, EmptyIdent DEF Shapes
<1> HIDE DEF shape
<1>8. \A it : it \notin its
  BY <1>3 DEF ItemSet
<1> HIDE DEF its
<1>9. Coherent(code, shape)
  BY <1>3, <1>7 DEF Coherent, Leads
<1>10. /\ \A op : \A p \in Nat : ~Awaits(code, p, op)
       /\ LoopCells(code, loops) /\ \A o : o \notin 1..Len(code)
  BY <1>3 DEF Awaits, LoopCells
<1>11. Comp(code, its, locals, loops, shape)
  BY <1>8, <1>9, <1>10, Zenon DEF Comp
<1>12. Wrote
  BY <1>3, <1>7, <1>11 DEF Wrote, Writes, its
<1>13. QED BY <1>1, <1>6, <1>12 DEF LoopsInv, Idle

LEMMA LoopsStep == Programs = {} /\ LoopsInv /\ [LoopsNext]_loops_vars => LoopsInv'
<1> SUFFICES ASSUME Programs = {}, LoopsInv, [LoopsNext]_loops_vars PROVE LoopsInv'
  OBVIOUS
<1>1. Scoped /\ Idle /\ (Short => (phase = "compile" => Wrote) /\ (phase = "run" => Completed))
  BY DEF LoopsInv
<1>2. CASE UNCHANGED loops_vars
  BY <1>1, <1>2 DEF loops_vars, LoopsInv, Scoped, Idle, Short, Wrote, Completed
<1>3. CASE LoopsNext
  <2>1. Scoped' /\ (code' = code \/ Longer(code, code'))
    BY <1>1, <1>3, ScopedStep
  <2>2. Short' => Short
    <3>1. Len(code) \in Nat /\ Len(code') \in Nat
      BY <1>1, <2>1 DEF Scoped, Codes
    <3>2. Len(code) <= Len(code')
      BY <2>1, <3>1 DEF Longer
    <3>3. QED BY <3>1, <3>2 DEF Short, DUMMY_JUMP_TARGET
  <2>3. CASE Compile /\ ~End
    <3>1. phase = "compile" /\ phase' = phase /\ pc' = pc /\ stack' = stack
      BY <2>3, Zenon DEF Compile, VarDeclaration, ExpressionStatement, BlockBegin, BlockEnd, IfBegin, ThenEnd,
           ElseEnd, WhileBegin, WhileEnd, ForBegin, ForEnd, ContinueStatement, BreakStatement,
           Statement, Statements, Ends, running
    <3>2. Idle' /\ phase' = "compile"
      BY <1>1, <3>1 DEF Idle
    <3>3. Short' => Wrote'
      BY <1>1, <2>2, <2>3, <3>1, WroteStep
    <3>4. QED BY <2>1, <3>2, <3>3 DEF LoopsInv
  <2>4. CASE End
    <3>1. phase = "compile"
      BY <2>4 DEF End
    <3>2. phase' = "run"
      BY <2>4 DEF End
    <3>3. Short' => Completed'
      BY <1>1, <2>2, <2>4, <3>1, EndFinishes
    <3>4. QED BY <2>1, <3>2, <3>3 DEF LoopsInv, Idle
  <2>5. CASE Run
    <3>1. phase = "run" /\ phase' = "run" /\ code' = code
      BY <2>5, Zenon DEF Run, OpPush, OpPop, OpJump, OpJumpIfFalse, OpLoop, At, compiling
    <3>2. Short' => Completed'
      BY <1>1, <2>2, <2>5, <3>1, RunFinishes
    <3>3. QED BY <2>1, <3>1, <3>2 DEF LoopsInv, Idle
  <2>6. QED BY <1>3, <2>3, <2>4, <2>5 DEF LoopsNext
<1>4. QED BY <1>2, <1>3

LEMMA LoopsAlways == ASSUME Programs = {} PROVE LoopsSpec => []LoopsInv
<1>1. LoopsInv /\ [LoopsNext]_loops_vars => LoopsInv'
  BY LoopsStep
<1>2. QED BY <1>1, LoopsStart, PTL DEF LoopsSpec

-----------------------------------------------------------------------------
(***************************************************************************)
(* The theorems are about plain programs, Programs = {}: a loop stands at    *)
(* the top level or in blocks, a while has one break at most, outside the    *)
(* scope of its body's variables, a for has none, and its counter is not     *)
(* captured.  Each of the others can be compiled to code that goes astray.   *)
(* The number of statements and how deep they nest, the variables, which of  *)
(* them are captured, and the branches the program takes, are any.           *)
(*                                                                         *)
(* The code is Short while no distance can be 0xffff, the placeholder that   *)
(* the ends of loops look for, or be cut to 16 bits by them.                 *)
(***************************************************************************)

(* Wherever the branches of a plain program take the machine, it reads an     *)
(* instruction of the code and never an operand, finds on the stack what the  *)
(* instruction takes, and begins every statement with exactly the variables   *)
(* of compiler->locals on the stack.                                        *)
THEOREM ShortStackIsScope ==
    ASSUME Programs = {}
    PROVE  LoopsSpec => [](Short => StackIsScope)
<1>1. LoopsInv => (Short => StackIsScope)
  <2> SUFFICES ASSUME LoopsInv, Short, phase = "run"
               PROVE  /\ pc < Len(code) /\ code[pc + 1].op # "operand"
                      /\ code[pc + 1].op \in {"POP", "CLOSE_UPVALUE", "DEFINE_GLOBAL"} => stack # <<>>
                      /\ code[pc + 1].op = "VALUE" => stack = [i \in 1..code[pc + 1].depth |-> i]
    BY DEF StackIsScope
  <2>1. Completed
    BY DEF LoopsInv
  <2>2. QED BY <2>1, RunsAsMeant
<1>2. QED BY <1>1, LoopsAlways, PTL

(* In a plain program, the OP_CLOSE_UPVALUE that end_scope, break or continue *)
(* emits for a captured variable finds that variable on top of the stack.    *)
THEOREM ShortClosesItsVariable ==
    ASSUME Programs = {}
    PROVE  LoopsSpec => [](Short => ClosesItsVariable)
<1>1. LoopsInv => (Short => ClosesItsVariable)
  BY RunsAsMeant DEF LoopsInv, ClosesItsVariable, At
<1>2. QED BY <1>1, LoopsAlways, PTL

(* In a plain program, each jump of a loop goes where that loop says: back    *)
(* to its condition or its step, on to its end, or nowhere until its end is   *)
(* compiled, whatever other loops have patched before and after it.          *)
THEOREM ShortLoopsKeepTheirJumps ==
    ASSUME Programs = {}
    PROVE  LoopsSpec => [](Short => LoopsKeepTheirJumps)
<1>1. LoopsInv => (Short => LoopsKeepTheirJumps)
  <2> SUFFICES ASSUME LoopsInv, Short PROVE LoopsKeepTheirJumps
    OBVIOUS
  <2>1. LoopCells(code, loops)
    <3>1. CASE phase = "compile"
      <4>1. PICK shape : Comp(code, ItemSet(open), locals, loops, shape)
        BY <3>1 DEF LoopsInv, Wrote, Writes
      <4>2. QED BY <4>1, Zenon DEF Comp
    <3>2. CASE phase = "run"
      BY <3>2 DEF LoopsInv, Completed
    <3>3. QED BY <3>1, <3>2 DEF LoopsInv, Idle
  <2>2. DOMAIN code = 1..Len(code)
    BY DEF LoopsInv, Scoped, Codes
  <2>3. \A o \in DOMAIN code : LoopCell(code, loops, o)
    BY <2>1, <2>2 DEF LoopCells
  <2>4. QED BY <2>3, Zenon DEF LoopCell, LoopsKeepTheirJumps
<1>2. QED BY <1>1, LoopsAlways, PTL
=============================================================================
