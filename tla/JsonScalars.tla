----------------------------- MODULE JsonScalars -----------------------------
(***************************************************************************)
(* The text of JSON strings and numbers: parseString() and parseNumber()   *)
(* (Json.cpp) against the JSON grammar, over every short text.             *)
(*                                                                         *)
(* A string is a sequence of units after its opening quote. "plain" and    *)
(* "escape" stand for any character written as itself or with an escape    *)
(* such as \n, "control" for a raw control character, "unknown" for a      *)
(* backslash with a letter JSON does not have, "badhex" for a \u without   *)
(* four hex digits, and "high", "low" and "other" for a \u that is half of *)
(* a surrogate pair, or neither. A number is a sequence of characters,     *)
(* here with digits 0 and 1.                                               *)
(***************************************************************************)
EXTENDS Integers, SequencesExt

CONSTANTS
  MaxUnits,       (* bound: length of a string                              *)
  MaxNumber,      (* bound: length of a number                              *)
  IntMin, IntMax, (* the range of int64                                     *)
  MaxExponent     (* decimal exponents a double can have, in absolute value *)

ASSUME ScalarsAssumption ==
  /\ MaxUnits \in Nat /\ MaxNumber \in Nat /\ MaxExponent \in Nat
  /\ IntMin \in Int /\ IntMax \in Int

Good == {"plain", "escape", "high", "low", "other"}
Units == Good \cup {"quote", "control", "unknown", "badhex"}
Escaped == {"high", "low", "other", "badhex"}

Digits == {"0", "1"}
NumberChars == Digits \cup {"-", "+", ".", "e"}

VARIABLES
  string,         (* the units after an opening quote, to the end of the text *)
  number          (* the characters of a number, to the end of the text       *)

scalarVars == <<string, number>>

ScalarInit == string = <<>> /\ number = <<>>

AnotherUnit ==
  /\ number = <<>> /\ Len(string) < MaxUnits
  /\ \E u \in Units : string' = Append(string, u)
  /\ UNCHANGED number

AnotherCharacter ==
  /\ string = <<>> /\ Len(number) < MaxNumber
  /\ \E c \in NumberChars : number' = Append(number, c)
  /\ UNCHANGED string

ScalarNext == AnotherUnit \/ AnotherCharacter

-----------------------------------------------------------------------------
(* parseString(). `chars` are the characters it has pushed; "?" is U+FFFD. *)
NoString == [ok |-> FALSE, chars |-> <<>>, at |-> 0]

(* What a \u escape at unit i of s stands for, and how many units it       *)
(* takes: a high surrogate takes a following \u with it whatever that one  *)
(* is.                                                                     *)
Pairing_Never(s, i) == [char |-> IF s[i] = "other" THEN "other" ELSE "?", units |-> 1]
Pairing(s, i) ==
  IF s[i] = "high" /\ i < Len(s) /\ s[i + 1] \in Escaped
  THEN [char |-> IF s[i + 1] = "low" THEN "pair" ELSE "?", units |-> 2]
  ELSE [char |-> IF s[i] = "other" THEN "other" ELSE "?", units |-> 1]

RECURSIVE ParseString(_, _, _)
ParseString(s, i, chars) ==
  CASE i > Len(s) -> NoString
    [] i <= Len(s) /\ s[i] = "quote" -> [ok |-> TRUE, chars |-> chars, at |-> i + 1]
    [] i <= Len(s) /\ s[i] \in {"plain", "escape"} -> ParseString(s, i + 1, Append(chars, s[i]))
    [] i <= Len(s) /\ s[i] \in Escaped \ {"badhex"} ->
         LET read == Pairing(s, i) IN
         IF \E k \in i .. i + read.units - 1 : s[k] = "badhex" THEN NoString
         ELSE ParseString(s, i + read.units, Append(chars, read.char))
    [] OTHER -> NoString

(* The string that is meant: the units before the closing quote, a         *)
(* surrogate pair being one character and a surrogate alone none that      *)
(* exists.                                                                 *)
Closing == CHOOSE i \in DOMAIN string : string[i] = "quote" /\ \A k \in 1 .. i - 1 : string[k] # "quote"

Paired(i) == string[i] = "high" /\ string[i + 1] = "low"
Meant(i) ==
  CASE string[i] \in {"plain", "escape", "other"} -> string[i]
    [] string[i] = "high" -> IF Paired(i) THEN "pair" ELSE "?"
    [] OTHER -> "?"

Inside == [i \in 1 .. Closing - 1 |-> i]
MeantString ==
  LET first == SelectSeq(Inside, LAMBDA i : ~(i > 1 /\ Paired(i - 1))) IN
  [k \in DOMAIN first |-> Meant(first[k])]

HasEnd == "quote" \in ToSet(string)
Clean == \A i \in 1 .. Closing - 1 : string[i] \in Good

(* A high surrogate before an escape that is not the low one: the code has *)
(* a single U+FFFD for the two.                                            *)
Swallows == \E i \in 1 .. Len(string) - 1 : string[i] = "high" /\ string[i + 1] \in {"high", "other"}

-----------------------------------------------------------------------------
(* A decimal number in s: sign 1..i, digits before the point i+1..j, point *)
(* and digits after it j+1..k, exponent k+1..Len(s); parts may be missing. *)
AllDigits(s, a, b) == \A i \in a .. b : s[i] \in Digits
Parts(s) ==
  {p \in [i : 0..1, j : 0..Len(s), k : 0..Len(s)] :
     /\ p.i <= Len(s) /\ p.i <= p.j /\ p.j <= p.k
     /\ p.i = 1 => s[1] \in {"-", "+"}
     /\ AllDigits(s, p.i + 1, p.j)
     /\ p.j < p.k => s[p.j + 1] = "." /\ AllDigits(s, p.j + 2, p.k)
     /\ p.k < Len(s) =>
          /\ s[p.k + 1] = "e"
          /\ LET from == IF p.k + 2 <= Len(s) /\ s[p.k + 2] \in {"-", "+"} THEN p.k + 3 ELSE p.k + 2 IN
             from <= Len(s) /\ AllDigits(s, from, Len(s))}

Significant(s, p) == {n \in p.i + 1 .. p.k : s[n] \in Digits}

Magnitude(s, a, b) == FoldLeft(LAMBDA n, c : IF c = "1" THEN 10 * n + 1 ELSE IF c = "0" THEN 10 * n ELSE n,
                               0, SubSeq(s, a, b))
InRange(s, p) ==
  \/ \A n \in Significant(s, p) : s[n] = "0"
  \/ Magnitude(s, p.k + 1, Len(s)) <= MaxExponent

(* std::stoll and std::stod read the longest prefix that is a number and   *)
(* throw if there is none, or if it is out of range.                       *)
DecimalPrefixes(s) ==
  {n \in 1..Len(s) : \E p \in Parts(SubSeq(s, 1, n)) : Significant(SubSeq(s, 1, n), p) # {}}

NoNumber == [ok |-> FALSE, kind |-> "null", value |-> 0, used |-> 0]

Stod(s) ==
  IF DecimalPrefixes(s) = {} THEN NoNumber
  ELSE LET n == Max(DecimalPrefixes(s))
           prefix == SubSeq(s, 1, n)
       IN IF \E p \in Parts(prefix) : Significant(prefix, p) # {} /\ InRange(prefix, p)
          THEN [ok |-> TRUE, kind |-> "double", value |-> 0, used |-> n] ELSE NoNumber

Stoll(s) ==
  LET n == Magnitude(s, 1, Len(s))
      value == IF s[1] = "-" THEN -n ELSE n
  IN IF s # <<"-">> /\ value \in IntMin..IntMax
     THEN [ok |-> TRUE, kind |-> "int", value |-> value, used |-> Len(s)] ELSE NoNumber

(* parseNumber() of a text of NumberChars, all of which it takes.          *)
Integral(s) == AllDigits(s, IF s[1] = "-" THEN 2 ELSE 1, Len(s))

ParseNumber(s) ==
  IF s = <<>> THEN NoNumber
  ELSE IF Integral(s) /\ Stoll(s).ok THEN Stoll(s)
  ELSE Stod(s)

(* A number by the JSON grammar: no plus sign, no leading zero, digits on  *)
(* both sides of a point.                                                  *)
JsonParts(s) ==
  {p \in Parts(s) :
     /\ p.i = 1 => s[1] = "-"
     /\ p.j > p.i
     /\ p.j > p.i + 1 => s[p.i + 1] # "0"
     /\ p.k # p.j + 1}

-----------------------------------------------------------------------------
(* "strings with standard escapes incl. \uXXXX (surrogate pairs ->         *)
(* UTF-8)": a string is accepted up to its closing quote if it has no unit *)
(* that is not JSON, and read as it was meant, a surrogate without its     *)
(* other half as U+FFFD. Left out are the strings in which the code        *)
(* swallows the escape after a high surrogate.                             *)
StringsDecoded ==
  LET read == ParseString(string, 1, <<>>) IN
  /\ read.ok <=> HasEnd /\ Clean
  /\ read.ok => read.at = Closing + 1
  /\ read.ok /\ ~Swallows => read.chars = MeantString

(* "numbers (int64 when integral, double otherwise)": every JSON number a  *)
(* double can hold is accepted and used to its end; it is an int, with its *)
(* value, exactly if it has neither point nor exponent and fits. More than *)
(* JSON is accepted; but what is accepted begins with a number.            *)
NumbersRead ==
  LET read == ParseNumber(number) IN
  /\ \A p \in JsonParts(number) : number # <<>> /\ InRange(number, p) =>
       /\ read.ok /\ read.used = Len(number)
       /\ LET n == IF p.i = 1 THEN -Magnitude(number, 1, p.j) ELSE Magnitude(number, 1, p.j) IN
          IF p.j = Len(number) /\ n \in IntMin..IntMax
          THEN read.kind = "int" /\ read.value = n ELSE read.kind = "double"
  /\ read.ok => number # <<>> /\ \E c \in Digits : c \in ToSet(SubSeq(number, 1, read.used))

ScalarsDecoded == StringsDecoded /\ NumbersRead
=============================================================================
