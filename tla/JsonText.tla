------------------------------ MODULE JsonText ------------------------------
(***************************************************************************)
(* The structure of JSON documents: the recursive descent of parseJson()   *)
(* (Json.cpp) over tokens, against a writer that puts a document together  *)
(* token by token and knows at each point what it means. White space is    *)
(* left out; `Scalars` stand for numbers, literals and string values,      *)
(* whose text is the matter of JsonScalars.                                *)
(***************************************************************************)
EXTENDS Integers, SequencesExt

CONSTANTS
  Keys,           (* string tokens that are used as keys                   *)
  Scalars,
  KMaxDepth,      (* kMaxDepth: 64 in the code                             *)
  MaxTokens,      (* bound: length of a document ...                       *)
  MaxWrong        (* ... and of one that has gone wrong                    *)

ASSUME JsonAssumption == KMaxDepth \in Nat /\ MaxTokens \in Nat /\ MaxWrong \in Nat

Tokens == Keys \cup Scalars \cup {"{", "}", "[", "]", ":", ","}

(* A Value: a scalar, an array of values, or an object of members in       *)
(* order.                                                                  *)
Scalar(s) == [kind |-> s, items |-> <<>>]
Compound(kind, items) == [kind |-> kind, items |-> items]
Null == Scalar("null")

-----------------------------------------------------------------------------
(* The parser. m_p is the index `i`, m_depth an argument; an error ends    *)
(* it.                                                                     *)
Token(t, i) == IF i <= Len(t) THEN t[i] ELSE "end"
Failed == [ok |-> FALSE, at |-> 0, value |-> Null]
Parsed(i, v) == [ok |-> TRUE, at |-> i, value |-> v]

TooNested_Later(depth) == depth > KMaxDepth
TooNested(depth) == depth >= KMaxDepth

RECURSIVE ParseValue(_, _, _), ParseArray(_, _, _, _), ParseObject(_, _, _, _)

ParseValue(t, i, depth) ==
  LET token == Token(t, i) IN
  CASE TooNested(depth) -> Failed
    [] ~TooNested(depth) /\ token = "{" ->
         IF Token(t, i + 1) = "}" THEN Parsed(i + 2, Compound("object", <<>>))
         ELSE ParseObject(t, i + 1, depth + 1, <<>>)
    [] ~TooNested(depth) /\ token = "[" ->
         IF Token(t, i + 1) = "]" THEN Parsed(i + 2, Compound("array", <<>>))
         ELSE ParseArray(t, i + 1, depth + 1, <<>>)
    [] OTHER -> IF token \in Scalars \cup Keys THEN Parsed(i + 1, Scalar(token)) ELSE Failed

(* The loops over elements and members; `done` are those parsed so far.    *)
ParseArray(t, i, depth, done) ==
  LET element == ParseValue(t, i, depth)
      all == Append(done, element.value) IN
  CASE ~element.ok -> Failed
    [] element.ok /\ Token(t, element.at) = "," -> ParseArray(t, element.at + 1, depth, all)
    [] element.ok /\ Token(t, element.at) = "]" -> Parsed(element.at + 1, Compound("array", all))
    [] OTHER -> Failed

ParseObject(t, i, depth, done) ==
  LET member == ParseValue(t, i + 2, depth)
      all == Append(done, [key |-> Token(t, i), value |-> member.value]) IN
  CASE Token(t, i) \notin Keys \/ Token(t, i + 1) # ":" -> Failed
    [] Token(t, i) \in Keys /\ Token(t, i + 1) = ":" ->
         CASE ~member.ok -> Failed
           [] member.ok /\ Token(t, member.at) = "," -> ParseObject(t, member.at + 1, depth, all)
           [] member.ok /\ Token(t, member.at) = "}" ->
                Parsed(member.at + 1, Compound("object", all))
           [] OTHER -> Failed

ParseJson(t) ==
  LET document == ParseValue(t, 1, 0) IN
  IF document.ok /\ document.at = Len(t) + 1 THEN document ELSE Failed

-----------------------------------------------------------------------------
(* The writer.                                                             *)
VARIABLES
  text,           (* the tokens written                                    *)
  expects,        (* what may come: "value", "element" (or "]"), "key",    *)
                  (* "member" (or "}"), "colon", "more" (or the end of the *)
                  (* innermost compound), "end"; or "wrong" for ever       *)
  open,           (* the arrays and objects begun, innermost first         *)
  meaning,        (* the document when `expects` is "end"                  *)
  deepest         (* nesting of the most deeply nested value               *)

textVars == <<text, expects, open, meaning, deepest>>

TextInit ==
  /\ text = <<>> /\ expects = "value" /\ open = <<>> /\ meaning = Null /\ deepest = 0

Write(token) == Len(text) < MaxTokens /\ text' = Append(text, token)

Begins ==
  /\ expects \in {"value", "element"} /\ Len(open) <= KMaxDepth
  /\ deepest' = Max({deepest, Len(open) + 1})

(* A value is complete: it is the document, or belongs to `outer`.         *)
Completes(v, outer) ==
  IF outer = <<>> THEN expects' = "end" /\ meaning' = v /\ open' = <<>>
  ELSE LET item == IF Head(outer).kind = "array" THEN v ELSE [key |-> Head(outer).key, value |-> v] IN
       /\ open' = <<[Head(outer) EXCEPT !.items = Append(@, item)]>> \o Tail(outer)
       /\ expects' = "more" /\ UNCHANGED meaning

WriteScalar(s) == Begins /\ Write(s) /\ Completes(Scalar(s), open)

WriteOpen(kind) ==
  /\ Begins /\ Write(IF kind = "array" THEN "[" ELSE "{")
  /\ open' = <<[kind |-> kind, items |-> <<>>, key |-> "none"]>> \o open
  /\ expects' = IF kind = "array" THEN "element" ELSE "member"
  /\ UNCHANGED meaning

WriteClose ==
  /\ open # <<>> /\ expects \in {"more", "element", "member"}
  /\ Write(IF Head(open).kind = "array" THEN "]" ELSE "}")
  /\ Completes(Compound(Head(open).kind, Head(open).items), Tail(open))
  /\ UNCHANGED deepest

WriteKey(k) ==
  /\ expects \in {"key", "member"} /\ Write(k)
  /\ open' = <<[Head(open) EXCEPT !.key = k]>> \o Tail(open)
  /\ expects' = "colon"
  /\ UNCHANGED <<meaning, deepest>>

WriteColon == expects = "colon" /\ Write(":") /\ expects' = "value" /\ UNCHANGED <<open, meaning, deepest>>

WriteComma ==
  /\ expects = "more" /\ Write(",")
  /\ expects' = IF Head(open).kind = "array" THEN "value" ELSE "key"
  /\ UNCHANGED <<open, meaning, deepest>>

(* A token that may not come here, and anything after it.                  *)
May(token) ==
  \/ token \in Scalars \cup Keys \cup {"[", "{"} /\ expects \in {"value", "element"}
  \/ token \in Keys /\ expects \in {"key", "member"}
  \/ token = ":" /\ expects = "colon"
  \/ token = "," /\ expects = "more"
  \/ token = "]" /\ open # <<>> /\ Head(open).kind = "array" /\ expects \in {"more", "element"}
  \/ token = "}" /\ open # <<>> /\ Head(open).kind = "object" /\ expects \in {"more", "member"}

WriteWrong(token) ==
  /\ ~May(token) /\ Len(text) < MaxWrong /\ Write(token)
  /\ expects' = "wrong" /\ open' = <<>> /\ meaning' = Null /\ deepest' = 0

TextNext ==
  \/ \E s \in Scalars \cup Keys : WriteScalar(s)
  \/ \E kind \in {"array", "object"} : WriteOpen(kind)
  \/ \E k \in Keys : WriteKey(k)
  \/ WriteClose \/ WriteColon \/ WriteComma
  \/ \E token \in Tokens : WriteWrong(token)

-----------------------------------------------------------------------------
(* parseJson() accepts what a writer can have written, completely and      *)
(* within the depth, and nothing else ("trailing commas" and trailing      *)
(* characters included), and reads it as it was meant: objects in          *)
(* insertion order, a key that is written twice twice. The depth counts    *)
(* scalars as a level.                                                     *)
DocumentsParsed ==
  LET read == ParseJson(text) IN
  /\ read.ok <=> expects = "end" /\ deepest <= KMaxDepth
  /\ read.ok => read.value = meaning
=============================================================================
