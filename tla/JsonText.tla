------------------------------- MODULE JsonText -------------------------------
(***************************************************************************)
(* The JSON library of cs/net/json: the text that a value is written as    *)
(* and the value that is read from a text.                                 *)
(*                                                                         *)
(* A text is the sequence of its bytes, and so is a string.                *)
(*                                                                         *)
(* A parser takes a text and a cursor, 1 at its first byte, and returns    *)
(* the value and the cursor behind it and the whitespace after it, or Fail.*)
(***************************************************************************)
EXTENDS JsonValue

CONSTANT IntBits   \* the width of an int

ASSUME IntAssumption == IntBits \in Nat \ {0}

\* SET_OR_RET: F of the value and of the cursor behind it.
Then(result, F(_, _)) == IF result = Fail THEN Fail ELSE F(result[1], result[2])

Quote == 34
Comma == 44
Minus == 45
Zero == 48
Colon == 58
Backslash == 92
LetterU == 117
OpenArray == 91
CloseArray == 93
OpenMap == 123
CloseMap == 125

Digit == 48 .. 57

NullText == <<110, 117, 108, 108>>
TrueText == <<116, 114, 117, 101>>
FalseText == <<102, 97, 108, 115, 101>>

\* Escaped[c]: the byte that backslash and c stand for.
Escaped ==
    34 :> 34 @@ 92 :> 92 @@ 47 :> 47 @@ 98 :> 8 @@ 102 :> 12 @@ 110 :> 10 @@
    114 :> 13 @@ 116 :> 9

\* A std::string has a zero behind its last byte.
At(s, i) == IF i <= Len(s) THEN s[i] ELSE 0

MaybeConsumeWhitespace(s, i) ==
    LET next == SelectInSubSeq(s, i, Len(s), LAMBDA c : c \notin {9, 10, 13, 32})
    IN  IF next = 0 THEN Len(s) + 1 ELSE next

TryConsumeString(s, target, i) ==
    i + Len(target) - 1 <= Len(s) /\ SubSeq(s, i, i + Len(target) - 1) = target

Word(s, target, value, i) ==
    IF TryConsumeString(s, target, i)
    THEN <<value, MaybeConsumeWhitespace(s, i + Len(target))>>
    ELSE Fail

-----------------------------------------------------------------------------
(* Numbers *)

\* static_cast<int> of a long.
ToInt(n) == ((n + 2^(IntBits - 1)) % 2^IntBits) - 2^(IntBits - 1)

\* The largest long, which is twice as wide as an int.
LongMax == 2^(2 * IntBits - 2) - 1 + 2^(2 * IntBits - 2)

\* strtol, before it looks at the range.
Decimal(digits) == FoldLeft(LAMBDA n, d : 10 * n + d - Zero, 0, digits)

ParseJsonNumberStrict(s, i) ==
    LET from  == IF At(s, i) = Minus THEN i + 1 ELSE i
        other == SelectInSubSeq(s, from, Len(s), LAMBDA c : c \notin Digit)
        end   == IF other = 0 THEN Len(s) + 1 ELSE other
        n     == Decimal(SubSeq(s, from, end - 1))
        value == IF from = i THEN n ELSE -n
    IN  IF \/ end = from
           \/ At(s, from) = Zero /\ end > from + 1
           \/ value \notin -LongMax - 1 .. LongMax
        THEN Fail
        ELSE <<<<"int", ToInt(value)>>, MaybeConsumeWhitespace(s, end)>>

-----------------------------------------------------------------------------
(* Strings *)

HexToInt(c) ==
    IF c \in Digit THEN c - 48
    ELSE IF c \in 97 .. 102 THEN c - 87
    ELSE IF c \in 65 .. 70 THEN c - 55
    ELSE -1

\* The four hexadecimal digits at i, -1 if one of them is none.
CodeUnit(s, i) ==
    LET hex == [n \in 1 .. 4 |-> HexToInt(At(s, i + n - 1))]
    IN  IF -1 \in ToSet(hex) THEN -1
        ELSE FoldLeft(LAMBDA unit, h : 16 * unit + h, 0, hex)

HighSurrogate == 55296 .. 56319
LowSurrogate == 56320 .. 57343

\* The bytes of a code point in UTF-8.
AppendCodepoint(codepoint) ==
    LET rest(n) == 128 + ((codepoint \div 64^n) % 64)
    IN  IF codepoint < 128 THEN <<codepoint>>
        ELSE IF codepoint < 2048 THEN <<192 + codepoint \div 64, rest(0)>>
        ELSE IF codepoint < 65536
        THEN <<224 + codepoint \div 4096, rest(1), rest(0)>>
        ELSE <<240 + codepoint \div 262144, rest(2), rest(1), rest(0)>>

\* The bytes that an escape stands for whose character after the backslash is
\* at i, and the cursor behind it.
Escape(s, i) ==
    LET unit == CodeUnit(s, i + 1)
        low  == CodeUnit(s, i + 7)
    IN  IF At(s, i) \in DOMAIN Escaped THEN <<<<Escaped[At(s, i)]>>, i + 1>>
        ELSE IF At(s, i) # LetterU \/ unit = -1 \/ unit \in LowSurrogate THEN Fail
        ELSE IF unit \notin HighSurrogate THEN <<AppendCodepoint(unit), i + 5>>
        ELSE IF SubSeq(s, i + 5, i + 6) = <<Backslash, LetterU>> /\ low \in LowSurrogate
        THEN <<AppendCodepoint(65536 + (unit - 55296) * 1024 + low - 56320), i + 11>>
        ELSE Fail

RECURSIVE Characters(_, _, _)
Characters(s, i, result) ==
    LET c == At(s, i)
    IN  IF c = Quote
        THEN <<<<"string", result>>, MaybeConsumeWhitespace(s, i + 1)>>
        ELSE IF c = Backslash
        THEN Then(Escape(s, i + 1), LAMBDA bytes, next :
                Characters(s, next, result \o bytes))
        ELSE IF c < 32 THEN Fail
        ELSE Characters(s, i + 1, Append(result, c))

ParseJsonStringStrict(s, i) ==
    IF At(s, i) = Quote THEN Characters(s, i + 1, <<>>) ELSE Fail

-----------------------------------------------------------------------------
(* Arrays, maps and objects *)

RECURSIVE ParseObject(_, _), Elements(_, _, _, _), ElementsOrEnd(_, _, _, _)

\* An element of an array, or a key and its value in a map.
KeyValue(s, i) ==
    Then(ParseJsonStringStrict(s, i), LAMBDA key, colon :
        IF At(s, colon) # Colon THEN Fail
        ELSE Then(ParseObject(s, MaybeConsumeWhitespace(s, colon + 1)),
                  LAMBDA value, next : <<<<key[2], value>>, next>>))

\* Mutant of Elements: the end of the text closes every bracket.
ElementsOrEnd(s, i, close, before) ==
    Then(IF close = CloseMap THEN KeyValue(s, i) ELSE ParseObject(s, i),
         LAMBDA element, end :
            LET all  == Append(before, element)
                next == MaybeConsumeWhitespace(s, end + 1)
            IN  IF At(s, end) \in {close, 0} THEN <<all, next>>
                ELSE IF At(s, end) # Comma \/ At(s, next) = close THEN Fail
                ELSE ElementsOrEnd(s, next, close, all))

\* The elements from the cursor to the closing bracket.
Elements(s, i, close, before) ==
    Then(IF close = CloseMap THEN KeyValue(s, i) ELSE ParseObject(s, i),
         LAMBDA element, end :
            LET all  == Append(before, element)
                next == MaybeConsumeWhitespace(s, end + 1)
            IN  IF At(s, end) = close THEN <<all, next>>
                ELSE IF At(s, end) # Comma \/ At(s, next) = close THEN Fail
                ELSE Elements(s, next, close, all))

\* The cursor is at the opening bracket.
Bracketed(s, i, close) ==
    LET first == MaybeConsumeWhitespace(s, i + 1)
    IN  IF At(s, first) = close THEN <<<<>>, MaybeConsumeWhitespace(s, first + 1)>>
        ELSE Elements(s, first, close, <<>>)

ParseArray(s, i) ==
    Then(Bracketed(s, i, CloseArray), LAMBDA elements, next : <<<<"array", elements>>, next>>)

\* A later value of a key replaces an earlier one.
Put(map, kv) == kv[1] :> kv[2] @@ map

ParseMap(s, i) ==
    Then(Bracketed(s, i, CloseMap), LAMBDA pairs, next :
        <<<<"map", FoldLeft(Put, <<>>, pairs)>>, next>>)

\* A text of whitespace alone is null.
ParseObject(s, cursor) ==
    LET i == MaybeConsumeWhitespace(s, cursor)
        c == At(s, i)
    IN  IF cursor > Len(s) THEN Fail
        ELSE IF i > Len(s) THEN <<Null, i>>
        ELSE CASE c = OpenMap                  -> ParseMap(s, i)
               [] c = OpenArray                -> ParseArray(s, i)
               [] c \in Digit \union {Minus}   -> ParseJsonNumberStrict(s, i)
               [] c = Quote                    -> ParseJsonStringStrict(s, i)
               [] c = Head(TrueText)           -> Word(s, TrueText, <<"bool", TRUE>>, i)
               [] c = Head(FalseText)          -> Word(s, FalseText, <<"bool", FALSE>>, i)
               [] c = Head(NullText)           -> Word(s, NullText, Null, i)
               [] OTHER                        -> Fail

\* What is behind the value is not looked at.
Parse(s) == Then(ParseObject(s, 1), LAMBDA object, next : object)

-----------------------------------------------------------------------------
(* Serialization, without indentation *)

RECURSIVE Digits(_)
Digits(n) == IF n < 10 THEN <<Zero + n>> ELSE Append(Digits(n \div 10), Zero + (n % 10))

HexDigit(n) == IF n < 10 THEN 48 + n ELSE 87 + n

\* Mutant of WriteCharacter: the backslash itself is not escaped.
WriteCharacterPlain(c) == <<c>>

WriteCharacter(c) ==
    LET letter == {e \in DOMAIN Escaped : Escaped[e] = c /\ c # 47}
    IN  IF letter # {} THEN <<Backslash, CHOOSE e \in letter : TRUE>>
        ELSE IF c < 32
        THEN <<Backslash, LetterU, 48, 48, HexDigit(c \div 16), HexDigit(c % 16)>>
        ELSE <<c>>

Joined(texts) ==
    FlattenSeq([i \in DOMAIN texts |-> IF i = 1 THEN texts[i] ELSE <<Comma>> \o texts[i]])

\* The keys of a map are written as they are.
RECURSIVE SerializeObject(_)
SerializeObject(object) ==
    LET value == object[2]
    IN  CASE object[1] = "null"   -> NullText
          [] object[1] = "bool"   -> IF value THEN TrueText ELSE FalseText
          [] object[1] = "int"    -> IF value < 0 THEN <<Minus>> \o Digits(-value)
                                     ELSE Digits(value)
          [] object[1] = "string" ->
                <<Quote>> \o FlattenSeq([i \in DOMAIN value |-> WriteCharacter(value[i])])
                          \o <<Quote>>
          [] object[1] = "array"  ->
                <<OpenArray>>
                \o Joined([i \in DOMAIN value |-> SerializeObject(value[i])])
                \o <<CloseArray>>
          [] object[1] = "map"    ->
                LET keys == SetToSortSeq(DOMAIN value, LessString)
                IN  <<OpenMap>>
                    \o Joined([i \in DOMAIN keys |->
                        <<Quote>> \o keys[i] \o <<Quote, Colon>>
                        \o SerializeObject(value[keys[i]])])
                    \o <<CloseMap>>
=============================================================================
