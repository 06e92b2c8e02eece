-------------------------------- MODULE MCPage --------------------------------
(***************************************************************************)
(* Small instances of Page for TLC.                                        *)
(***************************************************************************)
EXTENDS Page

\* The bytes of the characters in use: "lt" is the name of an entity, "{x}" a
\* template's hole.  Any other character has its byte, in hex, as its name.
Digits == {"0", "1", "2", "3", "4", "5", "6", "7", "8", "9", "A", "B", "C", "D", "E", "F"}

Lettered ==
    {" ", "\"", "%", "&", "'", "+", "/", ";", "<", "=", ">", "H", "c", "h", "lt", "x", "{x}"}

LetterByte(c) ==
    CASE c = " " -> 32 [] c = "\"" -> 34 [] c = "%" -> 37 [] c = "&" -> 38 [] c = "'" -> 39
      [] c = "+" -> 43 [] c = "/" -> 47 [] c = ";" -> 59 [] c = "<" -> 60 [] c = "=" -> 61
      [] c = ">" -> 62 [] c = "H" -> 72 [] c = "c" -> 99 [] c = "h" -> 104 [] c = "lt" -> 108
      [] c = "x" -> 120 [] c = "{x}" -> 123

ValueOf(digit) == (CHOOSE i \in 1..16 : hex[i] = digit) - 1

DigitByte(c) == ValueOf(c) + IF ValueOf(c) < 10 THEN 48 ELSE 55

InUse == {LetterByte(c) : c \in Lettered} \cup {DigitByte(c) : c \in Digits}

Others == {hex[n \div 16 + 1] \o hex[(n % 16) + 1] : n \in (0..255) \ InUse}

MCByte ==
    [c \in Lettered \cup Digits \cup Others |->
        IF c \in Lettered THEN LetterByte(c)
        ELSE IF c \in Digits THEN DigitByte(c)
        ELSE 16 * ValueOf(SubSeq(c, 1, 1)) + ValueOf(SubSeq(c, 2, 2))]

MCUnreserved == {"x", "h", "H", "lt", "c"} \cup Digits

MCCanonical(k) == IF k = <<"h">> THEN <<"H">> ELSE k

\* Every string of up to three of these; pairs with escapes, repeated keys and text
\* that looks like an entity, a tag or a hole.
Short == UNION {[1..n -> {"x", "=", "&", "%", "+", ";"}] : n \in 0..3}

Long ==
    {<<"x", "=", "%", "3", "C">>,
     <<"x", "=", "%", "3", "c", "&", "c", "=", "%", "F", "F">>,
     <<"x", "=", "%", "2", "6", "lt", "%", "3", "B">>,
     <<"%", "2", "0", "=", "%", "2", "5", "2", "6", "&", "x", "=", "+">>,
     <<"x", "=", "2", "&", "3", "=", "x", "&", "x", "=", "3">>,
     <<"x", "=", "{x}", "&", "2", "=", "/">>,
     <<"x", "=", "%", "2", "B", "&", "=", "x">>,
     <<"x", "=", "'", "%", "3", "E", "\"">>}

MCForms == {<<>>, <<"x", "=", "6">>, <<"x", "=", "%", "&", "2", "=", "x">>,
            <<"2", "=", "x", "&", "x", "=", "5">>}

MCRequests == (Short \X {<<>>}) \cup (Long \X MCForms)

MCHeaders == [k \in {<<"H">>, <<"x">>} |-> IF k = <<"H">> THEN <<<<"2">>, <<"3">>>> ELSE <<<<>>>>]
MCFiles == [k \in {<<"x">>, <<"2">>} |-> IF k = <<"x">> THEN <<<<"5">>, <<"6">>>> ELSE <<<<"x">>>>]
MCProbes == {<<>>, <<"x">>, <<"h">>, <<"H">>}
MCTemplates == {<<"{x}">>, <<"<p>", "{x}", "<p>">>}
MCSafeSets == {{}, {"/"}, {"%", "/"}, {"+", " "}}
=============================================================================
