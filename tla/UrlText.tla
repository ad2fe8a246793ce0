------------------------------- MODULE UrlText -------------------------------
(* The conversions of addresses and of typed text: percent escapes           *)
(* (url_utils.c), the phone's characters against the 8-bit ones, and their    *)
(* escapes for the server (string_works.c).  A text is a sequence of character *)
(* codes; 0 ends it and is never inside.                                      *)
EXTENDS Integers, Sequences, SequencesExt

Percent == 37

\* The two tables of url_utils.c.
UnsafeOnly(c) ==
  \/ c < 32 \/ c >= 127
  \/ c \in {32, 34, 37, 60, 62, 92, 94, 96, 123, 124, 125}

ISXDIGIT(c) == c \in (48 .. 57) \cup (65 .. 70) \cup (97 .. 102)

DigitValue(c) == IF c <= 57 THEN c - 48 ELSE IF c <= 70 THEN c - 55 ELSE c - 87

Digit(v, a) == IF v < 10 THEN 48 + v ELSE a + v - 10

\* %HH in hexadecimal digits, the letters from a on.
Escaped(c, a) == <<Percent, Digit(c \div 16, a), Digit(c % 16, a)>>

IsEscape(s, i) ==
  /\ s[i] = Percent /\ i + 2 <= Len(s)
  /\ ISXDIGIT(s[i + 1]) /\ ISXDIGIT(s[i + 2])

EscapeValue(s, i) == 16 * DigitValue(s[i + 1]) + DigitValue(s[i + 2])

\* A walk over s: at i, the characters that go out and the number of those read.
Walk(s, out, read) ==
  LET from[i \in 1 .. Len(s) + 4] ==
        IF i > Len(s) THEN <<>> ELSE out[i] \o from[i + read[i]]
  IN from[1]

\* URL_unescape: %HH becomes its character, but %00 stays.
URL_unescape(s) ==
  LET decoded(i) == IsEscape(s, i) /\ EscapeValue(s, i) # 0
  IN Walk(s, [i \in DOMAIN s |-> IF decoded(i) THEN <<EscapeValue(s, i)>> ELSE <<s[i]>>],
             [i \in DOMAIN s |-> IF decoded(i) THEN 3 ELSE 1])

\* Mutants: every % is escaped; the letters out of line have no case of their own.
EveryPercent(s, i) == UnsafeOnly(s[i])
NoSpecialLetters(c) == IF c < 1024 THEN c ELSE c - 848

CharNeedsEscaping(s, i) ==
  IF s[i] = Percent THEN ~IsEscape(s, i) ELSE UnsafeOnly(s[i])

URL_reencode_escapes(s) ==
  Walk(s, [i \in DOMAIN s |-> IF CharNeedsEscaping(s, i) THEN Escaped(s[i], 65) ELSE <<s[i]>>],
          [i \in DOMAIN s |-> 1])

-----------------------------------------------------------------------------
\* The phone's characters are 16 bits wide, the browser's 8: Cyrillic letters
\* move between 0x400 and 168.
char16to8(c) ==
  CASE c < 1024 -> c
    [] c = 1025 -> 168 [] c = 1028 -> 170 [] c = 1030 -> 178
    [] c \in 1024 .. 1039 /\ c \notin {1025, 1028, 1030} -> c - 1024
    [] c = 1105 -> 184 [] c = 1108 -> 186 [] c = 1110 -> 179 [] c = 1111 -> 191
    [] c > 1103 /\ c \notin {1105, 1108, 1110, 1111} -> c - 1024
    [] OTHER -> c - 848

char8to16(c) ==
  LET moved == [i \in {0, 2, 10, 11, 16, 18, 23} |->
                  CASE i = 0 -> 1 [] i = 2 -> 4 [] i = 10 -> 6 [] i = 11 -> 86
                    [] i = 16 -> 81 [] i = 18 -> 84 [] i = 23 -> 87]
  IN IF c < 168 THEN c
     ELSE IF c - 168 \in DOMAIN moved THEN 1024 + moved[c - 168]
     ELSE IF c - 168 < 24 \/ c - 168 > 87 THEN c - 168
     ELSE c - 176 + 1024

Symbols == {10, 32, 35, 36, 37, 38, 43, 44, 47, 58, 59, 61, 63, 64, 126}

\* The escapes of one 8-bit character: its own, or the two of its UTF-8 form; a
\* character above 127 that is not a Russian letter gives nothing.
char_win2utf8(c, symbols) ==
  IF c \in symbols THEN Escaped(c, 97)
  ELSE IF c >= 192
       THEN Escaped(192 + (((c + 848) \div 64) % 32), 97) \o Escaped(128 + ((c + 848) % 64), 97)
  ELSE IF c = 168 THEN Escaped(208, 97) \o Escaped(129, 97)
  ELSE IF c = 184 THEN Escaped(209, 97) \o Escaped(145, 97)
  ELSE <<>>

\* ToWeb with "special" escapes the symbols too; conv_percent leaves only "%".
ToWeb(s, special, conv_percent) ==
  LET symbols == IF conv_percent THEN {Percent} ELSE Symbols
      converted(c) == c >= 128 \/ (special /\ c \in symbols)
  IN Walk(s, [i \in DOMAIN s |-> IF converted(s[i]) THEN char_win2utf8(s[i], symbols)
                                 ELSE <<s[i]>>],
             [i \in DOMAIN s |-> 1])

\* The bytes ToWeb allocates, without the one that ends the text.
Allocated(s, special, conv_percent) ==
  LET symbols == IF conv_percent THEN {Percent} ELSE Symbols
      weight(c) == IF c >= 128 THEN 2 ELSE IF special /\ c \in symbols THEN 1 ELSE 0
  IN Len(s) + 3 * FoldLeft(LAMBDA n, c : n + weight(c), 0, s)

\* utf82win: the title of a page, from UTF-8 to 8 bits.  The two letters the code
\* names by a constant are two bytes in its file: gcc keeps the second.
utf82win(s) ==
  LET next(i) == IF i < Len(s) THEN s[i + 1] ELSE 0
  IN Walk(s, [i \in DOMAIN s |->
                IF s[i] = 208 THEN <<IF next(i) # 129 THEN (next(i) + 48) % 256 ELSE 129>>
                ELSE IF s[i] = 209 THEN <<IF next(i) # 145 THEN (next(i) + 112) % 256 ELSE 145>>
                ELSE IF s[i] = 226 /\ next(i) = 128 /\ i + 2 <= Len(s) /\ s[i + 2] = 148
                     THEN <<45>>
                ELSE IF s[i] < 128 THEN <<s[i]>> ELSE <<>>],
             [i \in DOMAIN s |->
                IF s[i] < 192 THEN 1 ELSE IF s[i] < 224 THEN 2
                ELSE IF s[i] < 240 THEN 3 ELSE 4])
=============================================================================
