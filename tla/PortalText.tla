----------------------------- MODULE PortalText ------------------------------
(***************************************************************************)
(* The portal's conversions of text (http_portal.c): url_decode of what    *)
(* browsers send, in place, and html_escape of what goes into a page, into *)
(* a buffer of a fixed size.                                               *)
(*                                                                         *)
(* A character is <<"is", c>>; <<"high", c>> and <<"low", c>> are the two  *)
(* hex digits of c, and <<"end", 0>> ends a string.                        *)
(***************************************************************************)
EXTENDS Integers, SequencesExt, FiniteSetsExt

CONSTANTS
    Letters,   \* what a text has besides the characters that are converted
    MaxText,   \* bound: characters of a text
    Caps       \* sizes of the buffer for escaped text

ASSUME TextAssumption == MaxText \in Nat /\ Caps \subseteq Nat \ 0..6

VARIABLES
    text,   \* what is converted
    conv    \* the conversion

convert == <<text, conv>>

Is(c) == <<"is", c>>
Characters == {Is(c) : c \in Letters \cup {"%", "+", " ", "<", "&", "quote"}}
EndOfString == <<"end", 0>>

\* "%" and two hex digits; other characters after "%" give the end of the string.
Hex(c) == <<Is("%"), <<"high", c[2]>>, <<"low", c[2]>>>>
HexValue(h, l) == IF h[1] = "high" /\ l = <<"low", h[2]>> THEN Is(h[2]) ELSE EndOfString

IsSpace(c, plus_is_space) == c = Is("+") /\ plus_is_space

\* What a browser makes of a text: a form writes a space as "+".  Coded are the
\* characters it writes as three; From is where it writes the k-th.
Coded(form) == {Is("%")} \cup IF form THEN {Is("+"), Is("&")} ELSE {Is(" ")}
From(t, form, k) == k + 2 * Cardinality({j \in 1..k - 1 : t[j] \in Coded(form)})
Encoding(c, form) ==
    IF c \in Coded(form) THEN Hex(c) ELSE IF form /\ c = Is(" ") THEN <<Is("+")>> ELSE <<c>>
Encoded(t, form) ==
    [p \in 1..From(t, form, Len(t) + 1) - 1 |->
        LET k == CHOOSE k \in DOMAIN t : p \in From(t, form, k)..From(t, form, k + 1) - 1
        IN  Encoding(t[k], form)[p - From(t, form, k) + 1]]

TextInit ==
    /\ text \in UNION {[1..n -> Characters] : n \in 0..MaxText}
    /\ conv = [pc |-> "idle", plus_is_space |-> FALSE, string |-> <<>>, s |-> 1, o |-> 1, cap |-> 7]

\* url_decode begins: of search_handler's q, cut where its buffer ends, or of
\* zim_worker's and root_handler's path.
DecodeQuery ==
    /\ conv.pc = "idle"
    /\ \E k \in 0..Len(Encoded(text, TRUE)) :
          conv' = [conv EXCEPT !.pc = "decode", !.plus_is_space = TRUE, !.string = SubSeq(Encoded(text, TRUE), 1, k)]
    /\ UNCHANGED text

DecodePath ==
    /\ conv.pc = "idle"
    /\ conv' = [conv EXCEPT !.pc = "decode", !.string = Encoded(text, FALSE)]
    /\ UNCHANGED text

\* A turn of it: the character at s is read, and written to o in the same string.
url_decode ==
    /\ conv.pc = "decode"
    /\ LET string == conv.string  s == conv.s
           put(c, n) == [conv EXCEPT !.string = [@ EXCEPT ![conv.o] = c], !.o = @ + 1, !.s = @ + n]
       IN conv' = IF s > Len(string) THEN [conv EXCEPT !.pc = "decoded"]
                  ELSE IF string[s] = Is("%") /\ s + 2 <= Len(string)
                       THEN put(HexValue(string[s + 1], string[s + 2]), 3)
                  ELSE put(IF IsSpace(string[s], conv.plus_is_space) THEN Is(" ") ELSE string[s], 1)
    /\ UNCHANGED text

\* The string that is left, to the first end of a string.
Decoded ==
    LET ends == {i \in 1..conv.o - 1 : conv.string[i] = EndOfString}
    IN  SubSeq(conv.string, 1, (IF ends = {} THEN conv.o ELSE Min(ends)) - 1)

\* snprintf's length: "&lt;" and "&gt;", "&amp;", "&quot;", or the character.
Width(c) ==
    CASE c = Is("<") -> 4 [] c = Is("&") -> 5 [] c = Is("quote") -> 6 [] OTHER -> 1

\* Mutant of Fits: room for the longest replacement, but not for the end.
FitsBarely(used, size) == used + 6 <= size
Fits(used, size) == used + 6 < size

\* html_escape begins, and a turn of it: o characters are written.
EscapeText ==
    /\ conv.pc = "idle"
    /\ \E cap \in Caps : conv' = [conv EXCEPT !.pc = "escape", !.cap = cap, !.o = 0]
    /\ UNCHANGED text

html_escape ==
    /\ conv.pc = "escape"
    /\ conv' = IF conv.s <= Len(text) /\ Fits(conv.o, conv.cap)
               THEN [conv EXCEPT !.s = @ + 1, !.o = @ + Width(text[conv.s])]
               ELSE [conv EXCEPT !.pc = "escaped"]
    /\ UNCHANGED text

TextNext == DecodeQuery \/ DecodePath \/ url_decode \/ EscapeText \/ html_escape
-----------------------------------------------------------------------------
\* What was encoded is decoded, to the last whole character if it was cut, though it
\* is written over what is still to be read; what is escaped fits its buffer with the
\* end of the string, and is only cut where a replacement might not fit.
TextKept ==
    /\ conv.pc = "decoded" =>
          LET form == conv.plus_is_space IN
          /\ \A m \in DOMAIN text :
                From(text, form, m + 1) - 1 <= Len(conv.string) => IsPrefix(SubSeq(text, 1, m), Decoded)
          /\ Len(conv.string) = Len(Encoded(text, form)) => Decoded = text
    /\ conv.pc \in {"escape", "escaped"} =>
          conv.o < conv.cap /\ (conv.pc = "escaped" /\ conv.s <= Len(text) => conv.o + 6 >= conv.cap)
=============================================================================
