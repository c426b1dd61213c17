------------------------------ MODULE Printing ------------------------------
(***************************************************************************)
(* Formatted printing (src/src/main.c): eX_Print, and the conversion of    *)
(* numbers by eX_PrintNumberUnsigned and eX_PrintNumberSigned.             *)
(*                                                                         *)
(* A behaviour is one call.  Characters are one-letter strings.  A variable*)
(* argument is a slot of 64 bits: a number, or the address of a string, as *)
(* the directive takes it.  A step is one turn of the loop over the format *)
(* or of the loop over the digits of a number; the characters passed to    *)
(* eX_PrintChar are collected in `printed`.                                *)
(***************************************************************************)
EXTENDS Integers, Sequences, SequencesExt, FiniteSetsExt

CONSTANTS
  WORD,         \* number of uint64_t values
  INT,          \* number of unsigned int values
  BUFFER,       \* characters of the conversion's buffer
  Characters,   \* the characters of strings
  PrintCalls,   \* calls: records of a format and its arguments
  Char,         \* Char[n]: the character with code n
  NULL,         \* the null address
  NUL           \* the character that ends a string

\* The powers of b that have as many digits as the buffer, or fewer.
Power(b) ==
  LET power[n \in 0 .. BUFFER] == IF n = 0 THEN 1 ELSE b * power[n - 1]
  IN  power

\* The code's buffer has 32 characters for 64 bits: room for base four.
ASSUME WidthAssumption ==
  /\ INT \in Nat \ {0} /\ INT % 2 = 0
  /\ WORD \in Nat /\ INT <= WORD
  /\ BUFFER \in Nat /\ WORD <= Power(4)[BUFFER]

VARIABLES
  format,    \* the format of the call
  args,      \* its arguments
  pos,       \* the character of the format that comes next
  arg,       \* the argument that va_arg takes next
  printed,
  value, base, uppercase,   \* the number being converted
  buffer,                   \* its digits so far, the last one first
  printPc                   \* "format", "digits" or "done"

number    == <<value, base, uppercase, buffer>>
printVars == <<format, args, pos, arg, printed, number, printPc>>

PrintInit ==
  /\ \E c \in PrintCalls : format = c.format /\ args = c.args
  /\ pos = 1 /\ arg = 1
  /\ printed = <<>>
  /\ value = 0 /\ base = 10 /\ uppercase = FALSE /\ buffer = <<>>
  /\ printPc = "format"

\* The string ends with a NUL behind its last character.
CharAt(n) == IF n <= Len(format) THEN format[n] ELSE NUL

-----------------------------------------------------------------------------
(* Numbers                                                                 *)

Digits(upper) ==
  <<"0", "1", "2", "3", "4", "5", "6", "7", "8", "9">> \o
  IF upper THEN <<"A", "B", "C", "D", "E", "F">> ELSE <<"a", "b", "c", "d", "e", "f">>

\* The start of eX_PrintNumberUnsigned, with `sign` printed before it: zero is
\* printed at once.
eX_PrintNumberUnsigned(sign, v, b, upper) ==
  /\ printed' = printed \o sign \o IF v = 0 THEN <<"0">> ELSE <<>>
  /\ printPc' = IF v = 0 THEN "format" ELSE "digits"
  /\ value' = v /\ base' = b /\ uppercase' = upper /\ buffer' = <<>>

\* One turn of the loop that divides.
Divide ==
  /\ printPc = "digits"
  /\ value > 0
  /\ buffer' = Append(buffer, Digits(uppercase)[(value % base) + 1])
  /\ value' = value \div base
  /\ UNCHANGED <<format, args, pos, arg, printed, base, uppercase, printPc>>

\* The loop that prints the buffer from its end.
Emit ==
  /\ printPc = "digits"
  /\ value = 0
  /\ printed' = printed \o Reverse(buffer)
  /\ buffer' = <<>>
  /\ printPc' = "format"
  /\ UNCHANGED <<format, args, pos, arg, value, base, uppercase>>

\* Variant: the one that was added is not given back.
MagnitudeLow(v) == (-(v + 1)) % WORD

\* The magnitude of a negative number, which may be the most negative one.
Magnitude(v) == (((-(v + 1)) % WORD) + 1) % WORD

\* v is an int, passed on as an int64_t.
eX_PrintNumberSigned(v) ==
  \/ v < 0 /\ eX_PrintNumberUnsigned(<<"-">>, Magnitude(v), 10, FALSE)
  \/ v >= 0 /\ eX_PrintNumberUnsigned(<<>>, v, 10, FALSE)

-----------------------------------------------------------------------------
(* eX_Print                                                                *)

\* va_arg(args, unsigned int) and va_arg(args, int): the slot's low half.
Unsigned(slot) == slot.value % INT
Signed(slot)   == IF Unsigned(slot) >= INT \div 2 THEN Unsigned(slot) - INT ELSE Unsigned(slot)

\* A character of the format that is no directive.
Literal ==
  /\ printPc = "format"
  /\ CharAt(pos) \notin {NUL, "%"}
  /\ printed' = Append(printed, CharAt(pos))
  /\ pos' = pos + 1
  /\ UNCHANGED <<format, args, arg, number, printPc>>

\* A directive prints a text at once.
Text(text) == printed' = printed \o text /\ UNCHANGED <<number, printPc>>

Plain(c) ==
  \/ c = "%" /\ Text(<<"%">>)
  \/ c \notin {"%", "c", "s", "d", "u", "x", "X"} /\ Text(<<"%", c>>)

Converting(c, slot) ==
  \/ c = "c" /\ Text(<<Char[slot.value % 256]>>)
  \/ c = "s" /\ Text(IF slot.string = NULL THEN <<"(", "n", "u", "l", "l", ")">>
                                            ELSE slot.string)
  \/ c = "d" /\ eX_PrintNumberSigned(Signed(slot))
  \/ c = "u" /\ eX_PrintNumberUnsigned(<<>>, Unsigned(slot), 10, FALSE)
  \/ c = "x" /\ eX_PrintNumberUnsigned(<<>>, Unsigned(slot), 16, FALSE)
  \/ c = "X" /\ eX_PrintNumberUnsigned(<<>>, Unsigned(slot), 16, TRUE)

\* The arguments that the directive uses up.
ArgsUsed(c) == IF c \in {"c", "s", "d", "u", "x", "X"} THEN 1 ELSE 0

\* Variant: the second of two percent signs is read again.
DirectiveLengthOfOne(c) == IF c = "%" THEN 1 ELSE 2

\* The pointer moves past the character behind the percent sign, whatever it
\* is: at the end of the format it moves past the NUL.
DirectiveLength(c) == 2

Directive ==
  /\ printPc = "format"
  /\ CharAt(pos) = "%"
  /\ LET c == CharAt(pos + 1) IN
       /\ Plain(c) \/ Converting(c, args[arg])
       /\ arg' = arg + ArgsUsed(c)
       /\ pos' = pos + DirectiveLength(c)
  /\ UNCHANGED <<format, args>>

\* The loop ends at the NUL; what follows it in memory is not modelled, so the
\* call ends as well when the pointer has passed it.
End ==
  /\ printPc = "format"
  /\ CharAt(pos) = NUL
  /\ printPc' = "done"
  /\ UNCHANGED <<format, args, pos, arg, printed, number>>

eX_Print == Literal \/ Directive \/ Divide \/ Emit \/ End

PrintSpec == PrintInit /\ [][eX_Print]_printVars

-----------------------------------------------------------------------------
(***************************************************************************)
(* Properties.                                                             *)
(***************************************************************************)

\* Positional notation: as many digits as the number needs, each one from the
\* quotient by its power of the base.
Numeral(v, b, upper) ==
  LET length == Min({n \in 1 .. BUFFER : v < Power(b)[n]})
  IN  [k \in 1 .. length |-> Digits(upper)[((v \div Power(b)[length - k]) % b) + 1]]

\* What a directive shows of its argument.
Shown(c, slot) ==
  CASE c = "c" -> <<Char[slot.value % 256]>>
    [] c = "s" -> IF slot.string = NULL THEN <<"(", "n", "u", "l", "l", ")">> ELSE slot.string
    [] c = "d" -> IF Signed(slot) < 0 THEN <<"-">> \o Numeral(-Signed(slot), 10, FALSE)
                                      ELSE Numeral(Signed(slot), 10, FALSE)
    [] c = "u" -> Numeral(Unsigned(slot), 10, FALSE)
    [] c = "x" -> Numeral(Unsigned(slot), 16, FALSE)
    [] c = "X" -> Numeral(Unsigned(slot), 16, TRUE)

\* A reader of a format who remembers a percent sign until the next character,
\* the arguments used up and the text so far.
Understand(r, c, arguments) ==
  CASE ~r.percent /\ c = "%"  -> [r EXCEPT !.percent = TRUE]
    [] ~r.percent /\ c # "%"  -> [r EXCEPT !.text = Append(@, c)]
    [] r.percent /\ c \in {"c", "s", "d", "u", "x", "X"} ->
         [percent |-> FALSE, used |-> r.used + 1,
          text |-> r.text \o Shown(c, arguments[r.used + 1])]
    [] r.percent /\ c = "%"   -> [r EXCEPT !.percent = FALSE, !.text = Append(@, "%")]
    [] OTHER                  -> [r EXCEPT !.percent = FALSE, !.text = @ \o <<"%", c>>]

\* The reader after each character.
Reading(text, arguments) ==
  LET after[n \in 0 .. Len(text)] ==
        IF n = 0 THEN [percent |-> FALSE, used |-> 0, text |-> <<>>]
                 ELSE Understand(after[n - 1], text[n], arguments)
  IN  after

\* The callers' part: a string has no NUL in it, and there is an argument of the
\* right kind for every directive.
ASSUME CallAssumption ==
  /\ NUL \notin Characters
  /\ {"%", "c", "s", "d", "u", "x", "X", "-", "(", "n", "l", ")"} \subseteq Characters
  /\ \A upper \in BOOLEAN : Digits(upper) \in Seq(Characters)
  /\ Char \in [0 .. 255 -> Characters]
  /\ \A c \in PrintCalls :
       /\ c.format \in Seq(Characters)
       /\ c.args \in Seq([value : 0 .. WORD - 1, string : Seq(Characters) \cup {NULL}])
       /\ \A n \in 1 .. Len(c.format) : Reading(c.format, c.args)[n].used <= Len(c.args)

Meaning ==
  LET r == Reading(format, args)[Len(format)]
  IN  IF r.percent THEN r.text \o <<"%", NUL>> ELSE r.text

\* Every directive shows its own argument: numbers in positional notation, the
\* largest and the most negative one too, of a wider argument the low half,
\* and an unknown directive itself, without using up an argument that a later
\* directive is meant for (main.c:1247-1320, 1141-1180).
PrintedExact ==
  /\ IsPrefix(printed, Meaning)
  /\ printPc = "done" => printed = Meaning

\* The format ends in an odd number of percent signs.
LonePercent ==
  LET behind == Max({0} \cup {n \in 1 .. Len(format) : format[n] # "%"})
  IN  (Len(format) - behind) % 2 = 1

\* The pointer passes the end of the format only behind a percent sign that
\* stands alone at the end (main.c:1259, 1316); no format of the kernel has one.
OverreadOnlyAfterLonePercent == pos > Len(format) + 1 => LonePercent
=============================================================================
