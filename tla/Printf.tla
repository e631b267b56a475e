------------------------------- MODULE Printf -------------------------------
(***************************************************************************)
(* printf and printf_number of Kernel/System/stdio.c.  A behaviour is one  *)
(* call, a step one character of its format.  The arguments are words on   *)
(* the stack: argp goes over them.  A char or string argument is printed   *)
(* as the word that it is.                                                 *)
(***************************************************************************)
EXTENDS Integers, Sequences

CONSTANTS
  CHAR, SHORT, INT,  \* the number of values of these types; a long is an int
  MaxParts,          \* bound: characters and conversions of a format
  Stacks             \* the words behind the format: those that are passed, and
                     \* what else is on the stack where argp may get to

ASSUME PrintfAssumption ==
  /\ {CHAR, SHORT, INT} \subseteq Nat \ {0, 1} /\ CHAR <= SHORT /\ SHORT <= INT
  /\ \A count \in {CHAR, SHORT, INT} : count % 2 = 0
  /\ MaxParts \in Nat
  /\ Stacks \subseteq [1..4 * MaxParts -> 0..INT - 1]

VARIABLES
  format,  \* the format in parts: characters and conversions
  words,   \* the words behind it on the stack
  fmt,     \* the characters that are left
  state,   \* PRINTF_STATE_: "normal", "length", "short", "long", "spec"
  length,  \* PRINTF_LENGTH_, as it is written in a format
  argp,    \* the next of the words
  out      \* what has been printed: [what, text]

printfVars == <<format, words, fmt, state, length, argp, out>>

Lengths == {<<>>, <<"h">>, <<"h", "h">>, <<"l">>, <<"l", "l">>}
Numbers == {"d", "u", "x", "o"}   \* i is the same as d, X and p are as x
Specs == Numbers \cup {"c", "s", "%"}

Plain == [spec |-> ".", length |-> <<>>]
Parts ==
  {Plain} \cup [spec : Specs \ Numbers, length : {<<>>}] \cup [spec : Numbers, length : Lengths]

Characters(part) == IF part = Plain THEN <<".">> ELSE <<"%">> \o part.length \o <<part.spec>>

IsLong(part) == part.length \in {<<"l">>, <<"l", "l">>}
IsSigned(spec) == spec = "d"
Radix(spec) == IF spec \in {"d", "u"} THEN 10 ELSE IF spec = "o" THEN 8 ELSE 16

SignedOf(w, count) == IF w < count \div 2 THEN w ELSE w - count

(***************************************************************************)
(* The call, with any format and any words.  A conversion takes a word,    *)
(* %ll two.                                                                *)
(***************************************************************************)
WordsOf(part) ==
  IF part.spec \in {".", "%"} THEN 0 ELSE IF part.length = <<"l", "l">> THEN 2 ELSE 1

(* The value of a conversion that takes the word at, in C's terms. *)
Passed(part, at) ==
  IF part.length = <<"l", "l">>
  THEN IF IsSigned(part.spec) THEN SignedOf(words[at] + INT * words[at + 1], INT * INT)
       ELSE words[at] + INT * words[at + 1]
  ELSE IF IsSigned(part.spec) THEN SignedOf(words[at], INT) ELSE words[at]

Flat(parts) ==
  LET text[i \in 0..Len(parts)] == IF i = 0 THEN <<>> ELSE text[i - 1] \o Characters(parts[i])
  IN  text[Len(parts)]

PrintfInit ==
  /\ format \in UNION {[1..n -> Parts] : n \in 0..MaxParts}
  /\ words \in Stacks
  /\ fmt = Flat(format)
  /\ state = "normal" /\ length = <<>>
  /\ argp = 1
  /\ out = <<>>

(***************************************************************************)
(* printf_number                                                           *)
(***************************************************************************)

(* The word at argp, two for a long long.  That of an h or hh is not cut   *)
(* to a short or a char.                                                   *)
Number(spec) == Passed([spec |-> spec, length |-> length], argp)

(* -n, of which the smallest int has none: what overflow leaves can be     *)
(* taken for n itself, or for its magnitude.  number has INT * INT values, *)
(* in which the two are the same for the smallest long long.               *)
IsSmallest(n, len) == len # <<"l", "l">> /\ n = -(INT \div 2)

Magnitudes(n, len) ==
  IF n >= 0 THEN {n}
  ELSE IF IsSmallest(n, len) THEN {-n, INT * INT + n}
  ELSE {-n}

(* The mistake: 0 has no digits. *)
DigitsNone(number, radix) ==
  LET digits[n \in Nat] == IF n = 0 THEN <<>> ELSE Append(digits[n \div radix], n % radix)
  IN  digits[number]

Digits(number, radix) ==
  LET digits[n \in Nat] == IF n < radix THEN <<n>> ELSE Append(digits[n \div radix], n % radix)
  IN  digits[number]

Printed(n, magnitude, radix) ==
  [what |-> "number", text |-> (IF n < 0 THEN <<"-">> ELSE <<>>) \o Digits(magnitude, radix)]

(* Twice the words of a long and of a long long. *)
Step == CASE length = <<"l">> -> 2 [] length = <<"l", "l">> -> 4 [] OTHER -> 1

(***************************************************************************)
(* printf                                                                  *)
(***************************************************************************)
Put(piece) == out' = Append(out, piece)

(* A character of the format that is not part of a conversion. *)
Ordinary(c) ==
  /\ state = "normal" /\ c # "%"
  /\ Put([what |-> "character", text |-> c])
  /\ UNCHANGED <<state, length, argp>>

Percent(c) ==
  /\ state = "normal" /\ c = "%"
  /\ state' = "length"
  /\ UNCHANGED <<length, argp, out>>

(* The characters of a length: where they may come, and the state behind.  *)
LengthChars ==
  {<<"length", "h", "short">>, <<"length", "l", "long">>, <<"short", "h", "spec">>, <<"long", "l", "spec">>}

LengthChar(c) ==
  /\ \E next \in {"short", "long", "spec"} : <<state, c, next>> \in LengthChars /\ state' = next
  /\ length' = Append(length, c)
  /\ UNCHANGED <<argp, out>>

Conversion(c) ==
  \/ c = "c" /\ Put([what |-> "char", text |-> words[argp]]) /\ argp' = argp + 1
  \/ c = "s" /\ Put([what |-> "string", text |-> words[argp]]) /\ argp' = argp + 1
  \/ c = "%" /\ Put([what |-> "character", text |-> "%"]) /\ UNCHANGED argp
  \/ /\ c \in Numbers
     /\ \E m \in Magnitudes(Number(c), length) : Put(Printed(Number(c), m, Radix(c)))
     /\ argp' = argp + Step

(* The character that ends a conversion. *)
Convert(c) ==
  /\ state # "normal"
  /\ \A next \in {"short", "long", "spec"} : <<state, c, next>> \notin LengthChars
  /\ Conversion(c)
  /\ state' = "normal" /\ length' = <<>>

PrintfNext ==
  /\ fmt # <<>> /\ fmt' = Tail(fmt)
  /\ LET c == Head(fmt) IN Ordinary(c) \/ Percent(c) \/ LengthChar(c) \/ Convert(c)
  /\ UNCHANGED <<format, words>>

(***************************************************************************)
(* Properties                                                              *)
(***************************************************************************)

(* The number that digits stand for. *)
ValueOf(digits, radix) ==
  LET value[i \in 0..Len(digits)] == IF i = 0 THEN 0 ELSE value[i - 1] * radix + digits[i]
  IN  value[Len(digits)]

IsNumeral(digits, radix) ==
  /\ digits # <<>> /\ \A i \in 1..Len(digits) : digits[i] \in 0..radix - 1
  /\ digits[1] = 0 => Len(digits) = 1

Reads(text, n, radix) ==
  LET digits == IF n < 0 THEN Tail(text) ELSE text
  IN  /\ n < 0 => Head(text) = "-"
      /\ IsNumeral(digits, radix) /\ ValueOf(digits, radix) = IF n < 0 THEN -n ELSE n

(* The words that argp is to have moved over in front of part i: those of  *)
(* the arguments, and as many again of a long or a long long.              *)
WordsBefore(i) ==
  LET over(part) == IF IsLong(part) THEN 2 * WordsOf(part) ELSE WordsOf(part)
      sum[j \in 1..i] == IF j = 1 THEN 0 ELSE sum[j - 1] + over(format[j - 1])
  IN  sum[i]

Shows(piece, part, at) ==
  CASE part.spec = "." -> piece = [what |-> "character", text |-> "."]
    [] part.spec = "%" -> piece = [what |-> "character", text |-> "%"]
    [] part.spec = "c" -> piece = [what |-> "char", text |-> words[at]]
    [] part.spec = "s" -> piece = [what |-> "string", text |-> words[at]]
    [] OTHER -> \/ Reads(piece.text, Passed(part, at), Radix(part.spec))
                \/ IsSigned(part.spec) /\ IsSmallest(Passed(part, at), part.length)

(* What any format prints.  A part with no long or long long in front of   *)
(* it shows its own argument: a numeral in the radix of its conversion     *)
(* that reads back as the int or long long that was passed, 0 and negative *)
(* numbers included, but for the smallest int, which has no negative.      *)
(* Behind a long or a long long, a part shows in the same way not its own  *)
(* argument but a word further on: one further for every long in front of  *)
(* it and two for every long long.  %h and %hh show the whole int.         *)
FormatShown ==
  fmt = <<>> =>
    /\ Len(out) = Len(format)
    /\ \A i \in 1..Len(format) : Shows(out[i], format[i], WordsBefore(i) + 1)
=============================================================================
