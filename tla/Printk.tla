------------------------------- MODULE Printk -------------------------------
(***************************************************************************)
(* printk of kernel/printk.c: the walk over a format, with the call of     *)
(* itself that %s makes, and the conversions of integers.  A format is a   *)
(* sequence of characters that ends with NUL.  What a conversion puts out  *)
(* is a sign and a sequence of digits; the two cases of a hexadecimal      *)
(* digit are one, so X is x without padding, and text that is no number is *)
(* not kept.                                                               *)
(***************************************************************************)
EXTENDS Integers, Sequences, SequencesExt, FiniteSets

CONSTANTS
    NrDigits,       \* hexadecimal digits of an int, 8
    BufSize,        \* characters of the buffers of d and u, 10
    Formats,        \* what printk is called with
    Strings         \* what %s is given

VARIABLES
    calls,          \* the active calls, the innermost last: what is left of fmt
    format,         \* the format of the outermost call
    last,           \* the last conversion: its argument, sign and digits
    passed,         \* history: the strings %s was given
    wild            \* what is read next is no part of a format

printkVars == <<calls, format, last, passed, wild>>

\* A character is a string here, and what C calls a string is a sequence.
Character == STRING

\* 16 ^ n, since a hexadecimal digit is four bits, and 10 ^ n.
Sixteens(n) == 2 ^ (4 * n)
Tens[n \in 0 .. BufSize] == IF n = 0 THEN 1 ELSE 10 * Tens[n - 1]

ASSUME PrintkAssumption ==
    /\ NrDigits \in Nat \ {0} /\ BufSize \in Nat
    \* a word has a place in buf
    /\ Sixteens(NrDigits) <= Tens[BufSize]
    /\ Formats \subseteq Seq(Character) /\ Strings \subseteq Seq(Character)

Words == 0 .. Sixteens(NrDigits) - 1
INT_MIN == -(Sixteens(NrDigits) \div 2)

signed(w) == IF w >= -INT_MIN THEN w - Sixteens(NrDigits) ELSE w

Digit == [c \in {"0", "1", "2", "3"} |->
            CASE c = "0" -> 0 [] c = "1" -> 1 [] c = "2" -> 2 [] c = "3" -> 3]
IS_NUM(c) == c \in DOMAIN Digit

-----------------------------------------------------------------------------
(* Conversions                                                             *)

\* The digits taken from the top of the word.
nibbles(w) == [i \in 1 .. NrDigits |-> (w \div Sixteens(NrDigits - i)) % 16]

zeros(n) == [i \in 1 .. n |-> 0]

\* mutant: the digits of the value are not counted
x_pad_all(w, padding) ==
    LET ds == nibbles(w)
        startdig == CHOOSE i \in DOMAIN ds : ds[i] # 0 /\ \A j \in 1 .. i - 1 : ds[j] = 0
    IN  IF w = 0 THEN zeros(IF padding = 0 THEN 1 ELSE padding)
        ELSE zeros(padding) \o SubSeq(ds, startdig, NrDigits)

x(w, padding) ==
    LET ds == nibbles(w)
        startdig == CHOOSE i \in DOMAIN ds : ds[i] # 0 /\ \A j \in 1 .. i - 1 : ds[j] = 0
        digcount == NrDigits - startdig + 1
    IN  IF w = 0 THEN zeros(IF padding = 0 THEN 1 ELSE padding)
        ELSE zeros(padding - digcount) \o SubSeq(ds, startdig, NrDigits)

p(w) == nibbles(w)

\* Division and remainder of C, which round towards zero.
quotient(v) == IF v >= 0 THEN v \div 10 ELSE -((-v) \div 10)
remainder(v) == v - 10 * quotient(v)

\* The loop of d and u that fills buf from the lowest digit.
decimal[v \in INT_MIN .. Sixteens(NrDigits) - 1] ==
    IF v = 0 THEN <<>> ELSE Append(decimal[quotient(v)], remainder(v))

\* -INT_MIN does not fit and is INT_MIN again.
negate(v) == IF v = INT_MIN THEN v ELSE -v

d(v) ==
    [negative |-> v < 0,
     digits |-> IF v = 0 THEN <<0>> ELSE decimal[IF v < 0 THEN negate(v) ELSE v]]

u(w) == IF w = 0 THEN <<0>> ELSE decimal[w]

-----------------------------------------------------------------------------
(* The walk over the format                                                *)

NoConversion == [conv |-> "none", arg |-> 0, pad |-> 0, negative |-> FALSE, digits |-> <<>>]

PrintkInit ==
    /\ format \in Formats
    /\ calls = <<format>>
    /\ last = NoConversion
    /\ passed = {}
    /\ wild = FALSE

fmt == Last(calls)
Behind(n) == Append(Front(calls), SubSeq(fmt, n + 1, Len(fmt)))

Shown(conv, arg, pad, negative, digits) ==
    last' = [conv |-> conv, arg |-> arg, pad |-> pad, negative |-> negative,
             digits |-> digits]

convert(conv, w, pad) ==
    CASE conv = "d" -> Shown(conv, signed(w), pad, d(signed(w)).negative,
                             d(signed(w)).digits)
      [] conv = "u" -> Shown(conv, w, pad, FALSE, u(w))
      [] conv \in {"x", "X"} -> Shown(conv, w, pad, FALSE, x(w, pad))
      [] conv = "p" -> Shown(conv, w, pad, FALSE, p(w))

\* A conversion of cs comes next.
Converts(cs) == Len(fmt) >= 2 /\ fmt[1] = "%" /\ fmt[2] \in cs

Walking == ~ wild /\ calls # <<>>

\* A conversion of a word, the next argument; in the call that %s makes no
\* argument was passed, and the word is what happens to be on the stack.
number ==
    /\ Converts({"d", "u", "x", "X", "p"})
    /\ LET padded == fmt[2] = "x" /\ Len(fmt) >= 3 /\ IS_NUM(fmt[3])
       IN  /\ \E w \in Words : convert(fmt[2], w, IF padded THEN Digit[fmt[3]] ELSE 0)
           /\ calls' = Behind(IF padded THEN 3 ELSE 2)
    /\ UNCHANGED <<format, passed, wild>>

\* %s: printk is called with the argument as its format; in a call without
\* arguments that is no string at all.
string ==
    /\ Converts({"s"})
    /\ \/ /\ Len(calls) = 1
          /\ \E s \in Strings :
                calls' = Append(Behind(2), s) /\ passed' = passed \cup {s}
          /\ UNCHANGED wild
       \/ /\ Len(calls) > 1
          /\ wild' = TRUE /\ calls' = Behind(2)
          /\ UNCHANGED passed
    /\ UNCHANGED <<format, last>>

\* mutant: the second of two percent signs begins a conversion
character_single ==
    /\ fmt # <<>>
    /\ ~ Converts({"d", "u", "x", "X", "p", "s"})
    /\ wild' = (fmt = <<"%">>)
    /\ calls' = Behind(1)
    /\ UNCHANGED <<format, last, passed>>

\* Any other character is put out, with %c and %% and the unknown ones behind
\* a percent sign among them.  Behind one at the end it is the NUL, and the
\* walk goes on behind it.
character ==
    /\ fmt # <<>>
    /\ ~ Converts({"d", "u", "x", "X", "p", "s"})
    /\ wild' = (fmt = <<"%">>)
    /\ calls' = Behind(IF fmt[1] = "%" /\ Len(fmt) >= 2 THEN 2 ELSE 1)
    /\ UNCHANGED <<format, last, passed>>

\* NUL: this call of printk returns.
return ==
    /\ fmt = <<>>
    /\ calls' = Front(calls)
    /\ UNCHANGED <<format, last, passed, wild>>

printk == Walking /\ (number \/ string \/ character \/ return)

PrintkSpec == PrintkInit /\ [][printk]_printkVars

-----------------------------------------------------------------------------
(* Properties                                                              *)

\* The number that the digits stand for, from the highest on.
ValueOf(digits, base) ==
    LET value[k \in 0 .. Len(digits)] ==
            IF k = 0 THEN 0 ELSE base * value[k - 1] + digits[k]
    IN  value[Len(digits)]

\* What a conversion puts out reads back as its argument, in its buffer and
\* without digits it does not need: as many as the padding asks for in %x, all
\* of them in %p.  The smallest int is the exception: -val is negative again,
\* and characters below '0' are put out.
ReadsBack ==
    LET ds == last.digits
        base == IF last.conv \in {"d", "u"} THEN 10 ELSE 16
        value == IF last.negative THEN -ValueOf(ds, base) ELSE ValueOf(ds, base)
    IN  last # NoConversion /\ ~ (last.conv = "d" /\ last.arg = INT_MIN) =>
            /\ \A i \in DOMAIN ds : ds[i] \in 0 .. base - 1
            /\ value = last.arg
            /\ last.conv \in {"d", "u"} => Len(ds) <= BufSize
            /\ last.conv = "p" => Len(ds) = NrDigits
            /\ last.conv # "p" /\ ds[1] = 0 =>
                  Len(ds) <= (IF last.pad = 0 THEN 1 ELSE last.pad)

\* f ends with a percent sign that begins a conversion.
Unfinished(f) ==
    LET percents == {j \in DOMAIN f : \A k \in j .. Len(f) : f[k] = "%"}
    IN  Cardinality(percents) % 2 = 1

\* printk reads nothing but its format and its arguments, unless the format
\* ends within a conversion or a string passed to %s has a percent sign.
StaysInside ==
    wild => Unfinished(format) \/ \E s \in passed : Contains(s, "%")
=============================================================================
