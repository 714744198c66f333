----------------------------- MODULE ExactAmounts -----------------------------
(***************************************************************************)
(* Amounts on the wire are strings, and both SDKs accept them by a pattern *)
(* and a range.  Here the text of an amount is a record: its digits before *)
(* and after the decimal point, and its form, which is "ascii", "foreign"  *)
(* (decimal digits of other scripts among them), "empty" or "padded", and  *)
(* that is anything else: signs, zeros and blanks that do not belong, or   *)
(* superscripts, which are digits to isdigit and no number to int.  Python *)
(* takes decimal digits of any script, Go ASCII only.                      *)
(***************************************************************************)
EXTENDS Integers, Sequences, FiniteSetsExt, SequencesExt

CONSTANTS
    MaxInt,     \* the largest 64-bit integer
    Absent,     \* a missing value; an empty one where Go does not tell the difference
    Malformed   \* a value of the wrong JSON type, or none of the vocabulary

Base == 10
Places == 3  \* milli precision
Scale == 1000

\* It holds one unit in milliunits, the default quantity.
ASSUME MaxIntAssumption == MaxInt \in Nat /\ MaxInt >= Scale

\* What is malformed is there.
ASSUME AbsentAssumption == Malformed # Absent

Forms == {"ascii", "foreign", "padded", "empty"}

InRange(v) == v \in -MaxInt - 1 .. MaxInt

-----------------------------------------------------------------------------
(* Webhooks: signed integers, with a value and a form.                     *)

SignedAmounts == [value : Int, form : Forms]

PyDigits(a) == a.form \in {"ascii", "foreign"}

GoDigits(a) == a.form = "ascii"

\* isdigit and int take the decimal digits of any script, after a first one in 1..9.
PyCanonical(a) == PyDigits(a) /\ InRange(a.value)

PyUnsigned(a) == PyDigits(a) /\ a.value \in 0..MaxInt

\* Mutant: big.Int takes any length, and nothing asks for 64 bits.
GoCanonicalOfAnyLength(a) == GoDigits(a)

GoCanonical(a) == GoDigits(a) /\ InRange(a.value)

GoUnsigned(a) == GoDigits(a) /\ a.value \in 0..MaxInt

-----------------------------------------------------------------------------
(* Usage builders: unsigned decimals, whole and fraction.                  *)

Decimals == [whole : Nat, fraction : Seq(0 .. Base - 1), form : Forms]

IsWhole(a) == a.fraction = <<>>

\* _integer and validateExactInteger.
Integral(a, allowZero) ==
    IsWhole(a) /\ a.whole <= MaxInt /\ (a.whole = 0 => allowZero)

PyInteger(a, allowZero) == PyDigits(a) /\ Integral(a, allowZero)

GoInteger(a, allowZero) == GoDigits(a) /\ Integral(a, allowZero)

\* _whole_count and validateWholeCount.
Count(a) == IsWhole(a) /\ a.whole \in 1 .. MaxInt \div Scale

PyWholeCount(a) == PyDigits(a) /\ Count(a)

GoWholeCount(a) == GoDigits(a) /\ Count(a)

Zeros(n) == [i \in 1..n |-> 0]

\* Mutant: zeros go before the digits.
PadLeft(fraction) == Zeros(Places - Len(fraction)) \o fraction

\* ljust(3, "0"), or strings.Repeat.
Pad(fraction) == fraction \o Zeros(Places - Len(fraction))

Parse(digits) == FoldLeft(LAMBDA n, d : n * Base + d, 0, digits)

\* _quantity and validateQuantity.
Quantity(a) ==
    LET scaled == a.whole * Scale + Parse(Pad(a.fraction))
    IN  Len(a.fraction) <= Places /\ 0 < scaled /\ scaled <= MaxInt

PyQuantity(a) == PyDigits(a) /\ Quantity(a)

GoQuantity(a) == GoDigits(a) /\ Quantity(a)
=============================================================================
