-------------------------------- MODULE Speeds --------------------------------
(***************************************************************************)
(* Play speeds of a renderer: the functions of device.c on "rational"      *)
(* texts such as "1/2", and the lists of speeds made with them.            *)
(*                                                                         *)
(* A text is its numerator and denominator.  The code takes one with a     *)
(* denominator of 0 and skips it; negative denominators, which UPnP AV     *)
(* does not have, are left out.  Values on D-Bus are doubles rounded to a  *)
(* hundredth and are integers here, in hundredths.  A list the code has    *)
(* not got (NULL) is the empty sequence: the lists it builds have a speed  *)
(* in them, since a renderer lists the speed 1.                            *)
(***************************************************************************)
EXTENDS Integers, Sequences, SequencesExt

\* The texts, and those that stand for a number.
Speed    == [num : Int, den : Nat]
Rational == [num : Int, den : Nat \ {0}]

One == [num |-> 1, den |-> 1]

\* prv_compare_rationals: negative, zero or positive.
CompareRationals(a, b) == a.num * b.den - b.num * a.den

\* prv_rational_is_invalid.
IsInvalid(r) == r.num = 0 \/ r.den = 0

AbsValue(n) == IF n < 0 THEN -n ELSE n

\* prv_rational_to_double with a precision of 0.01, in hundredths: round()
\* goes away from zero at a half.
Hundredths(r) ==
    LET m == (200 * AbsValue(r.num) + r.den) \div (2 * r.den)
    IN  IF IsInvalid(r) THEN 0 ELSE IF r.num < 0 THEN -m ELSE m

\* g_list_sort with compare_speeds, which is stable: each speed in turn is
\* put before the first that is greater.  (With several denominators of 0 the
\* comparison is no order, and the place of those texts is that of this sort.)
Inserted(list, s) ==
    LET n == SelectInSeq(list, LAMBDA r : CompareRationals(r, s) > 0)
    IN  IF n = 0 THEN Append(list, s) ELSE InsertAt(list, n, s)

SortSpeeds(list) ==
    LET sorted[n \in 0 .. Len(list)] ==
            IF n = 0 THEN <<>> ELSE Inserted(sorted[n - 1], list[n])
    IN  sorted[Len(list)]

Lowest(r, s)  == IF CompareRationals(r, s) > 0 THEN s ELSE r
Highest(r, s) == IF CompareRationals(r, s) < 0 THEN s ELSE r

\* What the code knows of a list of speeds: the texts it can send, the values
\* it exposes, one for each, and the least and the greatest of them.
NoRates == [upnp |-> <<>>, mpris |-> <<>>, min |-> 0, max |-> 0]

\* Variant of TakeSpeed: the text is kept whether valid or not.
TakeSpeed_KeepsInvalid(t, s) ==
    IF IsInvalid(s) THEN [t EXCEPT !.upnp = Append(@, s)]
    ELSE [upnp    |-> Append(t.upnp, s),
          mpris   |-> Append(t.mpris, Hundredths(s)),
          lowest  |-> Lowest(t.lowest, s),
          highest |-> Highest(t.highest, s)]

\* One turn of the loop of prv_get_rates_values.
TakeSpeed(t, s) ==
    IF IsInvalid(s) THEN t
    ELSE [upnp    |-> Append(t.upnp, s),
          mpris   |-> Append(t.mpris, Hundredths(s)),
          lowest  |-> Lowest(t.lowest, s),
          highest |-> Highest(t.highest, s)]

\* prv_get_rates_values, for a list with a speed in it.  The search for the
\* least and the greatest starts at the first speed, valid or not.
RatesValues(list) ==
    LET taken[n \in 0 .. Len(list)] ==
            IF n = 0 THEN [upnp   |-> <<>>, mpris   |-> <<>>,
                           lowest |-> Head(list), highest |-> Head(list)]
            ELSE TakeSpeed(taken[n - 1], list[n])
        all == taken[Len(list)]
    IN  [upnp |-> all.upnp, mpris |-> all.mpris,
         min |-> Hundredths(all.lowest), max |-> Hundredths(all.highest)]

\* The first of the values that is within a hundredth of v; 0 if none is.
IndexOfValue(values, v) ==
    SelectInSeq(values, LAMBDA t : AbsValue(v - t) <= 1)

\* Whether the speed text s stands for a value within a hundredth of v.
MeansValue(s, v) == AbsValue(Hundredths(s) - v) <= 1
=============================================================================
