----------------------------- MODULE OptionDump -----------------------------
(***************************************************************************)
(* What `scanimage -A` prints of a device (sane/option_dump.cpp), and the  *)
(* exact arithmetic the answers are compared with (util/numeric.cpp).      *)
(*                                                                         *)
(* A dump is the sequence of its option lines.  A value of an option is    *)
(* the set of the words the code looks for in it ("TPU 8x10" becomes       *)
(* {"transparency", "8x10"}), a millimetre is ten units, and an optional   *)
(* value is a sequence of length at most one.                              *)
(***************************************************************************)
EXTENDS Integers, SequencesExt

None == <<>>
Some(v) == <<v>>
The(optional) == optional[1]

\* The first optional that holds a value.
OrElse(a, b) == IF a # None THEN a ELSE b

\* The first of the values at some places of a sequence.
FirstAt(values, places) ==
  IF places = {} THEN None
  ELSE Some(values[CHOOSE i \in places : \A j \in places : i <= j])

Says(word, value) == word \in value

FirstSaying(word, values) == FirstAt(values, {i \in DOMAIN values : Says(word, values[i])})

-----------------------------------------------------------------------------
(* Lines.  An enumeration carries values, a list of numbers ints, a range   *)
(* its bounds; selected is the value shown in brackets.                     *)

Bounds(low, high, step) == [minimum |-> low, maximum |-> high, step |-> step]

Line(name) == [name |-> name, active |-> TRUE, values |-> <<>>, ints |-> <<>>,
               range |-> None, unit |-> "", selected |-> None]

EnumLine(name, values) == [Line(name) EXCEPT !.values = values]
IntLine(name, ints) == [Line(name) EXCEPT !.ints = ints]
RangeLine(name, range, unit) == [Line(name) EXCEPT !.range = Some(range), !.unit = unit]

LinesOf(dump, name) == {i \in DOMAIN dump : dump[i].name = name}

HasOption(dump, name) == LinesOf(dump, name) # {}

\* One inactive line of a name makes the option inactive, whichever line it is.
IsActive(dump, name) ==
  LET lines == LinesOf(dump, name)
  IN lines # {} /\ \A i \in lines : dump[i].active

\* Of two lines of one name the first gives the value.
Value(dump, name) == The(OrElse(FirstAt(dump, LinesOf(dump, name)), Some(Line(name))))

ConstraintEnumValues(dump, name) == Value(dump, name).values

EnumValues(dump, name) == IF IsActive(dump, name) THEN Value(dump, name).values ELSE <<>>

SelectedEnumValue(dump, name) ==
  LET values   == EnumValues(dump, name)
      selected == Value(dump, name).selected
  IN FirstAt(values, {i \in DOMAIN values : Some(values[i]) = selected})

ConstraintIntTokens(dump, name) == Value(dump, name).ints

IntTokens(dump, name) == IF IsActive(dump, name) THEN Value(dump, name).ints ELSE <<>>

NumericRange(dump, name) == IF IsActive(dump, name) THEN Value(dump, name).range ELSE None

RangeWithUnit(dump, name, unit) ==
  IF Value(dump, name).unit = unit THEN NumericRange(dump, name) ELSE None

\* A range is told by its "..", anything else is read as a list.
ResolutionSpec(dump) ==
  LET range == NumericRange(dump, "resolution")
      list  == ToSet(IntTokens(dump, "resolution"))
  IN [kind |-> IF range # None THEN "range" ELSE IF list # {} THEN "list" ELSE "none",
      list |-> IF range # None THEN {} ELSE list, range |-> range]

-----------------------------------------------------------------------------
(* util/numeric.cpp, on tenths of a millimetre.                             *)

ContainsExactly(range, value) ==
  /\ range.minimum <= value /\ value <= range.maximum
  /\ range.step > 0 => (value - range.minimum) % range.step = 0

InRange(range, value) == range # None /\ ContainsExactly(The(range), value)

\* 25.4 mm is an inch; halves round away from zero, and nothing here is negative.
Pixels(tenths, dpi) == (2 * tenths * dpi + 254) \div 508

PixelGeometryValue(tenths, dpi, range) ==
  LET pixels == Pixels(tenths, dpi)
  IN IF tenths >= 0 /\ dpi > 0 /\ ContainsExactly(range, pixels) THEN Some(pixels) ELSE None

PixelGeometryLength(tenths, dpi) ==
  IF tenths > 0 /\ dpi > 0 /\ Pixels(tenths, dpi) >= 1 THEN Some(Pixels(tenths, dpi)) ELSE None

\* Mutant of Epson2AlignedHeight: the surface is not looked at when the height grows.
Epson2AlignedHeightAnywhere(originY, height, range, surfaceBottom) ==
  LET bottom == originY + height
      grown  == ((bottom + 9) \div 10) * 10 - originY
  IN IF height > 0 /\ bottom % 10 # 0 THEN grown ELSE height

\* epson2 cuts the bottom edge to whole millimetres: grow to the next one where that is
\* legal, else shrink to the last one, else leave the height as it is.
Epson2AlignedHeight(originY, height, range, surfaceBottom) ==
  LET bottom == originY + height
      grown  == ((bottom + 9) \div 10) * 10 - originY
      shrunk == (bottom \div 10) * 10 - originY
  IN IF ~(height > 0) \/ bottom % 10 = 0 THEN height
     ELSE IF ContainsExactly(range, grown) /\ originY + grown <= surfaceBottom THEN grown
     ELSE IF shrunk > 0 /\ ContainsExactly(range, shrunk) THEN shrunk
     ELSE height
=============================================================================
