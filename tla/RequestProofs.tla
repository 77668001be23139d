--------------------------- MODULE RequestProofs ---------------------------
(***************************************************************************)
(* scan and capabilities for every scanner and every document: what stands *)
(* on the command line of scanimage is legal for the device and says what  *)
(* was asked, every request is answered under its id, a request made of    *)
(* what the capabilities offer is accepted, and the child reads the values *)
(* that the command line was made of.                                      *)
(***************************************************************************)
EXTENDS ScanRequest, WellFoundedInduction, TLAPS

-----------------------------------------------------------------------------
(***************************************************************************)
(* The first place of a sequence.                                          *)
(***************************************************************************)
\* A set of numbers has a least one; FirstAt chooses it.
LEMMA LeastPlace ==
  ASSUME NEW S, S \subseteq Nat, S # {}
  PROVE  \E i \in S : \A j \in S : i <= j
<1> DEFINE R == OpToRel(<, Nat)
<1>1. PICK i \in S : \A j \in S : ~ (<<j, i>> \in R)
  BY NatLessThanWellFounded, WFMin
<1>2. ASSUME NEW j \in S PROVE i <= j
  <2>1. ~ (<<j, i>> \in R)
    BY <1>1
  <2>2. <<j, i>> \in Nat \X Nat
    OBVIOUS
  <2>3. ~ (j < i)
    BY <2>1, <2>2 DEF OpToRel
  <2> QED
    BY <2>3
<1> QED
  BY <1>2

\* FirstAt answers None for no place, and else the value at one of the places.
LEMMA FirstAtPlace ==
  ASSUME NEW values, NEW places, places \subseteq Nat
  PROVE  /\ places = {} => FirstAt(values, places) = None
         /\ places # {} => \E i \in places : FirstAt(values, places) = Some(values[i])
<1>1. CASE places = {}
  BY <1>1 DEF FirstAt
<1>2. CASE places # {}
  <2> DEFINE first == CHOOSE i \in places : \A j \in places : i <= j
  <2>1. first \in places
    BY <1>2, LeastPlace
  <2>2. FirstAt(values, places) = Some(values[first])
    BY <1>2 DEF FirstAt
  <2> QED
    BY <1>2, <2>1, <2>2
<1> QED
  BY <1>1, <1>2

\* An optional value is told from none, and holds what was put into it.
LEMMA OptionalValue ==
  ASSUME NEW v
  PROVE  Some(v) # None /\ The(Some(v)) = v /\ ToSet(Some(v)) = {v} /\ ToSet(None) = {}
BY DEF Some, None, The, ToSet

LEMMA SayingFound ==
  ASSUME NEW word, NEW values, DOMAIN values \subseteq Nat
  PROVE  LET found == FirstSaying(word, values)
         IN \/ found = None /\ \A v \in ToSet(values) : ~Says(word, v)
            \/ \E v \in ToSet(values) : found = Some(v) /\ Says(word, v)
<1> DEFINE places == {i \in DOMAIN values : Says(word, values[i])}
<1>1. FirstSaying(word, values) = FirstAt(values, places)
  BY DEF FirstSaying
<1>2. CASE places = {}
  BY <1>1, <1>2, FirstAtPlace DEF ToSet
<1>3. CASE places # {}
  <2>1. PICK i \in places : FirstAt(values, places) = Some(values[i])
    BY <1>3, FirstAtPlace
  <2> QED
    BY <1>1, <2>1 DEF ToSet
<1> QED
  BY <1>2, <1>3

-----------------------------------------------------------------------------
(***************************************************************************)
(* Arguments.                                                              *)
(***************************************************************************)
\* The option name may stand on a command line for this dump with this value, if any.
MayBe(dump, name, optional) ==
  optional # None =>
    IsActive(dump, name) /\ (name # "focus" => LegalValue(dump, name, The(optional)))

Legal(dump, a) == \A name \in DOMAIN a : MayBe(dump, name, Some(a[name]))

LEMMA ArgGiven ==
  ASSUME NEW name, NEW optional
  PROVE  /\ DOMAIN Arg(name, optional) = IF optional = None THEN {} ELSE {name}
         /\ optional # None => Arg(name, optional)[name] = The(optional)
         /\ \A n \in DOMAIN Arg(name, optional) :
              optional # None /\ n = name /\ Arg(name, optional)[n] = The(optional)
BY DEF Arg

LEMMA Joined ==
  ASSUME NEW a, NEW b
  PROVE  /\ DOMAIN (a ++ b) = DOMAIN a \cup DOMAIN b
         /\ \A n \in DOMAIN a : (a ++ b)[n] = a[n]
         /\ \A n \in DOMAIN (a ++ b) : n \in DOMAIN a \/ (n \in DOMAIN b /\ (a ++ b)[n] = b[n])
         /\ \A n \in DOMAIN b : n \in DOMAIN a \/ (a ++ b)[n] = b[n]
BY DEF ++

LEMMA NothingGiven == DOMAIN <<>> = {}
OBVIOUS

LEMMA LegalNothing == \A dump : Legal(dump, <<>>)
BY NothingGiven DEF Legal

LEMMA LegalArg ==
  ASSUME NEW dump, NEW name, NEW optional, MayBe(dump, name, optional)
  PROVE  Legal(dump, Arg(name, optional))
<1> SUFFICES ASSUME NEW n \in DOMAIN Arg(name, optional)
             PROVE  MayBe(dump, n, Some(Arg(name, optional)[n]))
  BY DEF Legal
<1>1. optional # None /\ n = name /\ Arg(name, optional)[n] = The(optional)
  BY DEF Arg
<1>2. The(Some(The(optional))) = The(optional)
  BY OptionalValue
<1> QED
  BY <1>1, <1>2 DEF MayBe

LEMMA LegalJoin ==
  ASSUME NEW dump, NEW a, NEW b, Legal(dump, a), Legal(dump, b)
  PROVE  Legal(dump, a ++ b)
<1> SUFFICES ASSUME NEW n \in DOMAIN (a ++ b) PROVE MayBe(dump, n, Some((a ++ b)[n]))
  BY DEF Legal
<1>1. CASE n \in DOMAIN a
  <2>1. (a ++ b)[n] = a[n]
    BY <1>1 DEF ++
  <2> QED
    BY <1>1, <2>1 DEF Legal
<1>2. CASE n \notin DOMAIN a
  <2>1. n \in DOMAIN b /\ (a ++ b)[n] = b[n]
    BY <1>2 DEF ++
  <2> QED
    BY <2>1 DEF Legal
<1> QED
  BY <1>1, <1>2

-----------------------------------------------------------------------------
(***************************************************************************)
(* Lines of a dump: what its value may be.                                 *)
(***************************************************************************)
Parsed(dump) ==
  DOMAIN dump \subseteq Nat /\ \A i \in DOMAIN dump : IsParsed(dump[i]) /\ IsShown(dump[i])

LEMMA ValueIsParsed ==
  ASSUME NEW dump, Parsed(dump), NEW name
  PROVE  /\ IsParsed(Value(dump, name)) /\ IsShown(Value(dump, name))
         /\ Value(dump, name).name = name
<1> DEFINE lines == LinesOf(dump, name)
<1>0. lines \subseteq DOMAIN dump /\ DOMAIN dump \subseteq Nat
  BY DEF Parsed, LinesOf
<1>1. CASE lines = {}
  <2>1. Value(dump, name) = Line(name)
    BY <1>0, <1>1, FirstAtPlace, OptionalValue DEF Value, OrElse
  <2>2. <<>> \in Seq(Values) /\ <<>> \in Seq(Int) /\ <<>> \in Seq(Ranges)
    OBVIOUS
  <2>3. IsParsed(Line(name)) /\ IsShown(Line(name)) /\ Line(name).name = name
    BY <2>2, OptionalValue DEF Line, IsParsed, IsShown, None
  <2> QED
    BY <2>1, <2>3
<1>2. CASE lines # {}
  <2>1. PICK i \in lines : FirstAt(dump, lines) = Some(dump[i])
    BY <1>0, <1>2, FirstAtPlace
  <2>2. Value(dump, name) = dump[i]
    BY <2>1, OptionalValue DEF Value, OrElse
  <2>3. dump[i].name = name /\ i \in DOMAIN dump
    BY <1>0 DEF LinesOf
  <2> QED
    BY <2>2, <2>3 DEF Parsed
<1> QED
  BY <1>1, <1>2

LEMMA ListedIsLegal ==
  ASSUME NEW dump, Parsed(dump), NEW name, NEW v \in ToSet(EnumValues(dump, name))
  PROVE  IsActive(dump, name) /\ LegalValue(dump, name, v)
<1>1. IsActive(dump, name) /\ v \in ToSet(Value(dump, name).values)
  BY DEF EnumValues, ToSet
<1>2. Value(dump, name).values # <<>>
  BY <1>1 DEF ToSet
<1> QED
  BY <1>1, <1>2, ValueIsParsed DEF LegalValue, IsParsed

LEMMA CountedIsLegal ==
  ASSUME NEW dump, Parsed(dump), NEW name, NEW v \in ToSet(IntTokens(dump, name))
  PROVE  IsActive(dump, name) /\ LegalValue(dump, name, v)
<1>1. IsActive(dump, name) /\ v \in ToSet(Value(dump, name).ints)
  BY DEF IntTokens, ToSet
<1>2. Value(dump, name).ints # <<>>
  BY <1>1 DEF ToSet
<1> QED
  BY <1>1, <1>2, ValueIsParsed DEF LegalValue, IsParsed

LEMMA BoundedIsLegal ==
  ASSUME NEW dump, Parsed(dump), NEW name, NEW v, InRange(NumericRange(dump, name), v)
  PROVE  IsActive(dump, name) /\ LegalValue(dump, name, v)
<1>1. IsActive(dump, name) /\ Value(dump, name).range = NumericRange(dump, name)
  BY DEF InRange, NumericRange
<1>2. Value(dump, name).range # None
  BY <1>1 DEF InRange
<1> QED
  BY <1>1, <1>2, ValueIsParsed DEF LegalValue, IsParsed, InRange

LEMMA MeasuredIsLegal ==
  ASSUME NEW dump, Parsed(dump), NEW name, NEW unit, NEW v,
         InRange(RangeWithUnit(dump, name, unit), v)
  PROVE  IsActive(dump, name) /\ LegalValue(dump, name, v)
<1>1. InRange(NumericRange(dump, name), v)
  BY DEF InRange, RangeWithUnit
<1> QED
  BY <1>1, BoundedIsLegal

LEMMA UnboundedIsLegal ==
  ASSUME NEW dump, Parsed(dump), NEW name, NEW v, IsActive(dump, name),
         \/ name \in Switches
         \/ name \in {"brightness", "contrast"} /\ NumericRange(dump, name) = None
  PROVE  LegalValue(dump, name, v)
<1>1. Value(dump, name).range = None
  BY ValueIsParsed DEF IsParsed, NumericRange
<1> QED
  BY <1>1, ValueIsParsed DEF LegalValue, IsParsed, IsShown

LEMMA ListsAreSequences ==
  ASSUME NEW dump, Parsed(dump), NEW name
  PROVE  /\ EnumValues(dump, name) \in Seq(Values)
         /\ ConstraintEnumValues(dump, name) \in Seq(Values)
         /\ IntTokens(dump, name) \in Seq(Int)
         /\ NumericRange(dump, name) \in Seq(Ranges)
         /\ \A unit : RangeWithUnit(dump, name, unit) \in Seq(Ranges)
<1>2. \A S : <<>> \in Seq(S)
  OBVIOUS
<1>3. /\ Value(dump, name).values \in Seq(Values)
      /\ Value(dump, name).ints \in Seq(Int)
      /\ Value(dump, name).range \in Seq(Ranges)
  BY ValueIsParsed DEF IsParsed
<1>4. EnumValues(dump, name) \in Seq(Values) /\ ConstraintEnumValues(dump, name) \in Seq(Values)
  BY <1>2, <1>3 DEF EnumValues, ConstraintEnumValues
<1>5. IntTokens(dump, name) \in Seq(Int)
  BY <1>2, <1>3 DEF IntTokens
<1>6. NumericRange(dump, name) \in Seq(Ranges)
  BY <1>2, <1>3 DEF NumericRange, None
<1>7. \A unit : RangeWithUnit(dump, name, unit) \in Seq(Ranges)
  BY <1>2, <1>6 DEF RangeWithUnit, None
<1> QED
  BY <1>4, <1>5, <1>6, <1>7

-----------------------------------------------------------------------------
(***************************************************************************)
(* What resolveMedia picks is one of the values the device shows.          *)
(***************************************************************************)
From(optional, S) == optional = None \/ \E v \in S : optional = Some(v)

LEMMA FirstAtFrom ==
  ASSUME NEW values, NEW places, places \subseteq DOMAIN values, DOMAIN values \subseteq Nat
  PROVE  From(FirstAt(values, places), ToSet(values))
<1>1. CASE places = {}
  BY <1>1, FirstAtPlace DEF From
<1>2. CASE places # {}
  <2>1. PICK i \in places : FirstAt(values, places) = Some(values[i])
    BY <1>2, FirstAtPlace
  <2>2. values[i] \in ToSet(values)
    BY DEF ToSet
  <2> QED
    BY <2>1, <2>2 DEF From
<1> QED
  BY <1>1, <1>2

LEMMA SayingFrom ==
  ASSUME NEW word, NEW values, DOMAIN values \subseteq Nat
  PROVE  From(FirstSaying(word, values), ToSet(values))
BY FirstAtFrom DEF FirstSaying

LEMMA OrElseFrom ==
  ASSUME NEW a, NEW b, NEW S, From(a, S), From(b, S)
  PROVE  From(OrElse(a, b), S)
BY DEF OrElse, From

LEMMA FromMayBe ==
  ASSUME NEW dump, Parsed(dump), NEW name, NEW optional,
         From(optional, ToSet(EnumValues(dump, name)))
  PROVE  MayBe(dump, name, optional)
<1> SUFFICES ASSUME optional # None PROVE MayBe(dump, name, optional)
  BY DEF MayBe
<1>1. PICK v \in ToSet(EnumValues(dump, name)) : optional = Some(v)
  BY DEF From
<1>2. The(optional) = v
  BY <1>1, OptionalValue
<1> QED
  BY <1>2, ListedIsLegal DEF MayBe

\* An option whose constraint is looked at although it might be inactive.
LEMMA ConstraintMayBe ==
  ASSUME NEW dump, Parsed(dump), NEW name, NEW optional, IsActive(dump, name),
         From(optional, ToSet(ConstraintEnumValues(dump, name)))
  PROVE  MayBe(dump, name, optional)
BY FromMayBe DEF EnumValues, ConstraintEnumValues

LEMMA PreferredListed ==
  ASSUME NEW sources, DOMAIN sources \subseteq Nat
  PROVE  From(PreferredTransparencySource(sources), ToSet(sources))
<1> DEFINE visible == {i \in DOMAIN sources : IsTransparencySource(sources[i]) /\ ~IsInfraredValue(sources[i])}
           guideless == {i \in visible : ~Says("8x10", sources[i])}
<1>1. From(FirstAt(sources, guideless), ToSet(sources))
  BY FirstAtFrom
<1>2. From(FirstAt(sources, visible), ToSet(sources))
  BY FirstAtFrom
<1>3. From(FirstSaying("transparency", sources), ToSet(sources))
  BY SayingFrom
<1>4. PreferredTransparencySource(sources) =
        OrElse(FirstAt(sources, guideless),
               OrElse(FirstAt(sources, visible), FirstSaying("transparency", sources)))
  BY DEF PreferredTransparencySource
<1> HIDE DEF visible, guideless
<1> QED
  BY <1>1, <1>2, <1>3, <1>4, OrElseFrom

LEMMA SourceListed ==
  ASSUME NEW dump, Parsed(dump)
  PROVE  From(ResolvedSource(dump), ToSet(EnumValues(dump, "source")))
<1> DEFINE sources == EnumValues(dump, "source")
<1>1. sources \in Seq(Values)
  BY ListsAreSequences
<1>2. DOMAIN sources \subseteq Nat
  BY <1>1
<1> HIDE DEF sources
<1>3. From(PreferredTransparencySource(sources), ToSet(sources))
  BY <1>2, PreferredListed
<1>4. From(FirstAt(sources, DOMAIN sources), ToSet(sources))
  BY <1>2, FirstAtFrom
<1>5. From(OrElse(PreferredTransparencySource(sources), FirstAt(sources, DOMAIN sources)), ToSet(sources))
  BY <1>3, <1>4, OrElseFrom
<1> QED
  BY <1>5 DEF ResolvedSource, sources

LEMMA ModeListed ==
  ASSUME NEW dump, Parsed(dump), NEW colorMode
  PROVE  From(PickModeValue(EnumValues(dump, "mode"), colorMode), ToSet(EnumValues(dump, "mode")))
<1>1. EnumValues(dump, "mode") \in Seq(Values)
  BY ListsAreSequences
<1>2. DOMAIN EnumValues(dump, "mode") \subseteq Nat
  BY <1>1
<1> QED
  BY <1>2, SayingFrom DEF PickModeValue

LEMMA EpsonListed ==
  ASSUME NEW dump, Parsed(dump)
  PROVE  /\ From(EpsonRawColorCorrection(dump), ToSet(ConstraintEnumValues(dump, "color-correction")))
         /\ From(EpsonRawGammaCorrection(dump), ToSet(ConstraintEnumValues(dump, "gamma-correction")))
<1> DEFINE colors == ConstraintEnumValues(dump, "color-correction")
           gammas == ConstraintEnumValues(dump, "gamma-correction")
<1>1. colors \in Seq(Values) /\ gammas \in Seq(Values)
  BY ListsAreSequences
<1>2. DOMAIN colors \subseteq Nat /\ DOMAIN gammas \subseteq Nat
  BY <1>1
<1> HIDE DEF colors, gammas
<1>3. From(FirstSaying("none", colors), ToSet(colors))
  BY <1>2, SayingFrom
<1>4. From(OrElse(FirstSaying("gamma=1.0", gammas), FirstSaying("user defined", gammas)), ToSet(gammas))
  BY <1>2, SayingFrom, OrElseFrom
<1> QED
  BY <1>3, <1>4 DEF EpsonRawColorCorrection, EpsonRawGammaCorrection, colors, gammas

\* Infrared comes from a listed value that says so.
LEMMA InfraredListed ==
  ASSUME NEW dump, Parsed(dump), NEW o
  PROVE  LET m == InfraredStrategy(dump, o)
         IN /\ m.kind \in {"none", "source", "mode"}
            /\ m.kind # "none" =>
                 o.infrared /\ m.value \in ToSet(EnumValues(dump, m.kind)) /\ IsInfraredValue(m.value)
<1> DEFINE sources == EnumValues(dump, "source")
           modes   == EnumValues(dump, "mode")
<1>1. sources \in Seq(Values) /\ modes \in Seq(Values)
  BY ListsAreSequences
<1>2. DOMAIN sources \subseteq Nat /\ DOMAIN modes \subseteq Nat
  BY <1>1
<1> HIDE DEF sources, modes
<1>3. \/ FirstSaying("infrared", sources) = None
      \/ \E v \in ToSet(sources) : FirstSaying("infrared", sources) = Some(v) /\ Says("infrared", v)
  BY <1>2, SayingFound
<1>4. \/ FirstSaying("infrared", modes) = None
      \/ \E v \in ToSet(modes) : FirstSaying("infrared", modes) = Some(v) /\ Says("infrared", v)
  BY <1>2, SayingFound
<1> DEFINE fromSource == FirstSaying("infrared", sources)
           fromMode == FirstSaying("infrared", modes)
<1>5. InfraredStrategy(dump, o) =
        IF ~o.infrared THEN [kind |-> "none", value |-> {}]
        ELSE IF fromSource # None THEN [kind |-> "source", value |-> The(fromSource)]
        ELSE IF fromMode # None THEN [kind |-> "mode", value |-> The(fromMode)]
        ELSE [kind |-> "none", value |-> {}]
  BY DEF InfraredStrategy, sources, modes
<1>6. /\ fromSource # None => The(fromSource) \in ToSet(sources) /\ IsInfraredValue(The(fromSource))
      /\ fromMode # None => The(fromMode) \in ToSet(modes) /\ IsInfraredValue(The(fromMode))
  BY <1>3, <1>4, OptionalValue DEF IsInfraredValue
<1> HIDE DEF fromSource, fromMode
<1> QED
  BY <1>5, <1>6 DEF sources, modes

LEMMA MediaFields ==
  ASSUME NEW dump, NEW o, NEW film
  PROVE  LET m == ResolveMedia(dump, o, film)
         IN /\ m.source = ResolvedSource(dump)
            /\ m.mode = PickModeValue(EnumValues(dump, "mode"), o.colorMode)
            /\ m.irPassMode = PickModeValue(EnumValues(dump, "mode"), "gray")
            /\ m.colorCorrection = IF o.backend = "epson2" /\ IsActive(dump, "color-correction")
                                     THEN EpsonRawColorCorrection(dump) ELSE None
            /\ m.gammaCorrection = IF o.backend = "epson2" /\ IsActive(dump, "gamma-correction")
                                     THEN EpsonRawGammaCorrection(dump) ELSE None
            /\ m.fixedDepth = FixedDepth(dump, o.backend)
            /\ m.depth = DepthArgument(dump, o.bitDepth)
            /\ m.dpi = ResolvedDPI(dump, o.dpi)
            /\ m.geometryKind = GeometryKind(dump, o)
            /\ m.geometry = Geometry(dump, o)
            /\ m.filmTypeOption = FilmTypeOptionName(dump)
            /\ m.filmType = FilmType(dump, o)
            /\ m.left = RangeWithUnit(dump, "l", "mm") /\ m.top = RangeWithUnit(dump, "t", "mm")
            /\ m.width = RangeWithUnit(dump, "x", "mm") /\ m.height = RangeWithUnit(dump, "y", "mm")
            /\ m.infrared = InfraredStrategy(dump, o)
            /\ m.brightness = IF SupportsTone(o) THEN NumericRange(dump, "brightness") ELSE None
            /\ m.contrast = IF SupportsTone(o) THEN NumericRange(dump, "contrast") ELSE None
            /\ m.exposure = NumericRange(dump, "scan-exposure-time")
            /\ m.focus = NumericRange(dump, "focus")
            /\ m.dedicated = DedicatedFilmDevice(dump, film, o.backend)
BY DEF ResolveMedia

LEMMA MediaOptionsActive ==
  ASSUME NEW dump, NEW o, NEW film, NEW name
  PROVE  LET m == ResolveMedia(dump, o, film)
         IN /\ name \in m.options => IsActive(dump, name)
            /\ name \in {"preview", "mode", "depth", "advance", "autofocus", "color-correction",
                         "gamma-correction", "scan-exposure-time"} =>
                 (IsActive(dump, name) => name \in m.options)
            /\ name \in {"brightness", "contrast"} =>
                 (name \in m.options <=> SupportsTone(o) /\ IsActive(dump, name))
BY DEF ResolveMedia

LEMMA DepthMayBe ==
  ASSUME NEW dump, Parsed(dump), NEW bitDepth
  PROVE  From(DepthArgument(dump, bitDepth), ToSet(IntTokens(dump, "depth")))
<1> DEFINE tokens == {t \in ToSet(IntTokens(dump, "depth")) : t >= 8}
           deepest == {t \in tokens : t > 8 /\ \A u \in tokens : u <= t}
<1>1. DepthArgument(dump, bitDepth) =
        IF bitDepth \in tokens THEN Some(bitDepth)
        ELSE IF bitDepth = 16 /\ deepest # {} THEN Some(CHOOSE t \in deepest : TRUE) ELSE None
  BY DEF DepthArgument
<1>2. deepest # {} => (CHOOSE t \in deepest : TRUE) \in deepest
  OBVIOUS
<1>3. tokens \subseteq ToSet(IntTokens(dump, "depth")) /\ deepest \subseteq tokens
  OBVIOUS
<1> HIDE DEF tokens, deepest
<1> QED
  BY <1>1, <1>2, <1>3 DEF From

LEMMA ResolutionMayBe ==
  ASSUME NEW dump, Parsed(dump), NEW dpi
  PROVE  MayBe(dump, "resolution", ResolvedDPI(dump, dpi))
<1> SUFFICES ASSUME ResolvedDPI(dump, dpi) # None
             PROVE  IsActive(dump, "resolution") /\ LegalValue(dump, "resolution", dpi)
  BY OptionalValue DEF MayBe, ResolvedDPI
<1>1. dpi \in ResolutionSpec(dump).list \/ InRange(ResolutionSpec(dump).range, dpi)
  BY DEF ResolvedDPI
<1>2. CASE dpi \in ResolutionSpec(dump).list
  <2>1. dpi \in ToSet(IntTokens(dump, "resolution"))
    BY <1>2 DEF ResolutionSpec
  <2> QED
    BY <2>1, CountedIsLegal
<1>3. CASE InRange(ResolutionSpec(dump).range, dpi)
  <2>1. InRange(NumericRange(dump, "resolution"), dpi)
    BY <1>3 DEF ResolutionSpec
  <2> QED
    BY <2>1, BoundedIsLegal
<1> QED
  BY <1>1, <1>2, <1>3

LEMMA FilmOptionActive ==
  ASSUME NEW dump
  PROVE  \/ FilmTypeOptionName(dump) = None
         \/ \E name \in {"film-type", "type", "negative"} :
              FilmTypeOptionName(dump) = Some(name) /\ IsActive(dump, name)
<1> DEFINE names == <<"film-type", "type", "negative">>
           places == {i \in DOMAIN names : IsActive(dump, names[i])}
<1>1. FilmTypeOptionName(dump) = FirstAt(names, places)
  BY DEF FilmTypeOptionName
<1>2. places \subseteq Nat
  OBVIOUS
<1>3. \A i \in places : names[i] \in {"film-type", "type", "negative"} /\ IsActive(dump, names[i])
  OBVIOUS
<1> HIDE DEF names, places
<1> QED
  BY <1>1, <1>2, <1>3, FirstAtPlace

LEMMA FilmTypeMayBe ==
  ASSUME NEW dump, Parsed(dump), NEW o, FilmTypeOptionName(dump) # None
  PROVE  MayBe(dump, The(FilmTypeOptionName(dump)), FilmType(dump, o))
<1>1. PICK name \in {"film-type", "type", "negative"} :
        FilmTypeOptionName(dump) = Some(name) /\ IsActive(dump, name)
  BY FilmOptionActive
<1>2. The(FilmTypeOptionName(dump)) = name
  BY <1>1, OptionalValue
<1> DEFINE polarity == IF o.backend = "coolscan" /\ FilmTypeOptionName(dump) = Some("type")
                         THEN "positive" ELSE o.film
           values == EnumValues(dump, name)
           matches == {i \in DOMAIN values : Says(polarity, values[i])}
           plain == {i \in matches : ~Says("slide", values[i])}
<1>3. values \in Seq(Values)
  BY ListsAreSequences
<1>4. From(OrElse(FirstAt(values, plain), FirstAt(values, matches)), ToSet(values))
  <2>1. DOMAIN values \subseteq Nat /\ matches \subseteq DOMAIN values /\ plain \subseteq DOMAIN values
    BY <1>3
  <2> HIDE DEF values, matches, plain
  <2> QED
    BY <2>1, FirstAtFrom, OrElseFrom
<1>5. \/ FilmType(dump, o) = None
      \/ FilmTypeOptionName(dump) = Some("negative")
      \/ FilmType(dump, o) = OrElse(FirstAt(values, plain), FirstAt(values, matches))
  BY <1>2 DEF FilmType
<1>6. CASE FilmType(dump, o) = None
  BY <1>6 DEF MayBe
<1>7. CASE FilmTypeOptionName(dump) = Some("negative")
  <2>1. name = "negative"
    BY <1>2, <1>7, OptionalValue
  <2> QED
    BY <1>1, <1>2, <2>1, UnboundedIsLegal DEF MayBe, Switches
<1>8. CASE FilmType(dump, o) = OrElse(FirstAt(values, plain), FirstAt(values, matches))
  BY <1>2, <1>4, <1>8, FromMayBe
<1> QED
  BY <1>5, <1>6, <1>7, <1>8

-----------------------------------------------------------------------------
(***************************************************************************)
(* The area.                                                               *)
(***************************************************************************)
\* Aligning a height never makes a legal one illegal.
LEMMA AlignedStaysLegal ==
  ASSUME NEW y, NEW height, NEW range, NEW bottom, ContainsExactly(range, height)
  PROVE  ContainsExactly(range, Epson2AlignedHeight(y, height, range, bottom))
BY DEF Epson2AlignedHeight

LEMMA MeasuredMayBe ==
  ASSUME NEW dump, Parsed(dump), NEW name, NEW unit, NEW v, InRange(RangeWithUnit(dump, name, unit), v)
  PROVE  MayBe(dump, name, Some(v))
BY MeasuredIsLegal, OptionalValue DEF MayBe

LEMMA MillimetresMayBe ==
  ASSUME NEW dump, Parsed(dump), NEW o
  PROVE  LET g == MillimetreGeometry(dump, o)
         IN /\ MayBe(dump, "l", g.originX) /\ MayBe(dump, "t", g.originY)
            /\ MayBe(dump, "x", g.width) /\ MayBe(dump, "y", g.height)
<1> DEFINE g == MillimetreGeometry(dump, o)
           Extent(name) == RangeWithUnit(dump, name, "mm")
           whole == InRange(Extent("x"), o.area.width) /\ InRange(Extent("y"), o.area.height)
           top == IF Extent("t") = None THEN 0 ELSE The(Extent("t")).minimum
           height == IF whole /\ o.backend = "epson2"
                       THEN Epson2AlignedHeight(o.area.y, o.area.height, The(Extent("y")),
                                                top + The(Extent("y")).maximum)
                       ELSE o.area.height
<1>1. /\ g.originX = IF InRange(Extent("l"), o.area.x) THEN Some(o.area.x) ELSE None
      /\ g.originY = IF InRange(Extent("t"), o.area.y) THEN Some(o.area.y) ELSE None
      /\ g.width = IF whole THEN Some(o.area.width) ELSE None
      /\ g.height = IF whole THEN Some(height) ELSE None
  BY DEF MillimetreGeometry
<1>2. \A name : MayBe(dump, name, None)
  BY DEF MayBe
<1>3. whole => InRange(Extent("y"), height)
  BY AlignedStaysLegal DEF InRange
<1> HIDE DEF g, height
<1> QED
  BY <1>1, <1>2, <1>3, MeasuredMayBe DEF g

LEMMA PixelsInRange ==
  ASSUME NEW tenths, NEW dpi, NEW range
  PROVE  \/ PixelGeometryValue(tenths, dpi, range) = None
         \/ /\ PixelGeometryValue(tenths, dpi, range) = Some(Pixels(tenths, dpi))
            /\ tenths >= 0 /\ dpi > 0 /\ ContainsExactly(range, Pixels(tenths, dpi))
BY DEF PixelGeometryValue

LEMMA PixelsMayBe ==
  ASSUME NEW dump, Parsed(dump), NEW o
  PROVE  LET g == PixelGeometry(dump, o)
         IN /\ MayBe(dump, "l", g.originX) /\ MayBe(dump, "t", g.originY)
            /\ MayBe(dump, "x", g.width) /\ MayBe(dump, "y", g.height)
<1> DEFINE Size(name, tenths) ==
             IF RangeWithUnit(dump, name, "pel") = None THEN None
             ELSE PixelGeometryValue(tenths, o.dpi, The(RangeWithUnit(dump, name, "pel")))
<1>1. ASSUME NEW name, NEW tenths
      PROVE  MayBe(dump, name, Size(name, tenths))
  <2>1. CASE Size(name, tenths) = None
    BY <2>1 DEF MayBe
  <2>2. CASE Size(name, tenths) # None
    <3>1. /\ Size(name, tenths) = Some(Pixels(tenths, o.dpi))
          /\ InRange(RangeWithUnit(dump, name, "pel"), Pixels(tenths, o.dpi))
      BY <2>2, PixelsInRange DEF InRange
    <3> QED
      BY <3>1, MeasuredMayBe
  <2> QED
    BY <2>1, <2>2
<1>2. LET g == PixelGeometry(dump, o)
      IN /\ g.originX = Size("l", o.area.x) /\ g.originY = Size("t", o.area.y)
         /\ g.width = Size("x", o.area.width) /\ g.height = Size("y", o.area.height)
  BY DEF PixelGeometry
<1> HIDE DEF Size
<1> QED
  BY <1>1, <1>2

\* The four corners, when they are given: what they are, and that they are legal.
LEMMA CornersGiven ==
  ASSUME NEW dump, NEW o
  PROVE  LET g == CornerGeometry(dump, o)
             unit == The(MaximumResolution(dump))
             fits(name, v) == InRange(RangeWithUnit(dump, name, "pel"), v)
         IN \/ g = NoGeometry
            \/ /\ MaximumResolution(dump) # None
               /\ unit > 0 /\ o.area.width > 0 /\ o.area.height > 0
               /\ g.originX = Some(Pixels(o.area.x, unit))
               /\ g.originY = Some(Pixels(o.area.y, unit))
               /\ g.width = Some(Pixels(o.area.x, unit) + Pixels(o.area.width, unit) - 1)
               /\ g.height = Some(Pixels(o.area.y, unit) + Pixels(o.area.height, unit) - 1)
               /\ fits("tl-x", The(g.originX)) /\ fits("tl-y", The(g.originY))
               /\ fits("br-x", The(g.width)) /\ fits("br-y", The(g.height))
<1> DEFINE g == CornerGeometry(dump, o)
           unit == The(MaximumResolution(dump))
           Extent(name) == RangeWithUnit(dump, name, "pel")
           left == PixelGeometryValue(o.area.x, unit, The(Extent("tl-x")))
           top == PixelGeometryValue(o.area.y, unit, The(Extent("tl-y")))
           width == PixelGeometryLength(o.area.width, unit)
           height == PixelGeometryLength(o.area.height, unit)
           right == The(left) + The(width) - 1
           bottom == The(top) + The(height) - 1
<1> SUFFICES ASSUME g # NoGeometry
             PROVE  /\ MaximumResolution(dump) # None
                    /\ unit > 0 /\ o.area.width > 0 /\ o.area.height > 0
                    /\ g.originX = Some(Pixels(o.area.x, unit))
                    /\ g.originY = Some(Pixels(o.area.y, unit))
                    /\ g.width = Some(Pixels(o.area.x, unit) + Pixels(o.area.width, unit) - 1)
                    /\ g.height = Some(Pixels(o.area.y, unit) + Pixels(o.area.height, unit) - 1)
                    /\ InRange(Extent("tl-x"), The(g.originX)) /\ InRange(Extent("tl-y"), The(g.originY))
                    /\ InRange(Extent("br-x"), The(g.width)) /\ InRange(Extent("br-y"), The(g.height))
  OBVIOUS
<1>1. /\ MaximumResolution(dump) # None
      /\ Extent("tl-x") # None /\ Extent("tl-y") # None
      /\ left # None /\ top # None /\ width # None /\ height # None
      /\ InRange(Extent("br-x"), right) /\ InRange(Extent("br-y"), bottom)
      /\ g = [originX |-> left, originY |-> top, width |-> Some(right),
              height |-> Some(bottom), aligned |-> 0]
  BY DEF CornerGeometry
<1>2. /\ left = Some(Pixels(o.area.x, unit)) /\ InRange(Extent("tl-x"), Pixels(o.area.x, unit))
      /\ top = Some(Pixels(o.area.y, unit)) /\ InRange(Extent("tl-y"), Pixels(o.area.y, unit))
  BY <1>1, PixelsInRange DEF InRange
<1>3. /\ width = Some(Pixels(o.area.width, unit)) /\ o.area.width > 0 /\ unit > 0
      /\ height = Some(Pixels(o.area.height, unit)) /\ o.area.height > 0
  BY <1>1 DEF PixelGeometryLength
<1>4. /\ The(left) = Pixels(o.area.x, unit) /\ The(top) = Pixels(o.area.y, unit)
      /\ The(width) = Pixels(o.area.width, unit) /\ The(height) = Pixels(o.area.height, unit)
  BY <1>2, <1>3, OptionalValue
<1>5. The(Some(right)) = right /\ The(Some(bottom)) = bottom
  BY OptionalValue
<1> HIDE DEF g, unit, left, top, width, height, Extent
<1> QED
  BY <1>1, <1>2, <1>3, <1>4, <1>5

LEMMA CornersMayBe ==
  ASSUME NEW dump, Parsed(dump), NEW o
  PROVE  LET g == CornerGeometry(dump, o)
         IN /\ MayBe(dump, "tl-x", g.originX) /\ MayBe(dump, "tl-y", g.originY)
            /\ MayBe(dump, "br-x", g.width) /\ MayBe(dump, "br-y", g.height)
<1> DEFINE g == CornerGeometry(dump, o)
<1>1. CASE g = NoGeometry
  BY <1>1 DEF NoGeometry, MayBe
<1>2. CASE g # NoGeometry
  <2>1. /\ \E v : g.originX = Some(v) /\ InRange(RangeWithUnit(dump, "tl-x", "pel"), v)
        /\ \E v : g.originY = Some(v) /\ InRange(RangeWithUnit(dump, "tl-y", "pel"), v)
        /\ \E v : g.width = Some(v) /\ InRange(RangeWithUnit(dump, "br-x", "pel"), v)
        /\ \E v : g.height = Some(v) /\ InRange(RangeWithUnit(dump, "br-y", "pel"), v)
    BY <1>2, CornersGiven, OptionalValue
  <2> HIDE DEF g
  <2> QED
    BY <2>1, MeasuredMayBe DEF g
<1> QED
  BY <1>1, <1>2

Pair(a, va, b, vb) == IF va = None \/ vb = None THEN <<>> ELSE Arg(a, va) ++ Arg(b, vb)

LEMMA GeometryIsPairs ==
  ASSUME NEW m
  PROVE  GeometryArguments(m) =
           IF m.geometryKind = "corners"
             THEN Pair("tl-x", m.geometry.originX, "tl-y", m.geometry.originY)
                  ++ Pair("br-x", m.geometry.width, "br-y", m.geometry.height)
             ELSE Pair("l", m.geometry.originX, "t", m.geometry.originY)
                  ++ Pair("x", m.geometry.width, "y", m.geometry.height)
BY DEF GeometryArguments, Pair

LEMMA LegalPair ==
  ASSUME NEW dump, NEW a, NEW va, NEW b, NEW vb, MayBe(dump, a, va), MayBe(dump, b, vb)
  PROVE  Legal(dump, Pair(a, va, b, vb))
<1>1. Legal(dump, Arg(a, va)) /\ Legal(dump, Arg(b, vb))
  BY LegalArg
<1>2. Legal(dump, Arg(a, va) ++ Arg(b, vb))
  BY <1>1, LegalJoin
<1> QED
  BY <1>2, LegalNothing DEF Pair

LEMMA GeometryLegal ==
  ASSUME NEW dump, Parsed(dump), NEW o, NEW m,
         m.geometryKind = GeometryKind(dump, o), m.geometry = Geometry(dump, o)
  PROVE  Legal(dump, GeometryArguments(m))
<1> DEFINE g == m.geometry
<1>1. CASE m.geometryKind = "corners"
  <2>1. g = CornerGeometry(dump, o)
    BY <1>1 DEF Geometry
  <2>2. /\ MayBe(dump, "tl-x", g.originX) /\ MayBe(dump, "tl-y", g.originY)
        /\ MayBe(dump, "br-x", g.width) /\ MayBe(dump, "br-y", g.height)
    BY <2>1, CornersMayBe
  <2>3. /\ Legal(dump, Pair("tl-x", g.originX, "tl-y", g.originY))
        /\ Legal(dump, Pair("br-x", g.width, "br-y", g.height))
    BY <2>2, LegalPair
  <2> QED
    BY <1>1, <2>3, GeometryIsPairs, LegalJoin
<1>2. CASE m.geometryKind # "corners"
  <2>1. g = MillimetreGeometry(dump, o) \/ g = PixelGeometry(dump, o)
    BY <1>2 DEF Geometry, GeometryKind
  <2>2. /\ MayBe(dump, "l", g.originX) /\ MayBe(dump, "t", g.originY)
        /\ MayBe(dump, "x", g.width) /\ MayBe(dump, "y", g.height)
    BY <2>1, MillimetresMayBe, PixelsMayBe
  <2>3. /\ Legal(dump, Pair("l", g.originX, "t", g.originY))
        /\ Legal(dump, Pair("x", g.width, "y", g.height))
    BY <2>2, LegalPair
  <2> QED
    BY <1>2, <2>3, GeometryIsPairs, LegalJoin
<1> QED
  BY <1>1, <1>2

-----------------------------------------------------------------------------
(***************************************************************************)
(* Every argument of a request that validateExactOptions lets pass.        *)
(***************************************************************************)
LEMMA FocusLegal ==
  ASSUME NEW dump, Parsed(dump), NEW o, NEW film
  PROVE  Legal(dump, FocusArguments(o, ResolveMedia(dump, o, film)))
<1> DEFINE m == ResolveMedia(dump, o, film)
           off == IF "autofocus" \in m.options THEN Arg("autofocus", Some(FALSE)) ELSE <<>>
<1>1. "autofocus" \in m.options =>
        MayBe(dump, "autofocus", Some(TRUE)) /\ MayBe(dump, "autofocus", Some(FALSE))
  <2>1. "autofocus" \in m.options => IsActive(dump, "autofocus")
    BY MediaOptionsActive
  <2> QED
    BY <2>1, UnboundedIsLegal DEF MayBe, Switches
<1>2. "autofocus" \in m.options => Legal(dump, Arg("autofocus", Some(TRUE)))
  BY <1>1, LegalArg
<1>3. Legal(dump, off)
  BY <1>1, LegalArg, LegalNothing
<1>4. m.focus # None => MayBe(dump, "focus", o.focus)
  BY MediaFields DEF MayBe, NumericRange
<1>5. m.focus # None => Legal(dump, Arg("focus", o.focus) ++ off)
  <2> HIDE DEF off
  <2>1. m.focus # None => Legal(dump, Arg("focus", o.focus))
    BY <1>4, LegalArg
  <2> QED
    BY <1>3, <2>1, LegalJoin
<1>6. \/ FocusArguments(o, m) = <<>>
      \/ "autofocus" \in m.options /\ FocusArguments(o, m) = Arg("autofocus", Some(TRUE))
      \/ m.focus # None /\ FocusArguments(o, m) = Arg("focus", o.focus) ++ off
  BY DEF FocusArguments
<1> HIDE DEF m, off
<1> QED
  BY <1>2, <1>5, <1>6, LegalNothing DEF m

\* What MainArguments may name, part by part.
Given(m, name, optional) == IF name \in m.options THEN Arg(name, optional) ELSE <<>>

LEMMA MainIsParts ==
  ASSUME NEW o, NEW m
  PROVE  MainArguments(o, m) =
           (IF o.backend = "pieusb" THEN Given(m, "advance", Some({"no"})) ELSE <<>>)
           ++ Given(m, "color-correction", m.colorCorrection)
           ++ (IF m.filmTypeOption = None THEN <<>> ELSE Arg(The(m.filmTypeOption), m.filmType))
           ++ Given(m, "brightness", o.brightness)
           ++ Given(m, "contrast", o.contrast)
           ++ Given(m, "scan-exposure-time", o.exposure)
           ++ (IF o.dpi = 0 THEN Given(m, "preview", Some(TRUE)) ELSE <<>>)
BY DEF MainArguments, Given

LEMMA LegalGiven ==
  ASSUME NEW dump, NEW m, NEW name, NEW optional,
         name \in m.options => MayBe(dump, name, optional)
  PROVE  Legal(dump, Given(m, name, optional))
BY LegalArg, LegalNothing DEF Given

LEMMA ToneMayBe ==
  ASSUME NEW dump, Parsed(dump), NEW name \in {"brightness", "contrast"}, IsActive(dump, name),
         NEW value, AdjustmentIsExact(value, NumericRange(dump, name))
  PROVE  MayBe(dump, name, value)
<1> SUFFICES ASSUME value # None PROVE LegalValue(dump, name, The(value))
  BY DEF MayBe
<1>1. CASE NumericRange(dump, name) = None
  BY <1>1, UnboundedIsLegal
<1>2. CASE InRange(NumericRange(dump, name), The(value))
  BY <1>2, BoundedIsLegal
<1> QED
  BY <1>1, <1>2 DEF AdjustmentIsExact

LEMMA MainLegal ==
  ASSUME NEW dump, Parsed(dump), NEW o, NEW film, ValidateExactOptions(o, ResolveMedia(dump, o, film))
  PROVE  Legal(dump, MainArguments(o, ResolveMedia(dump, o, film)))
<1> DEFINE m == ResolveMedia(dump, o, film)
           advance == IF o.backend = "pieusb" THEN Given(m, "advance", Some({"no"})) ELSE <<>>
           filmType == IF m.filmTypeOption = None THEN <<>> ELSE Arg(The(m.filmTypeOption), m.filmType)
           preview == IF o.dpi = 0 THEN Given(m, "preview", Some(TRUE)) ELSE <<>>
<1>1. Legal(dump, advance)
  <2>1. "advance" \in m.options => MayBe(dump, "advance", Some({"no"}))
    BY MediaOptionsActive, UnboundedIsLegal DEF MayBe, Switches
  <2> QED
    BY <2>1, LegalGiven, LegalNothing
<1>2. Legal(dump, Given(m, "color-correction", m.colorCorrection))
  <2>1. \/ m.colorCorrection = None
        \/ IsActive(dump, "color-correction") /\ m.colorCorrection = EpsonRawColorCorrection(dump)
    BY MediaFields
  <2>2. MayBe(dump, "color-correction", m.colorCorrection)
    BY <2>1, EpsonListed, ConstraintMayBe DEF MayBe
  <2> QED
    BY <2>2, LegalGiven
<1>3. Legal(dump, filmType)
  BY MediaFields, FilmTypeMayBe, LegalArg, LegalNothing
<1>4. Legal(dump, Given(m, "brightness", o.brightness))
  <2>1. "brightness" \in m.options =>
          IsActive(dump, "brightness") /\ AdjustmentIsExact(o.brightness, NumericRange(dump, "brightness"))
    BY MediaFields, MediaOptionsActive DEF ValidateExactOptions
  <2> QED
    BY <2>1, ToneMayBe, LegalGiven
<1>5. Legal(dump, Given(m, "contrast", o.contrast))
  <2>1. "contrast" \in m.options =>
          IsActive(dump, "contrast") /\ AdjustmentIsExact(o.contrast, NumericRange(dump, "contrast"))
    BY MediaFields, MediaOptionsActive DEF ValidateExactOptions
  <2> QED
    BY <2>1, ToneMayBe, LegalGiven
<1>6. Legal(dump, Given(m, "scan-exposure-time", o.exposure))
  <2>1. o.exposure # None => InRange(NumericRange(dump, "scan-exposure-time"), The(o.exposure))
    BY MediaFields DEF ValidateExactOptions, ExposureIsExact
  <2>2. MayBe(dump, "scan-exposure-time", o.exposure)
    BY <2>1, BoundedIsLegal DEF MayBe
  <2> QED
    BY <2>2, LegalGiven
<1>7. Legal(dump, preview)
  <2>1. "preview" \in m.options => MayBe(dump, "preview", Some(TRUE))
    BY MediaOptionsActive, UnboundedIsLegal DEF MayBe, Switches
  <2> QED
    BY <2>1, LegalGiven, LegalNothing
<1>8. MainArguments(o, m) =
        advance ++ Given(m, "color-correction", m.colorCorrection) ++ filmType
        ++ Given(m, "brightness", o.brightness) ++ Given(m, "contrast", o.contrast)
        ++ Given(m, "scan-exposure-time", o.exposure) ++ preview
  BY MainIsParts
<1> HIDE DEF m, advance, filmType, preview
<1> QED
  BY <1>1, <1>2, <1>3, <1>4, <1>5, <1>6, <1>7, <1>8, LegalJoin DEF m

\* Neither pass names an inactive option or a value the device does not list.
LEMMA ArgumentsLegal ==
  ASSUME NEW dump, Parsed(dump), NEW o, NEW film, NEW pass,
         ValidateExactOptions(o, ResolveMedia(dump, o, film))
  PROVE  Legal(dump, MakeScanimageArgs(o, ResolveMedia(dump, o, film), pass))
<1> DEFINE m == ResolveMedia(dump, o, film)
           ir == pass = "infrared"
           source == IF ir /\ m.infrared.kind = "source" THEN Some(m.infrared.value) ELSE m.source
           mode == IF ir /\ m.infrared.kind = "source" THEN OrElse(m.irPassMode, m.mode)
                   ELSE IF ir /\ m.infrared.kind = "mode" THEN Some(m.infrared.value)
                   ELSE m.mode
           main == IF ir THEN <<>> ELSE MainArguments(o, m)
<1>1. Legal(dump, Arg("source", source))
  <2>1. From(source, ToSet(EnumValues(dump, "source")))
    BY MediaFields, SourceListed, InfraredListed DEF From
  <2> QED
    BY <2>1, FromMayBe, LegalArg
<1>2. Legal(dump, Arg("mode", mode))
  <2> DEFINE modes == ToSet(EnumValues(dump, "mode"))
  <2>1. From(m.mode, modes) /\ From(m.irPassMode, modes)
    BY MediaFields, ModeListed
  <2>2. From(OrElse(m.irPassMode, m.mode), modes)
    BY <2>1, OrElseFrom
  <2>3. m.infrared.kind = "mode" => From(Some(m.infrared.value), modes)
    BY MediaFields, InfraredListed DEF From
  <2>4. From(mode, modes)
    BY <2>1, <2>2, <2>3
  <2> QED
    BY <2>4, FromMayBe, LegalArg
<1>3. Legal(dump, Arg("gamma-correction", m.gammaCorrection))
  <2>1. \/ m.gammaCorrection = None
        \/ IsActive(dump, "gamma-correction") /\ m.gammaCorrection = EpsonRawGammaCorrection(dump)
    BY MediaFields
  <2>2. MayBe(dump, "gamma-correction", m.gammaCorrection)
    BY <2>1, EpsonListed, ConstraintMayBe DEF MayBe
  <2> QED
    BY <2>2, LegalArg
<1>4. Legal(dump, FocusArguments(o, m)) /\ Legal(dump, main)
  BY FocusLegal, MainLegal, LegalNothing
<1>5. Legal(dump, Arg("resolution", m.dpi))
  BY MediaFields, ResolutionMayBe, LegalArg
<1>6. Legal(dump, Arg("depth", m.depth))
  <2>1. From(m.depth, ToSet(IntTokens(dump, "depth")))
    BY MediaFields, DepthMayBe
  <2>2. MayBe(dump, "depth", m.depth)
    BY <2>1, CountedIsLegal, OptionalValue DEF MayBe, From
  <2> QED
    BY <2>2, LegalArg
<1>7. Legal(dump, GeometryArguments(m))
  BY MediaFields, GeometryLegal
<1>8. MakeScanimageArgs(o, m, pass) =
        Arg("source", source) ++ Arg("mode", mode) ++ Arg("gamma-correction", m.gammaCorrection)
        ++ FocusArguments(o, m) ++ main ++ Arg("resolution", m.dpi) ++ Arg("depth", m.depth)
        ++ GeometryArguments(m)
  BY DEF MakeScanimageArgs
<1> HIDE DEF m, source, mode, main
<1> QED
  BY <1>1, <1>2, <1>3, <1>4, <1>5, <1>6, <1>7, <1>8, LegalJoin DEF m

-----------------------------------------------------------------------------
(***************************************************************************)
(* The invariant: what every stage of a command rests on.                  *)
(***************************************************************************)
\* A document is under way from its reading on, and the other two kinds of run do not step.
DocumentScope ==
  /\ stage \in {"described", "spelled", "read", "decoded", "valid", "scanning", "refused"}
  /\ stage \notin {"described", "spelled"} => doc \in Documents
  /\ stage = "described" => device \in Devices
  /\ stage = "spelled" => text \in Texts

\* A request that was let through was decoded, and is valid by itself.
CheckedScope ==
  /\ stage \in {"decoded", "valid", "scanning"} => ParseScanRequest(doc)
  /\ stage \in {"valid", "scanning"} => ValidateScanRequest(doc)

\* A scan is what one device does exactly, and both command lines are written for it.
ScanScope ==
  stage = "scanning" =>
    LET o == Options(doc)
        m == Media(device, o)
    IN /\ device \in Devices
       /\ ValidateExactOptions(o, m)
       /\ args = [main |-> MakeScanimageArgs(o, m, "main"),
                  infrared |-> MakeScanimageArgs(o, m, "infrared")]

\* A refusal names the request as far as it could be read.
ReplyScope ==
  stage = "refused" =>
    LET envelope == ParseEnvelope(doc)
        known == (\E node \in ToSet(envelope.version) : node.value = 2) /\ envelope.id # None
    IN IF ParseScanRequest(doc) THEN reply = [channel |-> "stdout", id |-> RequestID]
       ELSE known => reply = [channel |-> "stdout", id |-> Some(The(envelope.id).value)]

RequestInvariant == DocumentScope /\ CheckedScope /\ ScanScope /\ ReplyScope

LEMMA InitInvariant == Init => RequestInvariant
BY DEF Init, RequestInvariant, DocumentScope, CheckedScope, ScanScope, ReplyScope

LEMMA ParseInvariant == RequestInvariant /\ ParseRequest => RequestInvariant'
<1> SUFFICES ASSUME RequestInvariant, ParseRequest PROVE RequestInvariant'
  OBVIOUS
<1>1. stage = "read" /\ doc' = doc /\ doc \in Documents
  BY DEF RequestInvariant, DocumentScope, ParseRequest, Refuse
<1>2. CASE ParseScanRequest(doc)
  <2>1. stage' = "decoded"
    BY <1>2 DEF ParseRequest
  <2> QED
    BY <1>1, <1>2, <2>1 DEF RequestInvariant, DocumentScope, CheckedScope, ScanScope, ReplyScope
<1>3. CASE ~ParseScanRequest(doc)
  <2> DEFINE envelope == ParseEnvelope(doc)
             known == (\E node \in ToSet(envelope.version) : node.value = 2) /\ envelope.id # None
  <2>1. /\ stage' = "refused"
        /\ known => reply' = [channel |-> "stdout", id |-> Some(The(envelope.id).value)]
    BY <1>3 DEF ParseRequest, Refuse
  <2> QED
    BY <1>1, <1>3, <2>1 DEF RequestInvariant, DocumentScope, CheckedScope, ScanScope, ReplyScope
<1> QED
  BY <1>2, <1>3

LEMMA ValidateInvariant == RequestInvariant /\ ValidateRequest => RequestInvariant'
<1> SUFFICES ASSUME RequestInvariant, ValidateRequest PROVE RequestInvariant'
  OBVIOUS
<1>1. stage = "decoded" /\ doc' = doc /\ doc \in Documents /\ ParseScanRequest(doc)
  BY DEF RequestInvariant, DocumentScope, CheckedScope, ValidateRequest, Refuse
<1>2. CASE ValidateScanRequest(doc)
  <2>1. stage' = "valid"
    BY <1>2 DEF ValidateRequest
  <2> QED
    BY <1>1, <1>2, <2>1 DEF RequestInvariant, DocumentScope, CheckedScope, ScanScope, ReplyScope
<1>3. CASE ~ValidateScanRequest(doc)
  <2>1. stage' = "refused" /\ reply' = [channel |-> "stdout", id |-> RequestID]
    BY <1>3 DEF ValidateRequest, Refuse
  <2> QED
    BY <1>1, <2>1 DEF RequestInvariant, DocumentScope, CheckedScope, ScanScope, ReplyScope, RequestID
<1> QED
  BY <1>2, <1>3

LEMMA ResolveInvariant == RequestInvariant /\ ResolveRequest => RequestInvariant'
<1> SUFFICES ASSUME RequestInvariant, ResolveRequest PROVE RequestInvariant'
  OBVIOUS
<1>1. /\ stage = "valid" /\ doc' = doc /\ doc \in Documents
      /\ ParseScanRequest(doc) /\ ValidateScanRequest(doc)
  BY DEF RequestInvariant, DocumentScope, CheckedScope, ResolveRequest, Refuse
<1> DEFINE o == Options(doc)
<1>2. PICK d \in Devices :
        IF TokenIsUsable(o) /\ ValidateExactOptions(o, Media(d, o))
          THEN /\ stage' = "scanning" /\ device' = d
               /\ args' = [main |-> MakeScanimageArgs(o, Media(d, o), "main"),
                           infrared |-> MakeScanimageArgs(o, Media(d, o), "infrared")]
          ELSE stage' = "refused" /\ reply' = [channel |-> "stdout", id |-> RequestID]
  BY DEF ResolveRequest, Refuse
<1>3. CASE TokenIsUsable(o) /\ ValidateExactOptions(o, Media(d, o))
  <2>1. /\ stage' = "scanning" /\ device' = d
        /\ args' = [main |-> MakeScanimageArgs(o, Media(d, o), "main"),
                    infrared |-> MakeScanimageArgs(o, Media(d, o), "infrared")]
    BY <1>2, <1>3
  <2>2. ScanScope'
    BY <1>1, <1>3, <2>1 DEF ScanScope
  <2> QED
    BY <1>1, <2>1, <2>2 DEF RequestInvariant, DocumentScope, CheckedScope, ReplyScope
<1>4. CASE ~(TokenIsUsable(o) /\ ValidateExactOptions(o, Media(d, o)))
  <2>1. stage' = "refused" /\ reply' = [channel |-> "stdout", id |-> RequestID]
    BY <1>2, <1>4
  <2> QED
    BY <1>1, <2>1 DEF RequestInvariant, DocumentScope, CheckedScope, ScanScope, ReplyScope, RequestID
<1> QED
  BY <1>3, <1>4

\* Every command keeps what its stage rests on: a scan under way was decoded, is valid and is
\* what its device does exactly; a refusal carries what could be read of the request.
THEOREM RequestInvariantHolds == Spec => []RequestInvariant
<1>1. RequestInvariant /\ [Next]_vars => RequestInvariant'
  <2> SUFFICES ASSUME RequestInvariant, [Next]_vars PROVE RequestInvariant'
    OBVIOUS
  <2>1. CASE ParseRequest
    BY <2>1, ParseInvariant
  <2>2. CASE ValidateRequest
    BY <2>2, ValidateInvariant
  <2>3. CASE ResolveRequest
    BY <2>3, ResolveInvariant
  <2>4. CASE UNCHANGED vars
    BY <2>4 DEF vars, RequestInvariant, DocumentScope, CheckedScope, ScanScope, ReplyScope, RequestID
  <2> QED
    BY <2>1, <2>2, <2>3, <2>4 DEF Next
<1> QED
  BY <1>1, InitInvariant, PTL DEF Spec

-----------------------------------------------------------------------------
(***************************************************************************)
(* Legal arguments.                                                        *)
(***************************************************************************)
\* A request whose mode and depth are of the protocol.
Asks(o) == o.colorMode \in {"color", "gray"} /\ o.bitDepth \in {8, 16}

\* Whatever dump a scan goes by, the device showed it.
LEMMA ScanDumpParsed ==
  ASSUME NEW d \in Devices, NEW o, Asks(o)
  PROVE  Parsed(ScanDump(d, o)) /\ Parsed(SettledDump(d)) /\ Parsed(ScanSpecificDump(d, o))
<1>1. \A dump \in DumpsOf(d) : Parsed(dump)
  BY DevicesAreParsed, DriversShowRanges DEF Parsed
<1>2. SettingsOf(SettledDump(d), o) \in ScanSettings
  BY DEF SettingsOf, ScanSettings, Asks
<1>3. SettledDump(d) \in DumpsOf(d) /\ ScanSpecificDump(d, o) \in DumpsOf(d)
  BY <1>2 DEF SettledDump, ScanSpecificDump, DumpsOf
<1>4. ScanDump(d, o) \in {SettledDump(d), ScanSpecificDump(d, o)}
  BY DEF ScanDump
<1> QED
  BY <1>1, <1>3, <1>4

\* A dump whose mode is the mode of the request is what the scan would read.
LEMMA VouchedIsShown ==
  ASSUME NEW d \in Devices, NEW o, Asks(o), TokenVouches(d, o.colorMode)
  PROVE  ScanSpecificDump(d, o) = SettledDump(d)
<1> DEFINE dump == SettledDump(d)
           values == EnumValues(dump, "mode")
           settings == SettingsOf(dump, o)
<1>1. Parsed(dump)
  BY ScanDumpParsed
<1>2. values \in Seq(Values)
  BY <1>1, ListsAreSequences
<1>3. DOMAIN values \subseteq Nat
  BY <1>2
<1>4. settings \in ScanSettings
  BY DEF SettingsOf, ScanSettings, Asks
<1>5. settings.mode = IF PickModeValue(values, o.colorMode) = None THEN None ELSE Some(o.colorMode)
  BY DEF SettingsOf
<1>6. ValidatedColorMode(dump, d.typeIsFilm, d.backend) = Some(o.colorMode)
  BY DEF TokenVouches
<1> HIDE DEF dump, settings
<1>7. CASE IsActive(dump, "mode")
  <2> DEFINE selected == SelectedEnumValue(dump, "mode")
             places == {i \in DOMAIN values : Some(values[i]) = Value(dump, "mode").selected}
  <2>1. selected = FirstAt(values, places)
    BY DEF SelectedEnumValue
  <2>2. selected # None /\ Says(o.colorMode, The(selected))
    <3> HIDE DEF selected
    <3>1. ValidatedColorMode(dump, d.typeIsFilm, d.backend) =
            IF selected # None
              THEN IF Says("color", The(selected)) THEN Some("color")
                   ELSE IF Says("gray", The(selected)) THEN Some("gray") ELSE None
              ELSE None
      BY <1>7 DEF ValidatedColorMode, selected
    <3> QED
      BY <1>6, <3>1, OptionalValue
  <2>3. PICK i \in places : selected = Some(values[i])
    <3> HIDE DEF values, selected
    <3>1. places \subseteq Nat
      BY <1>3
    <3> HIDE DEF places
    <3> QED
      BY <2>1, <2>2, <3>1, FirstAtPlace
  <2>4. values[i] \in ToSet(values) /\ Says(o.colorMode, values[i])
    BY <2>2, <2>3, OptionalValue DEF ToSet
  <2>5. PickModeValue(values, o.colorMode) # None
    <3> HIDE DEF values
    <3> QED
      BY <1>3, <2>4, SayingFound, OptionalValue DEF PickModeValue
  <2>6. settings.mode = Some(o.colorMode)
    BY <1>5, <2>5
  <2> QED
    BY <1>4, <1>7, <2>6, DriversShowByMode DEF ShowsByMode, ScanSpecificDump, Asks, dump, settings
<1>8. CASE ~IsActive(dump, "mode")
  <2>1. values = <<>>
    BY <1>8 DEF EnumValues
  <2>2. PickModeValue(values, o.colorMode) = None
    BY <2>1, SayingFound, OptionalValue DEF PickModeValue, ToSet
  <2>3. settings.mode = None
    BY <1>5, <2>2
  <2> QED
    BY <1>4, <1>8, <2>3, DriversShowByMode DEF ShowsByMode, ScanSpecificDump, Asks, dump, settings
<1> QED
  BY <1>7, <1>8

\* What a scan goes by is what the scanner shows under its settings, but for the one dump that
\* is reused in another mode.
LEMMA ScanDumpIsShown ==
  ASSUME NEW d \in Devices, NEW o, Asks(o), ~ReusedInAnotherMode(d, o)
  PROVE  ScanDump(d, o) = ScanSpecificDump(d, o)
<1>1. ReusesDump(d, o) => TokenVouches(d, o.colorMode)
  BY DEF ReusedInAnotherMode, ReusesDump
<1> QED
  BY <1>1, VouchedIsShown DEF ScanDump

\* A request that was let through asks for a mode and a depth of the protocol.
LEMMA CheckedAsks == RequestInvariant /\ stage = "scanning" => Asks(Options(doc))
BY DEF RequestInvariant, CheckedScope, ValidateScanRequest, OptionsAreSound, Asks

LEMMA ScanIsLegal == RequestInvariant => ArgumentsAreLegal
<1> SUFFICES ASSUME RequestInvariant, stage = "scanning", ~ReusedInAnotherMode(device, Options(doc))
             PROVE  ArgumentsAreLegal
  BY DEF ArgumentsAreLegal
<1> DEFINE o == Options(doc)
           dump == ScanDump(device, o)
           m == Media(device, o)
<1>1. /\ device \in Devices /\ ValidateExactOptions(o, m)
      /\ args = [main |-> MakeScanimageArgs(o, m, "main"),
                 infrared |-> MakeScanimageArgs(o, m, "infrared")]
  BY DEF RequestInvariant, ScanScope
<1>2. Parsed(dump) /\ dump = ScanSpecificDump(device, o)
  BY <1>1, CheckedAsks, ScanDumpParsed, ScanDumpIsShown
<1>3. m = ResolveMedia(dump, o, device.typeIsFilm)
  BY DEF Media
<1> HIDE DEF o, dump, m
<1>4. \A pass \in {"main", "infrared"} : Legal(dump, args[pass])
  BY <1>1, <1>2, <1>3, ArgumentsLegal
<1>5. \A pass \in {"main", "infrared"} : \A name \in DOMAIN args[pass] :
        IsActive(dump, name) /\ (name \notin {"focus"} => LegalValue(dump, name, args[pass][name]))
  BY <1>4, OptionalValue DEF Legal, MayBe
<1> QED
  BY <1>2, <1>5 DEF ArgumentsAreLegal, o

\* Whatever the scanner shows and the host asks, with a token or without one, scanimage is never
\* given an option that is not active, or a value that is not listed, under the settings of the
\* scan (args.h:7, validate.h:7).  A dump reused in another mode without a token is excepted
\* (backend.cpp:757), and of the drivers it takes what DriversShowByMode says.
THEOREM ArgumentsLegalAlways == Spec => []ArgumentsAreLegal
BY RequestInvariantHolds, ScanIsLegal, PTL

-----------------------------------------------------------------------------
(***************************************************************************)
(* Answers.                                                                *)
(***************************************************************************)
\* A member is found or it is not.
LEMMA MemberFound ==
  ASSUME NEW members, DOMAIN members \subseteq Nat, NEW key
  PROVE  \/ FindMember(members, key) = None
         \/ \E i \in DOMAIN members : FindMember(members, key) = Some(members[i].node)
<1> DEFINE places == {i \in DOMAIN members : members[i].key = key}
           found == FirstAt(members, places)
<1>1. FindMember(members, key) = IF found = None THEN None ELSE Some(The(found).node)
  BY DEF FindMember
<1>2. found = None \/ \E i \in DOMAIN members : found = Some(members[i])
  <2>1. places \subseteq Nat /\ places \subseteq DOMAIN members
    OBVIOUS
  <2> HIDE DEF places
  <2> QED
    BY <2>1, FirstAtPlace
<1> HIDE DEF found
<1>3. CASE found = None
  BY <1>1, <1>3
<1>4. ASSUME NEW i \in DOMAIN members, found = Some(members[i])
      PROVE  FindMember(members, key) = Some(members[i].node)
  <2>1. found # None /\ The(found) = members[i]
    BY <1>4, OptionalValue
  <2> QED
    BY <1>1, <2>1
<1> QED
  BY <1>2, <1>3, <1>4

\* What the envelope reads is what the members say, as far as the two fields are well formed.
LEMMA EnvelopeRead ==
  ASSUME NEW d, DOMAIN d.members \subseteq Nat, Tokenize(d),
         NEW version, FindMember(d.members, "protocolVersion") = Some(version), Fits("int32", version),
         NEW id, FindMember(d.members, "requestID") = Some(id), Fits("uuid", id)
  PROVE  ParseEnvelope(d).version = Some(version) /\ ParseEnvelope(d).id = Some(id)
<1>1. version.kind # "null" /\ id.kind # "null"
  BY DEF Fits
<1>2. /\ OptionalMember(d.members, "protocolVersion") = Some(version)
      /\ OptionalMember(d.members, "requestID") = Some(id)
  BY <1>1, OptionalValue DEF OptionalMember
<1>3. \A key \in DOMAIN EnvelopeFields : \A node \in ToSet(OptionalMember(d.members, key)) :
        Fits(EnvelopeFields[key], node)
  <2>1. /\ DOMAIN EnvelopeFields = {"protocolVersion", "requestID"}
        /\ EnvelopeFields["protocolVersion"] = "int32" /\ EnvelopeFields["requestID"] = "uuid"
    BY DEF EnvelopeFields
  <2> QED
    BY <1>2, <2>1, OptionalValue
<1>4. Decodes(d.members, <<>>, EnvelopeFields)
  BY <1>3, NothingGiven DEF Decodes
<1> QED
  BY <1>2, <1>4 DEF ParseEnvelope

LEMMA RefusalIsAnswered == RequestInvariant => AnswersUnderItsId
<1> SUFFICES ASSUME RequestInvariant, stage = "refused", Tokenize(doc),
                    NEW version \in ToSet(FindMember(doc.members, "protocolVersion")),
                    NEW id \in ToSet(FindMember(doc.members, "requestID")),
                    Fits("int32", version), version.value = 2, Fits("uuid", id)
             PROVE  reply = [channel |-> "stdout", id |-> Some(id.value)]
  BY DEF AnswersUnderItsId
<1>1. DOMAIN doc.members \subseteq Nat
  BY DocumentsAreRead DEF RequestInvariant, DocumentScope, NumbersAreWhole
<1>2. /\ FindMember(doc.members, "protocolVersion") = Some(version)
      /\ FindMember(doc.members, "requestID") = Some(id)
  BY <1>1, MemberFound, OptionalValue
<1>3. CASE ParseScanRequest(doc)
  <2>1. reply = [channel |-> "stdout", id |-> RequestID]
    BY <1>3 DEF RequestInvariant, ReplyScope
  <2> QED
    BY <1>2, <2>1, OptionalValue DEF RequestID, Member
<1>4. CASE ~ParseScanRequest(doc)
  <2>1. ParseEnvelope(doc).version = Some(version) /\ ParseEnvelope(doc).id = Some(id)
    BY <1>1, <1>2, EnvelopeRead
  <2>2. /\ \E node \in ToSet(ParseEnvelope(doc).version) : node.value = 2
        /\ ParseEnvelope(doc).id # None /\ The(ParseEnvelope(doc).id) = id
    BY <2>1, OptionalValue
  <2> QED
    BY <1>4, <2>2 DEF RequestInvariant, ReplyScope
<1> QED
  BY <1>3, <1>4

\* Whoever writes protocol 2 and a readable id is answered under it, however broken the rest of
\* the document is and whatever the device refuses (main.cpp:284).
THEOREM AnsweredUnderItsId == Spec => []AnswersUnderItsId
BY RequestInvariantHolds, RefusalIsAnswered, PTL

-----------------------------------------------------------------------------
(***************************************************************************)
(* What stands on a command line: the arguments of every part are looked   *)
(* up in the whole.                                                        *)
(***************************************************************************)
IsOptional(v) == v = None \/ \E x : v = Some(x)

\* The value of an option on a command line, if it is named there.
At(a, name) == IF name \in DOMAIN a THEN Some(a[name]) ELSE None

LEMMA AtJoin ==
  ASSUME NEW a, NEW b, NEW name
  PROVE  At(a ++ b, name) = IF name \in DOMAIN a THEN At(a, name) ELSE At(b, name)
BY DEF At, ++

LEMMA AtArg ==
  ASSUME NEW n, NEW optional, IsOptional(optional), NEW name
  PROVE  At(Arg(n, optional), name) = IF name = n THEN optional ELSE None
<1>1. CASE optional = None
  BY <1>1 DEF At, Arg
<1>2. ASSUME NEW x, optional = Some(x)
      PROVE  At(Arg(n, optional), name) = IF name = n THEN optional ELSE None
  <2>1. optional # None /\ The(optional) = x
    BY <1>2, OptionalValue
  <2> QED
    BY <1>2, <2>1 DEF At, Arg
<1> QED
  BY <1>1, <1>2 DEF IsOptional

LEMMA AtNothing == \A name : At(<<>>, name) = None
BY NothingGiven DEF At

\* Named means given, and what is given is the value.
LEMMA AtGiven ==
  ASSUME NEW a, NEW name
  PROVE  /\ name \in DOMAIN a <=> At(a, name) # None
         /\ name \in DOMAIN a => a[name] = The(At(a, name))
         /\ \A v : At(a, name) = Some(v) => name \in DOMAIN a /\ a[name] = v
BY OptionalValue DEF At

\* Of two parts that share no option each is found as it is.
LEMMA AtEither ==
  ASSUME NEW a, NEW b, NEW name
  PROVE  /\ At(a, name) = None => At(a ++ b, name) = At(b, name)
         /\ At(a, name) # None => At(a ++ b, name) = At(a, name)
BY AtJoin, AtGiven

LEMMA AtPart ==
  ASSUME NEW m, NEW n, NEW optional, IsOptional(optional), NEW name
  PROVE  At(Given(m, n, optional), name) =
           IF name = n /\ n \in m.options THEN optional ELSE None
BY AtArg, AtNothing DEF Given

LEMMA OptionalForms == IsOptional(None) /\ \A v : IsOptional(Some(v))
BY DEF IsOptional

\* The parts name nothing but their own options.
FilmNames == {"film-type", "type", "negative"}
GeometryNames == {"l", "t", "x", "y", "tl-x", "tl-y", "br-x", "br-y"}
MainNames == {"advance", "color-correction", "brightness", "contrast", "scan-exposure-time", "preview"}
             \cup FilmNames

LEMMA AtFocus ==
  ASSUME NEW o, NEW m, IsOptional(o.focus), NEW name, name \notin {"focus", "autofocus"}
  PROVE  At(FocusArguments(o, m), name) = None
<1> DEFINE off == IF "autofocus" \in m.options THEN Arg("autofocus", Some(FALSE)) ELSE <<>>
<1>1. At(Arg("focus", o.focus), name) = None
  BY AtArg
<1>2. At(Arg("autofocus", Some(TRUE)), name) = None /\ At(Arg("autofocus", Some(FALSE)), name) = None
  <2>1. \A v : At(Arg("autofocus", Some(v)), name) = None
    BY AtArg, OptionalForms
  <2> QED
    BY <2>1
<1>3. At(off, name) = None
  BY <1>2, AtNothing
<1> HIDE DEF off
<1>4. At(Arg("focus", o.focus) ++ off, name) = None
  BY <1>1, <1>3, AtEither
<1>5. \/ FocusArguments(o, m) = Arg("autofocus", Some(TRUE))
      \/ FocusArguments(o, m) = <<>>
      \/ FocusArguments(o, m) = Arg("focus", o.focus) ++ off
  BY DEF FocusArguments, off
<1> QED
  BY <1>2, <1>4, <1>5, AtNothing

LEMMA AtPair ==
  ASSUME NEW a, NEW va, NEW b, NEW vb, IsOptional(va), IsOptional(vb), a # b, NEW name
  PROVE  At(Pair(a, va, b, vb), name) =
           IF va = None \/ vb = None THEN None
           ELSE IF name = a THEN va ELSE IF name = b THEN vb ELSE None
<1>1. /\ At(Arg(a, va), name) = IF name = a THEN va ELSE None
      /\ At(Arg(b, vb), name) = IF name = b THEN vb ELSE None
  BY AtArg
<1> QED
  BY <1>1, AtEither, AtNothing DEF Pair

\* What is optional in the settings of a device.
Settled(m) ==
  /\ IsOptional(m.source) /\ IsOptional(m.mode) /\ IsOptional(m.irPassMode)
  /\ IsOptional(m.gammaCorrection) /\ IsOptional(m.colorCorrection)
  /\ IsOptional(m.dpi) /\ IsOptional(m.depth) /\ IsOptional(m.filmType)
  /\ m.filmTypeOption = None \/ \E name \in FilmNames : m.filmTypeOption = Some(name)
  /\ IsOptional(m.geometry.originX) /\ IsOptional(m.geometry.originY)
  /\ IsOptional(m.geometry.width) /\ IsOptional(m.geometry.height)

\* What is optional in a request.
Asked(o) ==
  IsOptional(o.focus) /\ IsOptional(o.brightness) /\ IsOptional(o.contrast) /\ IsOptional(o.exposure)

LEMMA AtGeometry ==
  ASSUME NEW m, Settled(m), NEW name
  PROVE  LET g == m.geometry
             located == g.originX # None /\ g.originY # None
             sized == g.width # None /\ g.height # None
         IN At(GeometryArguments(m), name) =
              IF m.geometryKind = "corners"
                THEN IF located /\ name = "tl-x" THEN g.originX
                     ELSE IF located /\ name = "tl-y" THEN g.originY
                     ELSE IF sized /\ name = "br-x" THEN g.width
                     ELSE IF sized /\ name = "br-y" THEN g.height
                     ELSE None
                ELSE IF located /\ name = "l" THEN g.originX
                     ELSE IF located /\ name = "t" THEN g.originY
                     ELSE IF sized /\ name = "x" THEN g.width
                     ELSE IF sized /\ name = "y" THEN g.height
                     ELSE None
<1> DEFINE g == m.geometry
           first == IF m.geometryKind = "corners" THEN Pair("tl-x", g.originX, "tl-y", g.originY)
                    ELSE Pair("l", g.originX, "t", g.originY)
           second == IF m.geometryKind = "corners" THEN Pair("br-x", g.width, "br-y", g.height)
                     ELSE Pair("x", g.width, "y", g.height)
<1>1. GeometryArguments(m) = first ++ second
  BY GeometryIsPairs
<1>2. IsOptional(g.originX) /\ IsOptional(g.originY) /\ IsOptional(g.width) /\ IsOptional(g.height)
  BY DEF Settled
<1>3. /\ At(Pair("tl-x", g.originX, "tl-y", g.originY), name) =
           IF g.originX = None \/ g.originY = None THEN None
           ELSE IF name = "tl-x" THEN g.originX ELSE IF name = "tl-y" THEN g.originY ELSE None
      /\ At(Pair("l", g.originX, "t", g.originY), name) =
           IF g.originX = None \/ g.originY = None THEN None
           ELSE IF name = "l" THEN g.originX ELSE IF name = "t" THEN g.originY ELSE None
      /\ At(Pair("br-x", g.width, "br-y", g.height), name) =
           IF g.width = None \/ g.height = None THEN None
           ELSE IF name = "br-x" THEN g.width ELSE IF name = "br-y" THEN g.height ELSE None
      /\ At(Pair("x", g.width, "y", g.height), name) =
           IF g.width = None \/ g.height = None THEN None
           ELSE IF name = "x" THEN g.width ELSE IF name = "y" THEN g.height ELSE None
  <2> HIDE DEF g
  <2> QED
    BY <1>2, AtPair
<1>4. At(first ++ second, name) = IF At(first, name) = None THEN At(second, name) ELSE At(first, name)
  BY AtEither
<1> QED
  BY <1>1, <1>3, <1>4

\* What only the main pass says, option by option.
LEMMA AtMain ==
  ASSUME NEW o, NEW m, Settled(m), Asked(o), NEW name
  PROVE  LET given(n, v) == IF n \in m.options THEN v ELSE None
             value == At(MainArguments(o, m), name)
         IN /\ name \notin MainNames => value = None
            /\ name = "brightness" => value = given("brightness", o.brightness)
            /\ name = "contrast" => value = given("contrast", o.contrast)
            /\ name = "scan-exposure-time" => value = given("scan-exposure-time", o.exposure)
            /\ name = "preview" => value = IF o.dpi = 0 THEN given("preview", Some(TRUE)) ELSE None
            /\ m.filmTypeOption # None /\ name = The(m.filmTypeOption) => value = m.filmType
<1> DEFINE advance == IF o.backend = "pieusb" THEN Given(m, "advance", Some({"no"})) ELSE <<>>
           correction == Given(m, "color-correction", m.colorCorrection)
           filmType == IF m.filmTypeOption = None THEN <<>> ELSE Arg(The(m.filmTypeOption), m.filmType)
           brightness == Given(m, "brightness", o.brightness)
           contrast == Given(m, "contrast", o.contrast)
           exposure == Given(m, "scan-exposure-time", o.exposure)
           preview == IF o.dpi = 0 THEN Given(m, "preview", Some(TRUE)) ELSE <<>>
<1>1. name # "advance" => At(advance, name) = None
  BY AtPart, AtNothing, OptionalForms
<1>2. name # "color-correction" => At(correction, name) = None
  BY AtPart DEF Settled
<1>3. /\ m.filmTypeOption # None =>
           The(m.filmTypeOption) \in FilmNames /\ (name = The(m.filmTypeOption) => At(filmType, name) = m.filmType)
      /\ name \notin FilmNames => At(filmType, name) = None
  <2>1. CASE m.filmTypeOption = None
    BY <2>1, AtNothing
  <2>2. CASE m.filmTypeOption # None
    <3>1. The(m.filmTypeOption) \in FilmNames
      BY <2>2, OptionalValue DEF Settled
    <3>2. At(filmType, name) = IF name = The(m.filmTypeOption) THEN m.filmType ELSE None
      BY <2>2, AtArg DEF Settled
    <3> QED
      BY <3>1, <3>2
  <2> QED
    BY <2>1, <2>2
<1>4. At(brightness, name) = IF name = "brightness" /\ "brightness" \in m.options THEN o.brightness ELSE None
  BY AtPart DEF Asked
<1>5. At(contrast, name) = IF name = "contrast" /\ "contrast" \in m.options THEN o.contrast ELSE None
  BY AtPart DEF Asked
<1>6. At(exposure, name) =
        IF name = "scan-exposure-time" /\ "scan-exposure-time" \in m.options THEN o.exposure ELSE None
  BY AtPart DEF Asked
<1>7. At(preview, name) =
        IF o.dpi = 0 /\ name = "preview" /\ "preview" \in m.options THEN Some(TRUE) ELSE None
  <2>1. At(Given(m, "preview", Some(TRUE)), name) =
          IF name = "preview" /\ "preview" \in m.options THEN Some(TRUE) ELSE None
    <3>1. \A v : At(Given(m, "preview", Some(v)), name) =
            IF name = "preview" /\ "preview" \in m.options THEN Some(v) ELSE None
      BY AtPart, OptionalForms
    <3> QED
      BY <3>1
  <2> QED
    BY <2>1, AtNothing
<1>8. MainArguments(o, m) =
        advance ++ correction ++ filmType ++ brightness ++ contrast ++ exposure ++ preview
  BY MainIsParts
<1> HIDE DEF advance, correction, filmType, brightness, contrast, exposure, preview
<1> DEFINE film == At(filmType, name)
<1>9. At(MainArguments(o, m), name) =
        OrElse(OrElse(OrElse(OrElse(OrElse(OrElse(
          At(advance, name), At(correction, name)), film), At(brightness, name)),
          At(contrast, name)), At(exposure, name)), At(preview, name))
  <2>1. \A a, b : At(a ++ b, name) = OrElse(At(a, name), At(b, name))
    BY AtEither DEF OrElse
  <2> QED
    BY <1>8, <2>1
<1>10. name = The(m.filmTypeOption) /\ m.filmTypeOption # None =>
         name \notin {"advance", "color-correction", "brightness", "contrast", "scan-exposure-time", "preview"}
  BY <1>3 DEF FilmNames
<1> HIDE DEF film
<1>11. name \notin MainNames => At(MainArguments(o, m), name) = None
  BY <1>1, <1>2, <1>3, <1>4, <1>5, <1>6, <1>7, <1>9 DEF OrElse, MainNames, film
<1>12. name \in MainNames \ FilmNames => film = None
  BY <1>3 DEF film
<1>13. name \in {"brightness", "contrast", "scan-exposure-time", "preview"} =>
         name \in MainNames \ FilmNames
  BY DEF MainNames, FilmNames
<1> QED
  BY <1>1, <1>2, <1>3, <1>4, <1>5, <1>6, <1>7, <1>9, <1>10, <1>11, <1>12, <1>13 DEF OrElse, film

\* The whole command line of the main pass, and of the infrared one its source and mode.
LEMMA AtArgs ==
  ASSUME NEW o, NEW m, Settled(m), Asked(o), NEW name, NEW pass
  PROVE  LET ir == pass = "infrared"
             value == At(MakeScanimageArgs(o, m, pass), name)
         IN /\ name = "source" =>
                 value = IF ir /\ m.infrared.kind = "source" THEN Some(m.infrared.value) ELSE m.source
            /\ name = "mode" /\ ~ir => value = m.mode
            /\ name = "mode" /\ ir /\ m.infrared.kind = "mode" => value = Some(m.infrared.value)
            /\ name = "resolution" => value = m.dpi
            /\ name = "depth" => value = m.depth
            /\ name \in GeometryNames => value = At(GeometryArguments(m), name)
            /\ name \in MainNames /\ ~ir => value = At(MainArguments(o, m), name)
<1> DEFINE ir == pass = "infrared"
           source == IF ir /\ m.infrared.kind = "source" THEN Some(m.infrared.value) ELSE m.source
           mode == IF ir /\ m.infrared.kind = "source" THEN OrElse(m.irPassMode, m.mode)
                   ELSE IF ir /\ m.infrared.kind = "mode" THEN Some(m.infrared.value)
                   ELSE m.mode
           main == IF ir THEN <<>> ELSE MainArguments(o, m)
<1>1. At(Arg("source", source), name) = IF name = "source" THEN source ELSE None
  BY AtArg, OptionalForms DEF Settled
<1>2. At(Arg("mode", mode), name) = IF name = "mode" THEN mode ELSE None
  <2>1. IsOptional(mode)
    BY OptionalForms DEF Settled, OrElse
  <2> HIDE DEF mode
  <2> QED
    BY <2>1, AtArg
<1>3. At(Arg("gamma-correction", m.gammaCorrection), name) =
        IF name = "gamma-correction" THEN m.gammaCorrection ELSE None
  BY AtArg DEF Settled
<1>4. name \notin {"focus", "autofocus"} => At(FocusArguments(o, m), name) = None
  BY AtFocus DEF Asked
<1>5. /\ name \notin MainNames => At(main, name) = None
      /\ ~ir => At(main, name) = At(MainArguments(o, m), name)
  BY AtMain, AtNothing
<1>6. At(Arg("resolution", m.dpi), name) = IF name = "resolution" THEN m.dpi ELSE None
  BY AtArg DEF Settled
<1>7. At(Arg("depth", m.depth), name) = IF name = "depth" THEN m.depth ELSE None
  BY AtArg DEF Settled
<1>8. name \notin GeometryNames => At(GeometryArguments(m), name) = None
  BY AtGeometry DEF GeometryNames
<1>9. MakeScanimageArgs(o, m, pass) =
        Arg("source", source) ++ Arg("mode", mode) ++ Arg("gamma-correction", m.gammaCorrection)
        ++ FocusArguments(o, m) ++ main ++ Arg("resolution", m.dpi) ++ Arg("depth", m.depth)
        ++ GeometryArguments(m)
  BY DEF MakeScanimageArgs
<1> HIDE DEF main
<1> DEFINE focus == At(FocusArguments(o, m), name)
           picture == At(main, name)
           area == At(GeometryArguments(m), name)
<1>10. At(MakeScanimageArgs(o, m, pass), name) =
         OrElse(OrElse(OrElse(OrElse(OrElse(OrElse(OrElse(
           At(Arg("source", source), name), At(Arg("mode", mode), name)),
           At(Arg("gamma-correction", m.gammaCorrection), name)), focus), picture),
           At(Arg("resolution", m.dpi), name)), At(Arg("depth", m.depth), name)), area)
  <2>1. \A a, b : At(a ++ b, name) = OrElse(At(a, name), At(b, name))
    BY AtEither DEF OrElse
  <2> HIDE DEF source, mode
  <2> QED
    BY <1>9, <2>1
<1>11. name \in GeometryNames =>
         name \notin MainNames \cup {"source", "mode", "gamma-correction", "focus", "autofocus", "resolution", "depth"}
  BY DEF GeometryNames, MainNames, FilmNames
<1>12. name \in MainNames =>
         name \notin GeometryNames \cup {"source", "mode", "gamma-correction", "focus", "autofocus", "resolution", "depth"}
  BY DEF GeometryNames, MainNames, FilmNames
<1>13. name \in {"source", "mode", "resolution", "depth"} =>
         name \notin GeometryNames \cup MainNames \cup {"gamma-correction", "focus", "autofocus"}
  BY DEF GeometryNames, MainNames, FilmNames
<1> DEFINE value == At(MakeScanimageArgs(o, m, pass), name)
<1>14. name \in GeometryNames => value = area
  BY <1>1, <1>2, <1>3, <1>4, <1>5, <1>6, <1>7, <1>10, <1>11 DEF OrElse
<1>15. name \in MainNames => value = picture
  BY <1>1, <1>2, <1>3, <1>4, <1>6, <1>7, <1>8, <1>10, <1>12 DEF OrElse
<1>16. /\ name = "source" => value = source
       /\ name = "mode" => value = mode
       /\ name = "resolution" => value = m.dpi
       /\ name = "depth" => value = m.depth
  <2> HIDE DEF source, mode
  <2> QED
    BY <1>1, <1>2, <1>3, <1>4, <1>5, <1>6, <1>7, <1>8, <1>10, <1>13 DEF OrElse
<1> QED
  BY <1>5, <1>14, <1>15, <1>16

-----------------------------------------------------------------------------
(***************************************************************************)
(* What a decoded document asks, and what a parsed dump settles.           *)
(***************************************************************************)
LEMMA FieldRead ==
  ASSUME NEW members, NumbersAreWhole(members), NEW key
  PROVE  \/ OptionalMember(members, key) = None
         \/ \E i \in DOMAIN members :
              /\ OptionalMember(members, key) = Some(members[i].node)
              /\ FindMember(members, key) = Some(members[i].node)
              /\ members[i].node.kind = "number" => members[i].node.value \in Int
<1>1. DOMAIN members \subseteq Nat
  BY DEF NumbersAreWhole
<1>2. CASE FindMember(members, key) = None
  BY <1>2 DEF OptionalMember
<1>3. ASSUME NEW i \in DOMAIN members, FindMember(members, key) = Some(members[i].node),
             OptionalMember(members, key) # None
      PROVE  /\ OptionalMember(members, key) = Some(members[i].node)
             /\ members[i].node.kind = "number" => members[i].node.value \in Int
  BY <1>3 DEF OptionalMember, NumbersAreWhole
<1> QED
  BY <1>1, <1>2, <1>3, MemberFound

\* A decoded number is a whole one, given where it is required.
LEMMA NumberRead ==
  ASSUME NEW members, NumbersAreWhole(members), NEW required, NEW optional,
         Decodes(members, required, optional), NEW key
  PROVE  LET node == OptionalMember(members, key)
         IN /\ key \in DOMAIN required /\ required[key] \in {"int32", "double"} =>
                 node # None /\ The(node).value \in Int
            /\ key \in DOMAIN optional /\ optional[key] \in {"int32", "double"} =>
                 node = None \/ The(node).value \in Int
<1> DEFINE node == OptionalMember(members, key)
<1>1. CASE node = None
  <2>1. key \notin DOMAIN required
    BY <1>1, OptionalValue DEF Decodes
  <2> QED
    BY <1>1, <2>1
<1>2. ASSUME NEW i \in DOMAIN members, node = Some(members[i].node),
             members[i].node.kind = "number" => members[i].node.value \in Int
      PROVE  /\ key \in DOMAIN required /\ required[key] \in {"int32", "double"} =>
                  node # None /\ The(node).value \in Int
             /\ key \in DOMAIN optional /\ optional[key] \in {"int32", "double"} =>
                  node = None \/ The(node).value \in Int
  <2>1. node # None /\ The(node) = members[i].node /\ ToSet(node) = {members[i].node}
    BY <1>2, OptionalValue
  <2>2. key \in DOMAIN required => Fits(required[key], members[i].node)
    BY <2>1 DEF Decodes
  <2>3. key \in DOMAIN optional => Fits(optional[key], members[i].node)
    BY <2>1 DEF Decodes
  <2>4. \A type \in {"int32", "double"} : Fits(type, members[i].node) => members[i].node.kind = "number"
    BY DEF Fits
  <2> QED
    BY <1>2, <2>1, <2>2, <2>3, <2>4
<1> QED
  BY <1>1, <1>2, FieldRead

LEMMA RequestRead ==
  ASSUME NEW d \in Documents, ParseScanRequest(d)
  PROVE  LET o == Options(d)
         IN /\ o.dpi \in Int
            /\ o.area.x \in Int /\ o.area.y \in Int /\ o.area.width \in Int /\ o.area.height \in Int
            /\ Asked(o)
<1>1. NumbersAreWhole(d.members) /\ Decodes(d.members, RequiredFields, OptionalFields)
  BY DocumentsAreRead DEF ParseScanRequest
<1>2. Options(d).dpi \in Int
  <2>1. "resolutionDPI" \in DOMAIN RequiredFields /\ RequiredFields["resolutionDPI"] = "int32"
    BY DEF RequiredFields
  <2>2. The(OptionalMember(d.members, "resolutionDPI")).value \in Int
    BY <1>1, <2>1, NumberRead
  <2> QED
    BY <2>2 DEF Options, Value0
<1>3. NumbersAreWhole(AreaMembers(d)) /\ Decodes(AreaMembers(d), AreaRequired, AreaOptional)
  <2>1. PICK node \in ToSet(OptionalMember(d.members, "scanArea")) : Fits("area", node)
    <3>1. "scanArea" \in DOMAIN RequiredFields /\ RequiredFields["scanArea"] = "area"
      BY DEF RequiredFields
    <3> QED
      BY <1>1, <3>1 DEF Decodes
  <2>2. OptionalMember(d.members, "scanArea") # None
    BY <2>1, OptionalValue
  <2>3. PICK i \in DOMAIN d.members :
          /\ OptionalMember(d.members, "scanArea") = Some(d.members[i].node)
          /\ FindMember(d.members, "scanArea") = Some(d.members[i].node)
    BY <1>1, <2>2, FieldRead
  <2>4. node = d.members[i].node /\ AreaMembers(d) = d.members[i].node.parts
    BY <2>1, <2>3, OptionalValue DEF AreaMembers, Member
  <2>5. node.kind = "object"
    BY <2>1 DEF Fits
  <2> QED
    BY <2>4, <2>5, DocumentsAreRead DEF ParseScanRequest
<1>4. \A key \in {"originXMM", "originYMM", "widthMM", "heightMM"} : Millimetres(d, key) \in Int
  <2> SUFFICES ASSUME NEW key \in {"originXMM", "originYMM", "widthMM", "heightMM"},
                      OptionalMember(AreaMembers(d), key) # None
               PROVE  The(OptionalMember(AreaMembers(d), key)).value \in Int
    BY DEF Millimetres
  <2>1. \/ key \in DOMAIN AreaRequired /\ AreaRequired[key] = "double"
        \/ key \in DOMAIN AreaOptional /\ AreaOptional[key] = "double"
    BY DEF AreaRequired, AreaOptional
  <2> QED
    BY <1>3, <2>1, NumberRead
<1>5. \A key : IsOptional(Optional(d, key))
  BY DEF IsOptional, Optional
<1>6. Asked(Options(d))
  BY <1>5 DEF Asked, Options
<1> QED
  BY <1>2, <1>4, <1>6 DEF Options

LEMMA FromIsOptional == \A v, S : From(v, S) => IsOptional(v)
BY DEF From, IsOptional

LEMMA FilmTypeGiven ==
  ASSUME NEW dump, Parsed(dump), NEW o
  PROVE  LET name == FilmTypeOptionName(dump)
             raw == o.backend = "coolscan" /\ name = Some("type")
             polarity == IF raw THEN "positive" ELSE o.film
         IN \/ FilmType(dump, o) = None
            \/ /\ o.backend \in {"coolscan2", "coolscan3"} /\ name = Some("negative")
               /\ FilmType(dump, o) = Some({"no"})
            \/ \E v \in ToSet(EnumValues(dump, The(name))) :
                 FilmType(dump, o) = Some(v) /\ Says(polarity, v)
<1> DEFINE name == FilmTypeOptionName(dump)
           polarity == IF o.backend = "coolscan" /\ name = Some("type") THEN "positive" ELSE o.film
           values == EnumValues(dump, The(name))
           matches == {i \in DOMAIN values : Says(polarity, values[i])}
           plain == {i \in matches : ~Says("slide", values[i])}
           found == OrElse(FirstAt(values, plain), FirstAt(values, matches))
<1>1. values \in Seq(Values)
  BY ListsAreSequences
<1>2. DOMAIN values \subseteq Nat
  BY <1>1
<1>3. matches \subseteq Nat /\ plain \subseteq matches
  BY <1>2
<1>4. \A i \in matches : Says(polarity, values[i]) /\ values[i] \in ToSet(values)
  BY DEF ToSet
<1>5. \/ FilmType(dump, o) = None
      \/ /\ o.backend \in {"coolscan2", "coolscan3"} /\ name = Some("negative")
         /\ FilmType(dump, o) = Some({"no"})
      \/ FilmType(dump, o) = found
  BY DEF FilmType
<1> HIDE DEF values, matches, plain
<1>6. found = None \/ \E v \in ToSet(values) : found = Some(v) /\ Says(polarity, v)
  <2>1. FirstAt(values, plain) = None \/ \E i \in plain : FirstAt(values, plain) = Some(values[i])
    BY <1>3, FirstAtPlace
  <2>2. FirstAt(values, matches) = None \/ \E i \in matches : FirstAt(values, matches) = Some(values[i])
    BY <1>3, FirstAtPlace
  <2> QED
    BY <1>3, <1>4, <2>1, <2>2 DEF OrElse
<1> HIDE DEF found, polarity
<1> QED
  BY <1>5, <1>6 DEF values, polarity

LEMMA GeometrySettled ==
  ASSUME NEW dump, NEW o
  PROVE  LET g == Geometry(dump, o)
         IN IsOptional(g.originX) /\ IsOptional(g.originY) /\ IsOptional(g.width) /\ IsOptional(g.height)
<1> DEFINE Fine(g) == /\ IsOptional(g.originX) /\ IsOptional(g.originY)
                      /\ IsOptional(g.width) /\ IsOptional(g.height)
<1>1. Fine(MillimetreGeometry(dump, o))
  BY DEF MillimetreGeometry, IsOptional
<1>2. Fine(PixelGeometry(dump, o))
  <2>1. \A tenths, dpi, range : IsOptional(PixelGeometryValue(tenths, dpi, range))
    BY DEF PixelGeometryValue, IsOptional
  <2> QED
    BY <2>1, OptionalForms DEF PixelGeometry
<1>3. Fine(CornerGeometry(dump, o))
  <2>1. CASE CornerGeometry(dump, o) = NoGeometry
    BY <2>1, OptionalForms DEF NoGeometry
  <2>2. CASE CornerGeometry(dump, o) # NoGeometry
    BY <2>2, CornersGiven, OptionalForms
  <2> QED
    BY <2>1, <2>2
<1> QED
  BY <1>1, <1>2, <1>3 DEF Geometry

LEMMA MediaSettled ==
  ASSUME NEW dump, Parsed(dump), NEW o, NEW film
  PROVE  Settled(ResolveMedia(dump, o, film))
<1> DEFINE m == ResolveMedia(dump, o, film)
<1>1. IsOptional(m.source) /\ IsOptional(m.mode) /\ IsOptional(m.irPassMode)
  BY MediaFields, SourceListed, ModeListed, FromIsOptional
<1>2. IsOptional(m.gammaCorrection) /\ IsOptional(m.colorCorrection)
  BY MediaFields, EpsonListed, FromIsOptional, OptionalForms
<1>3. IsOptional(m.dpi) /\ IsOptional(m.depth)
  <2>1. IsOptional(ResolvedDPI(dump, o.dpi))
    BY OptionalForms DEF ResolvedDPI
  <2> QED
    BY <2>1, MediaFields, DepthMayBe, FromIsOptional
<1>4. IsOptional(m.filmType)
  BY MediaFields, FilmTypeGiven, OptionalForms
<1>5. m.filmTypeOption = None \/ \E name \in FilmNames : m.filmTypeOption = Some(name)
  BY MediaFields, FilmOptionActive DEF FilmNames
<1>6. /\ IsOptional(m.geometry.originX) /\ IsOptional(m.geometry.originY)
      /\ IsOptional(m.geometry.width) /\ IsOptional(m.geometry.height)
  BY MediaFields, GeometrySettled
<1> HIDE DEF m
<1>7. Settled(m)
  BY <1>1, <1>2, <1>3, <1>4, <1>5, <1>6 DEF Settled
<1> QED
  BY <1>7 DEF m

-----------------------------------------------------------------------------
(***************************************************************************)
(* Numbers: the largest of a list, rounding, and the range of an option.   *)
(***************************************************************************)
\* Were some beginning of a list without a largest number, the shortest one would have it.
LEMMA ListHasLargest ==
  ASSUME NEW s \in Seq(Int), s # <<>>
  PROVE  \E v \in ToSet(s) : v \in Int /\ \A w \in ToSet(s) : w <= v
<1> DEFINE Largest(n, i) == i \in 1 .. n /\ \A j \in 1 .. n : s[j] <= s[i]
           without == {n \in 1 .. Len(s) : ~ \E i \in 1 .. n : Largest(n, i)}
<1>0. Len(s) \in Nat /\ Len(s) > 0 /\ DOMAIN s = 1 .. Len(s) /\ \A i \in 1 .. Len(s) : s[i] \in Int
  OBVIOUS
<1> HIDE DEF Largest
<1>1. without = {}
  <2> SUFFICES ASSUME without # {} PROVE FALSE
    OBVIOUS
  <2>1. without \subseteq Nat
    BY <1>0
  <2>2. PICK n \in without : \A k \in without : n <= k
    BY <2>1, LeastPlace
  <2>3. n \in Nat /\ 1 <= n /\ n <= Len(s) /\ ~ \E i \in 1 .. n : Largest(n, i)
    BY <1>0
  <2> HIDE DEF without
  <2>4. CASE n = 1
    <3>1. Largest(1, 1)
      BY <1>0 DEF Largest
    <3> QED
      BY <2>3, <2>4, <3>1
  <2>5. CASE n # 1
    <3>1. n - 1 \in 1 .. Len(s) /\ n - 1 \notin without
      BY <1>0, <2>2, <2>3, <2>5
    <3>2. PICK i \in 1 .. (n - 1) : Largest(n - 1, i)
      BY <3>1 DEF without
    <3>3. i \in 1 .. n /\ s[i] \in Int /\ s[n] \in Int /\ n \in 1 .. n
      BY <1>0, <2>3, <3>2
    <3>4. \A j \in 1 .. n : s[j] \in Int /\ (j = n \/ j \in 1 .. (n - 1))
      BY <1>0, <2>3
    <3>5. \A j \in 1 .. (n - 1) : s[j] <= s[i]
      BY <3>2 DEF Largest
    <3>6. CASE s[n] <= s[i]
      <4>1. Largest(n, i)
        BY <3>3, <3>4, <3>5, <3>6 DEF Largest
      <4> QED
        BY <2>3, <3>3, <4>1
    <3>7. CASE s[i] <= s[n]
      <4>1. Largest(n, n)
        BY <3>3, <3>4, <3>5, <3>7 DEF Largest
      <4> QED
        BY <2>3, <3>3, <4>1
    <3> QED
      BY <3>3, <3>6, <3>7
  <2> QED
    BY <2>4, <2>5
<1>2. PICK i \in 1 .. Len(s) : Largest(Len(s), i)
  BY <1>0, <1>1
<1>3. /\ i \in DOMAIN s /\ s[i] \in Int /\ \A j \in DOMAIN s : s[j] <= s[i]
  BY <1>0, <1>2 DEF Largest
<1> QED
  BY <1>3 DEF ToSet

\* A length in pixels is at most half a pixel off.
LEMMA PixelsCover ==
  ASSUME NEW tenths \in Int, NEW dpi \in Int
  PROVE  Pixels(tenths, dpi) \in Int /\ Covers(Pixels(tenths, dpi), tenths, dpi)
<1> DEFINE product == tenths * dpi
<1>1. product \in Int /\ 2 * tenths * dpi = 2 * product
  OBVIOUS
<1>2. Pixels(tenths, dpi) = (2 * product + 254) \div 508
  BY <1>1 DEF Pixels
<1> HIDE DEF product
<1>3. LET p == (2 * product + 254) \div 508
      IN p \in Int /\ -127 <= 254 * p - product /\ 254 * p - product <= 127
  BY <1>1
<1> QED
  BY <1>2, <1>3 DEF Covers, product

LEMMA AlignedIsNear ==
  ASSUME NEW y \in Int, NEW height \in Int, NEW range, NEW bottom
  PROVE  LET aligned == Epson2AlignedHeight(y, height, range, bottom)
         IN aligned \in Int /\ aligned - height \in -9 .. 9
<1> DEFINE edge == y + height
           grown == ((edge + 9) \div 10) * 10 - y
           shrunk == (edge \div 10) * 10 - y
<1>1. grown \in Int /\ 0 <= grown - height /\ grown - height <= 9
  OBVIOUS
<1>2. shrunk \in Int /\ -9 <= shrunk - height /\ shrunk - height <= 0
  OBVIOUS
<1>3. Epson2AlignedHeight(y, height, range, bottom) \in {height, grown, shrunk}
  BY DEF Epson2AlignedHeight
<1> HIDE DEF grown, shrunk
<1> QED
  BY <1>1, <1>2, <1>3

LEMMA RangeShown ==
  ASSUME NEW dump, Parsed(dump), NEW name
  PROVE  \/ NumericRange(dump, name) = None
         \/ \E r \in Ranges : \E i \in DOMAIN dump :
              /\ NumericRange(dump, name) = Some(r)
              /\ dump[i].name = name /\ r \in ToSet(dump[i].range)
<1> SUFFICES ASSUME NumericRange(dump, name) # None
             PROVE  \E r \in Ranges : \E i \in DOMAIN dump :
                      /\ NumericRange(dump, name) = Some(r)
                      /\ dump[i].name = name /\ r \in ToSet(dump[i].range)
  OBVIOUS
<1> DEFINE lines == LinesOf(dump, name)
<1>1. NumericRange(dump, name) = Value(dump, name).range /\ IsActive(dump, name)
  BY DEF NumericRange
<1>2. lines # {} /\ lines \subseteq Nat /\ lines \subseteq DOMAIN dump
  BY <1>1 DEF IsActive, LinesOf, Parsed
<1>3. PICK i \in lines : FirstAt(dump, lines) = Some(dump[i])
  BY <1>2, FirstAtPlace
<1>4. Value(dump, name) = dump[i] /\ dump[i].name = name /\ i \in DOMAIN dump
  BY <1>2, <1>3, OptionalValue DEF Value, OrElse, LinesOf
<1>5. dump[i].range \in Seq(Ranges) /\ Len(dump[i].range) <= 1 /\ dump[i].range # <<>>
  BY <1>1, <1>4 DEF Parsed, IsParsed, None
<1> DEFINE range == dump[i].range
<1>6. range = <<range[1]>> /\ range[1] \in Ranges
  <2> HIDE DEF range
  <2>1. Len(range) = 1
    <3>1. range \in Seq(Ranges) /\ Len(range) <= 1 /\ range # <<>>
      BY <1>5 DEF range
    <3>2. Len(range) \in Nat /\ Len(range) # 0
      BY <3>1
    <3>3. \A n \in Nat : n <= 1 /\ n # 0 => n = 1
      OBVIOUS
    <3> QED
      BY <3>1, <3>2, <3>3
  <2> QED
    BY <1>5, <2>1 DEF range
<1>7. range = Some(range[1]) /\ range[1] \in ToSet(range)
  BY <1>6, OptionalValue DEF Some
<1> QED
  BY <1>1, <1>4, <1>6, <1>7

LEMMA RangeMeasured ==
  ASSUME NEW dump, Parsed(dump), NEW name, NEW unit
  PROVE  \/ RangeWithUnit(dump, name, unit) = None
         \/ \E r \in Ranges : \E i \in DOMAIN dump :
              /\ RangeWithUnit(dump, name, unit) = Some(r)
              /\ dump[i].name = name /\ r \in ToSet(dump[i].range)
BY RangeShown DEF RangeWithUnit

LEMMA LargestResolution ==
  ASSUME NEW dump, Parsed(dump), MaximumResolution(dump) # None
  PROVE  The(MaximumResolution(dump)) \in Int
<1> DEFINE spec == ResolutionSpec(dump)
           list == ToSet(IntTokens(dump, "resolution"))
<1>1. CASE NumericRange(dump, "resolution") # None
  <2>1. PICK r \in Ranges : NumericRange(dump, "resolution") = Some(r)
    BY <1>1, RangeShown
  <2>2. MaximumResolution(dump) = Some(r.maximum)
    BY <1>1, <2>1, OptionalValue DEF MaximumResolution, ResolutionSpec
  <2> QED
    BY <2>2, OptionalValue DEF Ranges
<1>2. CASE NumericRange(dump, "resolution") = None
  <2>1. list # {} /\ MaximumResolution(dump) = Some(CHOOSE v \in list : \A w \in list : w <= v)
    BY <1>2 DEF MaximumResolution, ResolutionSpec
  <2>2. IntTokens(dump, "resolution") \in Seq(Int) /\ IntTokens(dump, "resolution") # <<>>
    BY <2>1, ListsAreSequences DEF ToSet
  <2>3. \E v \in list : \A w \in list : w <= v
    BY <2>2, ListHasLargest
  <2>4. list \subseteq Int
    BY <2>2 DEF ToSet
  <2> HIDE DEF list
  <2> QED
    BY <2>1, <2>3, <2>4, OptionalValue
<1> QED
  BY <1>1, <1>2

-----------------------------------------------------------------------------
(***************************************************************************)
(* The area that is sent is the area that was asked.                       *)
(***************************************************************************)
WholeArea(o) ==
  o.area.x \in Int /\ o.area.y \in Int /\ o.area.width \in Int /\ o.area.height \in Int

Sized(g) == g.width # None /\ g.height # None
Located(g) == g.originX # None /\ g.originY # None

\* In millimetres: as asked, the height within the alignment and on the surface.
LEMMA MillimetresSaid ==
  ASSUME NEW dump, Parsed(dump), NEW o, WholeArea(o), NEW film, NEW m,
         m = ResolveMedia(dump, o, film), m.geometryKind = "mm", GeometryIsExact(o, m),
         Sized(m.geometry), \A r \in ToSet(m.top) : 0 <= r.minimum
  PROVE  LET g == m.geometry
         IN /\ g.width = Some(o.area.width)
            /\ \E h \in Int : /\ g.height = Some(h) /\ h - o.area.height \in -9 .. 9
                             /\ \A r \in ToSet(m.top) :
                                  o.area.y + h <= r.minimum + The(m.height).maximum
            /\ IF Located(g) THEN g.originX = Some(o.area.x) /\ g.originY = Some(o.area.y)
               ELSE AtOrigin(o)
<1> DEFINE g == m.geometry
           Extent(name) == RangeWithUnit(dump, name, "mm")
           whole == InRange(Extent("x"), o.area.width) /\ InRange(Extent("y"), o.area.height)
           top == IF Extent("t") = None THEN 0 ELSE The(Extent("t")).minimum
           height == IF whole /\ o.backend = "epson2"
                       THEN Epson2AlignedHeight(o.area.y, o.area.height, The(Extent("y")),
                                                top + The(Extent("y")).maximum)
                       ELSE o.area.height
<1>0. /\ g = MillimetreGeometry(dump, o)
      /\ m.top = Extent("t") /\ m.height = Extent("y") /\ m.left = Extent("l")
  BY MediaFields DEF Geometry
<1>1. /\ g.originX = IF InRange(Extent("l"), o.area.x) THEN Some(o.area.x) ELSE None
      /\ g.originY = IF InRange(Extent("t"), o.area.y) THEN Some(o.area.y) ELSE None
      /\ g.width = IF whole THEN Some(o.area.width) ELSE None
      /\ g.height = IF whole THEN Some(height) ELSE None
      /\ g.aligned = height - o.area.height
  BY <1>0 DEF MillimetreGeometry
<1>2. whole
  BY <1>1 DEF Sized
<1>3. height \in Int /\ height - o.area.height \in -9 .. 9
  <2>1. o.area.height \in Int /\ o.area.height - o.area.height \in -9 .. 9
    BY DEF WholeArea
  <2> QED
    BY <2>1, AlignedIsNear DEF WholeArea
<1>4. InRange(Extent("y"), height)
  BY <1>2, AlignedStaysLegal DEF InRange
<1> HIDE DEF height, whole
<1>5. PICK ry \in Ranges : m.height = Some(ry) /\ height <= ry.maximum
  <2>1. PICK ry \in Ranges : Extent("y") = Some(ry)
    BY <1>4, RangeMeasured DEF InRange
  <2> QED
    BY <1>0, <1>4, <2>1, OptionalValue DEF InRange, ContainsExactly
<1>6. \/ m.top = None
      \/ \E r \in Ranges : m.top = Some(r)
  BY <1>0, RangeMeasured
<1>7. ry.maximum \in Int /\ The(m.height) = ry
  BY <1>5, OptionalValue DEF Ranges
<1>8. o.area.height + g.aligned = height
  BY <1>1, <1>3 DEF WholeArea
<1>9. MillimetresAreExact(o, m) \/ AtOrigin(o)
  BY DEF GeometryIsExact
<1>10. ASSUME NEW r \in ToSet(m.top)
       PROVE  o.area.y + height <= r.minimum + The(m.height).maximum
  <2>1. r \in Ranges /\ m.top = Some(r) /\ r.minimum \in Int
    BY <1>6, OptionalValue DEF Ranges
  <2>2. CASE MillimetresAreExact(o, m)
    <3>1. o.area.y + (o.area.height + g.aligned) <= The(m.top).minimum + The(m.height).maximum
      BY <2>1, <2>2, OptionalValue DEF MillimetresAreExact
    <3> QED
      BY <1>8, <2>1, <3>1, OptionalValue
  <2>3. CASE AtOrigin(o)
    <3>1. o.area.y = 0 /\ 0 <= r.minimum
      BY <2>3 DEF AtOrigin
    <3> QED
      BY <1>3, <1>5, <1>7, <2>1, <3>1
  <2> QED
    BY <1>9, <2>2, <2>3
<1>11. ~Located(g) => AtOrigin(o)
  <2>1. MillimetresAreExact(o, m) => Located(g) \/ AtOrigin(o)
    BY OptionalValue DEF MillimetresAreExact, Located
  <2> QED
    BY <1>9, <2>1
<1>12. Located(g) => g.originX = Some(o.area.x) /\ g.originY = Some(o.area.y)
  BY <1>1 DEF Located
<1> HIDE DEF g
<1>13. /\ g.width = Some(o.area.width) /\ g.height = Some(height)
  BY <1>1, <1>2
<1> QED
  BY <1>3, <1>10, <1>11, <1>12, <1>13 DEF g

\* In pixels at the resolution of the scan: rounded, and placed or at the origin.
LEMMA PixelsSaid ==
  ASSUME NEW dump, NEW o, WholeArea(o), o.dpi \in Int, NEW film, NEW m,
         m = ResolveMedia(dump, o, film), m.geometryKind = "pel", GeometryIsExact(o, m),
         Sized(m.geometry)
  PROVE  LET g == m.geometry
             fits(optional, tenths) ==
               \E p \in Int : optional = Some(p) /\ Covers(p, tenths, o.dpi)
         IN /\ fits(g.width, o.area.width) /\ fits(g.height, o.area.height)
            /\ IF Located(g) THEN fits(g.originX, o.area.x) /\ fits(g.originY, o.area.y)
               ELSE AtOrigin(o)
<1> DEFINE g == m.geometry
           Size(name, tenths) ==
             IF RangeWithUnit(dump, name, "pel") = None THEN None
             ELSE PixelGeometryValue(tenths, o.dpi, The(RangeWithUnit(dump, name, "pel")))
           Fits1(optional, tenths) ==
             \E p \in Int : optional = Some(p) /\ Covers(p, tenths, o.dpi)
<1>1. g = PixelGeometry(dump, o)
  BY MediaFields DEF Geometry
<1>2. /\ g.originX = Size("l", o.area.x) /\ g.originY = Size("t", o.area.y)
      /\ g.width = Size("x", o.area.width) /\ g.height = Size("y", o.area.height)
  BY <1>1 DEF PixelGeometry
<1>3. ASSUME NEW name, NEW tenths \in Int, Size(name, tenths) # None
      PROVE  Fits1(Size(name, tenths), tenths)
  <2>1. Size(name, tenths) = Some(Pixels(tenths, o.dpi))
    BY <1>3, PixelsInRange
  <2> QED
    BY <2>1, PixelsCover
<1>4. Fits1(g.width, o.area.width) /\ Fits1(g.height, o.area.height)
  <2> HIDE DEF Size, Fits1
  <2> QED
    BY <1>2, <1>3 DEF Sized, WholeArea
<1>5. Located(g) => Fits1(g.originX, o.area.x) /\ Fits1(g.originY, o.area.y)
  <2> HIDE DEF Size, Fits1
  <2> QED
    BY <1>2, <1>3 DEF Located, WholeArea
<1>6. Located(g) \/ AtOrigin(o)
  BY DEF GeometryIsExact, Sized, Located
<1> QED
  BY <1>4, <1>5, <1>6

\* As corners, in pixels at the largest resolution: size and place are rounded alike.
LEMMA CornersSaid ==
  ASSUME NEW dump, Parsed(dump), NEW o, WholeArea(o), NEW film, NEW m,
         m = ResolveMedia(dump, o, film), m.geometryKind = "corners", Sized(m.geometry)
  PROVE  LET g == m.geometry
             unit == The(MaximumResolution(dump))
         IN /\ Located(g)
            /\ Covers(The(g.width) - The(g.originX) + 1, o.area.width, unit)
            /\ Covers(The(g.height) - The(g.originY) + 1, o.area.height, unit)
            /\ Covers(The(g.originX), o.area.x, unit) /\ Covers(The(g.originY), o.area.y, unit)
<1> DEFINE g == m.geometry
           unit == The(MaximumResolution(dump))
           left == Pixels(o.area.x, unit)
           top == Pixels(o.area.y, unit)
           width == Pixels(o.area.width, unit)
           height == Pixels(o.area.height, unit)
<1>1. g = CornerGeometry(dump, o) /\ g # NoGeometry
  BY MediaFields DEF Geometry, Sized, NoGeometry
<1>2. /\ MaximumResolution(dump) # None
      /\ g.originX = Some(left) /\ g.originY = Some(top)
      /\ g.width = Some(left + width - 1) /\ g.height = Some(top + height - 1)
  BY <1>1, CornersGiven
<1>3. unit \in Int
  BY <1>2, LargestResolution
<1> HIDE DEF unit
<1>4. /\ left \in Int /\ Covers(left, o.area.x, unit) /\ top \in Int /\ Covers(top, o.area.y, unit)
      /\ width \in Int /\ Covers(width, o.area.width, unit)
      /\ height \in Int /\ Covers(height, o.area.height, unit)
  BY <1>3, PixelsCover DEF WholeArea
<1> HIDE DEF g, left, top, width, height
<1>5. left + width - 1 - left + 1 = width /\ top + height - 1 - top + 1 = height
  BY <1>4
<1>6. /\ The(g.originX) = left /\ The(g.originY) = top
      /\ The(g.width) = left + width - 1 /\ The(g.height) = top + height - 1
      /\ Located(g)
  BY <1>2, OptionalValue DEF Located
<1> QED
  BY <1>4, <1>5, <1>6 DEF g, unit

\* Without a size only a preview of a film scanner is sent, and of its whole surface.
LEMMA UnsizedIsPreview ==
  ASSUME NEW o, NEW m, GeometryIsExact(o, m), ~Sized(m.geometry)
  PROVE  o.dpi = 0 /\ m.dedicated /\ AtOrigin(o)
<1>1. MillimetresAreExact(o, m) => Sized(m.geometry)
  BY OptionalValue DEF MillimetresAreExact, Sized
<1> QED
  BY <1>1 DEF GeometryIsExact, Sized

\* Where a length stands on the command line.
LEMMA GeometryArgs ==
  ASSUME NEW o, NEW m, Settled(m), Asked(o)
  PROVE  LET a == MakeScanimageArgs(o, m, "main")
             g == m.geometry
         IN /\ m.geometryKind # "corners" =>
                 /\ Has(a, "x") <=> Sized(g)
                 /\ Sized(g) => a.x = The(g.width) /\ a.y = The(g.height)
                 /\ Has(a, "l") <=> Located(g)
                 /\ Located(g) => a.l = The(g.originX) /\ a.t = The(g.originY)
            /\ m.geometryKind = "corners" =>
                 /\ Has(a, "br-x") <=> Sized(g)
                 /\ Sized(g) => a["br-x"] = The(g.width) /\ a["br-y"] = The(g.height)
                 /\ Located(g) => a["tl-x"] = The(g.originX) /\ a["tl-y"] = The(g.originY)
<1> DEFINE a == MakeScanimageArgs(o, m, "main")
           g == m.geometry
           args_g == GeometryArguments(m)
<1>1. ASSUME NEW name \in GeometryNames PROVE At(a, name) = At(args_g, name)
  <2>1. \A pass : At(MakeScanimageArgs(o, m, pass), name) = At(GeometryArguments(m), name)
    BY AtArgs
  <2> QED
    BY <2>1
<1>2. \A name \in GeometryNames :
        /\ Has(a, name) <=> At(args_g, name) # None
        /\ At(args_g, name) # None => a[name] = The(At(args_g, name))
  <2> HIDE DEF a, args_g
  <2> QED
    BY <1>1, AtGiven DEF Has
<1>3. m.geometryKind # "corners" =>
        /\ At(args_g, "x") = IF Sized(g) THEN g.width ELSE None
        /\ At(args_g, "y") = IF Sized(g) THEN g.height ELSE None
        /\ At(args_g, "l") = IF Located(g) THEN g.originX ELSE None
        /\ At(args_g, "t") = IF Located(g) THEN g.originY ELSE None
  BY AtGeometry DEF Sized, Located
<1>4. m.geometryKind = "corners" =>
        /\ At(args_g, "br-x") = IF Sized(g) THEN g.width ELSE None
        /\ At(args_g, "br-y") = IF Sized(g) THEN g.height ELSE None
        /\ At(args_g, "tl-x") = IF Located(g) THEN g.originX ELSE None
        /\ At(args_g, "tl-y") = IF Located(g) THEN g.originY ELSE None
  BY AtGeometry DEF Sized, Located
<1> HIDE DEF a, args_g, g
<1>5. /\ {"x", "y", "l", "t", "br-x", "br-y", "tl-x", "tl-y"} \subseteq GeometryNames
      /\ Sized(g) => g.width # None /\ g.height # None
      /\ Located(g) => g.originX # None /\ g.originY # None
  BY DEF GeometryNames, Sized, Located
<1>6. m.geometryKind # "corners" =>
        /\ Has(a, "x") <=> Sized(g)
        /\ Sized(g) => a["x"] = The(g.width) /\ a["y"] = The(g.height)
        /\ Has(a, "l") <=> Located(g)
        /\ Located(g) => a["l"] = The(g.originX) /\ a["t"] = The(g.originY)
  BY <1>2, <1>3, <1>5
<1>7. m.geometryKind = "corners" =>
        /\ Has(a, "br-x") <=> Sized(g)
        /\ Sized(g) => a["br-x"] = The(g.width) /\ a["br-y"] = The(g.height)
        /\ Located(g) => a["tl-x"] = The(g.originX) /\ a["tl-y"] = The(g.originY)
  BY <1>2, <1>4, <1>5
<1> QED
  BY <1>6, <1>7 DEF a, g

LEMMA AreaSaid ==
  ASSUME NEW dump, Parsed(dump), NEW o, WholeArea(o), o.dpi \in Int, Asked(o), NEW film, NEW m,
         m = ResolveMedia(dump, o, film), GeometryIsExact(o, m),
         \A r \in ToSet(m.top) : 0 <= r.minimum,
         dump = ScanDump(device, o)
  PROVE  AreaIsAsked(o, m, MakeScanimageArgs(o, m, "main"))
<1> DEFINE a == MakeScanimageArgs(o, m, "main")
           g == m.geometry
           unit == The(MaximumResolution(dump))
<1>1. Settled(m)
  BY MediaSettled
<1>2. m.geometryKind \in {"mm", "pel", "corners"}
  BY MediaFields DEF GeometryKind
<1>3. m.geometryKind # "corners" =>
        /\ Has(a, "x") <=> Sized(g)
        /\ Sized(g) => a.x = The(g.width) /\ a.y = The(g.height)
        /\ Has(a, "l") <=> Located(g)
        /\ Located(g) => a.l = The(g.originX) /\ a.t = The(g.originY)
  BY <1>1, GeometryArgs
<1>4. m.geometryKind = "corners" =>
        /\ Has(a, "br-x") <=> Sized(g)
        /\ Sized(g) => a["br-x"] = The(g.width) /\ a["br-y"] = The(g.height)
        /\ Located(g) => a["tl-x"] = The(g.originX) /\ a["tl-y"] = The(g.originY)
  BY <1>1, GeometryArgs
<1> HIDE DEF a
<1>5. CASE ~Sized(g)
  <2>1. o.dpi = 0 /\ m.dedicated /\ AtOrigin(o)
    BY <1>5, UnsizedIsPreview
  <2>2. /\ ~(m.geometryKind = "mm" /\ Has(a, "x"))
        /\ ~(m.geometryKind = "pel" /\ Has(a, "x"))
        /\ ~(m.geometryKind = "corners" /\ Has(a, "br-x"))
    BY <1>3, <1>4, <1>5
  <2> QED
    BY <2>1, <2>2 DEF AreaIsAsked, a
<1>6. CASE Sized(g) /\ m.geometryKind = "mm"
  <2>1. PICK h \in Int :
          /\ g.height = Some(h) /\ h - o.area.height \in -9 .. 9
          /\ \A r \in ToSet(m.top) : o.area.y + h <= r.minimum + The(m.height).maximum
    BY <1>6, MillimetresSaid
  <2>2. /\ g.width = Some(o.area.width)
        /\ IF Located(g) THEN g.originX = Some(o.area.x) /\ g.originY = Some(o.area.y) ELSE AtOrigin(o)
    BY <1>6, MillimetresSaid
  <2>3. Has(a, "x") /\ a.x = o.area.width /\ a.y = h
    BY <1>3, <1>6, <2>1, <2>2, OptionalValue
  <2>4. IF Has(a, "l") THEN a.l = o.area.x /\ a.t = o.area.y ELSE AtOrigin(o)
    BY <1>3, <1>6, <2>2, OptionalValue
  <2> QED
    BY <1>6, <2>1, <2>3, <2>4 DEF AreaIsAsked, a
<1>7. CASE Sized(g) /\ m.geometryKind = "pel"
  <2> DEFINE Near(optional, tenths) ==
               \E p \in Int : optional = Some(p) /\ Covers(p, tenths, o.dpi)
  <2>1. /\ Near(g.width, o.area.width) /\ Near(g.height, o.area.height)
        /\ IF Located(g) THEN Near(g.originX, o.area.x) /\ Near(g.originY, o.area.y) ELSE AtOrigin(o)
    BY <1>7, PixelsSaid
  <2>2. \A optional, tenths : Near(optional, tenths) => Covers(The(optional), tenths, o.dpi)
    BY OptionalValue
  <2> HIDE DEF Near
  <2>3. /\ Has(a, "x") /\ Covers(a.x, o.area.width, o.dpi) /\ Covers(a.y, o.area.height, o.dpi)
    BY <1>3, <1>7, <2>1, <2>2
  <2>4. IF Has(a, "l") THEN Covers(a.l, o.area.x, o.dpi) /\ Covers(a.t, o.area.y, o.dpi) ELSE AtOrigin(o)
    BY <1>3, <1>7, <2>1, <2>2
  <2> QED
    BY <1>7, <2>3, <2>4 DEF AreaIsAsked, a
<1>8. CASE Sized(g) /\ m.geometryKind = "corners"
  <2>1. /\ Located(g)
        /\ Covers(The(g.width) - The(g.originX) + 1, o.area.width, unit)
        /\ Covers(The(g.height) - The(g.originY) + 1, o.area.height, unit)
        /\ Covers(The(g.originX), o.area.x, unit) /\ Covers(The(g.originY), o.area.y, unit)
    BY <1>8, CornersSaid
  <2> HIDE DEF unit
  <2>2. /\ Has(a, "br-x")
        /\ Covers(a["br-x"] - a["tl-x"] + 1, o.area.width, unit)
        /\ Covers(a["br-y"] - a["tl-y"] + 1, o.area.height, unit)
        /\ Covers(a["tl-x"], o.area.x, unit) /\ Covers(a["tl-y"], o.area.y, unit)
    BY <1>4, <1>8, <2>1
  <2> QED
    BY <1>8, <2>2 DEF AreaIsAsked, CornersCover, a, unit
<1> QED
  BY <1>2, <1>5, <1>6, <1>7, <1>8

-----------------------------------------------------------------------------
(***************************************************************************)
(* What is sent is what was asked.                                         *)
(***************************************************************************)
LEMMA MainArgs ==
  ASSUME NEW o, NEW m, Settled(m), Asked(o)
  PROVE  LET a == MakeScanimageArgs(o, m, "main")
             given(n, v) == IF n \in m.options THEN v ELSE None
         IN /\ At(a, "source") = m.source /\ At(a, "mode") = m.mode
            /\ At(a, "resolution") = m.dpi /\ At(a, "depth") = m.depth
            /\ At(a, "preview") = IF o.dpi = 0 THEN given("preview", Some(TRUE)) ELSE None
            /\ At(a, "brightness") = given("brightness", o.brightness)
            /\ At(a, "contrast") = given("contrast", o.contrast)
            /\ At(a, "scan-exposure-time") = given("scan-exposure-time", o.exposure)
            /\ m.filmTypeOption # None => At(a, The(m.filmTypeOption)) = m.filmType
<1> DEFINE Given1(n, v) == IF n \in m.options THEN v ELSE None
<1>1. ASSUME NEW pass, pass # "infrared", NEW name
      PROVE  LET value == At(MakeScanimageArgs(o, m, pass), name)
             IN /\ name = "source" => value = m.source
                /\ name = "mode" => value = m.mode
                /\ name = "resolution" => value = m.dpi
                /\ name = "depth" => value = m.depth
                /\ name \in MainNames => value = At(MainArguments(o, m), name)
  BY <1>1, AtArgs
<1>2. {"preview", "brightness", "contrast", "scan-exposure-time"} \subseteq MainNames
  BY DEF MainNames
<1>3. m.filmTypeOption # None => The(m.filmTypeOption) \in MainNames
  BY OptionalValue DEF Settled, MainNames
<1>4. ASSUME NEW name
      PROVE  LET value == At(MainArguments(o, m), name)
             IN /\ name = "preview" => value = IF o.dpi = 0 THEN Given1("preview", Some(TRUE)) ELSE None
                /\ name = "brightness" => value = Given1("brightness", o.brightness)
                /\ name = "contrast" => value = Given1("contrast", o.contrast)
                /\ name = "scan-exposure-time" => value = Given1("scan-exposure-time", o.exposure)
                /\ m.filmTypeOption # None /\ name = The(m.filmTypeOption) => value = m.filmType
  BY AtMain
<1> HIDE DEF Given1
<1>5. ASSUME NEW pass, pass # "infrared"
      PROVE  LET a == MakeScanimageArgs(o, m, pass)
             IN /\ At(a, "source") = m.source /\ At(a, "mode") = m.mode
                /\ At(a, "resolution") = m.dpi /\ At(a, "depth") = m.depth
                /\ At(a, "preview") = IF o.dpi = 0 THEN Given1("preview", Some(TRUE)) ELSE None
                /\ At(a, "brightness") = Given1("brightness", o.brightness)
                /\ At(a, "contrast") = Given1("contrast", o.contrast)
                /\ At(a, "scan-exposure-time") = Given1("scan-exposure-time", o.exposure)
                /\ m.filmTypeOption # None => At(a, The(m.filmTypeOption)) = m.filmType
  <2> DEFINE a == MakeScanimageArgs(o, m, pass)
  <2> HIDE DEF a
  <2>1. /\ \A name \in MainNames : At(a, name) = At(MainArguments(o, m), name)
        /\ At(a, "source") = m.source /\ At(a, "mode") = m.mode
        /\ At(a, "resolution") = m.dpi /\ At(a, "depth") = m.depth
    BY <1>1, <1>5 DEF a
  <2>2. /\ At(a, "preview") = IF o.dpi = 0 THEN Given1("preview", Some(TRUE)) ELSE None
        /\ At(a, "brightness") = Given1("brightness", o.brightness)
        /\ At(a, "contrast") = Given1("contrast", o.contrast)
        /\ At(a, "scan-exposure-time") = Given1("scan-exposure-time", o.exposure)
    BY <1>2, <1>4, <2>1
  <2>3. m.filmTypeOption # None => At(a, The(m.filmTypeOption)) = m.filmType
    BY <1>3, <1>4, <2>1
  <2> QED
    BY <2>1, <2>2, <2>3 DEF a
<1> QED
  BY <1>5 DEF Given1

\* The resolution, or a preview where none is asked for.
LEMMA ResolutionSaid ==
  ASSUME NEW dump, Parsed(dump), NEW o, Asked(o), o.dpi \in Int, NEW film, NEW m,
         m = ResolveMedia(dump, o, film), ValidateExactOptions(o, m), PreviewOrFull(o)
  PROVE  LET a == MakeScanimageArgs(o, m, "main")
         IN IF o.preview THEN Has(a, "preview") /\ ~Has(a, "resolution")
            ELSE Has(a, "resolution") /\ a.resolution = o.dpi /\ ~Has(a, "preview")
<1> DEFINE a == MakeScanimageArgs(o, m, "main")
<1>1. Settled(m) /\ m.dpi = ResolvedDPI(dump, o.dpi)
  BY MediaSettled, MediaFields
<1>2. /\ At(a, "resolution") = m.dpi
      /\ At(a, "preview") = IF o.dpi = 0 /\ "preview" \in m.options THEN Some(TRUE) ELSE None
  BY <1>1, MainArgs
<1> HIDE DEF a
<1>3. CASE o.preview
  <2>1. o.dpi = 0
    BY <1>3 DEF PreviewOrFull
  <2>2. "preview" \in m.options /\ m.dpi = None
    BY <1>1, <2>1 DEF ValidateExactOptions, ResolvedDPI
  <2> QED
    BY <1>2, <1>3, <2>1, <2>2, AtGiven, OptionalValue DEF Has, a
<1>4. CASE ~o.preview
  <2>1. o.dpi # 0
    BY <1>4 DEF PreviewOrFull
  <2>2. m.dpi = Some(o.dpi)
    BY <2>1 DEF ValidateExactOptions
  <2>3. Has(a, "resolution") /\ a["resolution"] = o.dpi /\ ~Has(a, "preview")
    BY <1>2, <2>1, <2>2, AtGiven DEF Has
  <2> QED
    BY <1>4, <2>3 DEF a
<1> QED
  BY <1>3, <1>4

\* The depth: a device whose depth cannot be set is not told one.
LEMMA DepthSaid ==
  ASSUME NEW dump, Parsed(dump), NEW o, Asked(o), NEW film, NEW m,
         m = ResolveMedia(dump, o, film), DepthIsExact(o, m)
  PROVE  LET a == MakeScanimageArgs(o, m, "main")
         IN Has(a, "depth") => IF o.bitDepth = 8 THEN a.depth = 8 ELSE a.depth > 8
<1> DEFINE a == MakeScanimageArgs(o, m, "main")
<1>1. /\ Settled(m) /\ m.depth = DepthArgument(dump, o.bitDepth)
      /\ m.fixedDepth = FixedDepth(dump, o.backend)
  BY MediaSettled, MediaFields
<1>2. At(a, "depth") = m.depth
  BY <1>1, MainArgs
<1>3. m.fixedDepth # None => m.depth = None
  <2> SUFFICES ASSUME m.fixedDepth # None PROVE DepthArgument(dump, o.bitDepth) = None
    BY <1>1
  <2>1. ~IsActive(dump, "depth")
    BY <1>1 DEF FixedDepth, HasOption, IsActive
  <2>2. ToSet(IntTokens(dump, "depth")) = {}
    BY <2>1 DEF IntTokens, ToSet
  <2> QED
    BY <2>2 DEF DepthArgument
<1> HIDE DEF a
<1>4. Has(a, "depth") => m.depth # None /\ a["depth"] = The(m.depth)
  BY <1>2, AtGiven DEF Has
<1>5. Has(a, "depth") => IF o.bitDepth = 8 THEN a["depth"] = 8 ELSE a["depth"] > 8
  BY <1>3, <1>4 DEF DepthIsExact
<1> QED
  BY <1>5 DEF a

\* The mode, and the light of the film holder.
LEMMA LightSaid ==
  ASSUME NEW dump, Parsed(dump), NEW o, Asked(o), NEW film, NEW m,
         m = ResolveMedia(dump, o, film), ValidateExactOptions(o, m)
  PROVE  LET a == MakeScanimageArgs(o, m, "main")
         IN /\ Has(a, "mode") => Says(o.colorMode, a.mode)
            /\ Has(a, "source") =>
                 /\ IsTransparencySource(a.source)
                 /\ IsInfraredValue(a.source) =>
                      \A s \in ToSet(EnumValues(dump, "source")) :
                        IsTransparencySource(s) => IsInfraredValue(s)
<1> DEFINE a == MakeScanimageArgs(o, m, "main")
           sources == EnumValues(dump, "source")
           visible == {i \in DOMAIN sources : IsTransparencySource(sources[i]) /\ ~IsInfraredValue(sources[i])}
           guideless == {i \in visible : ~Says("8x10", sources[i])}
<1>1. Settled(m) /\ m.source = ResolvedSource(dump)
  BY MediaSettled, MediaFields
<1>2. At(a, "source") = m.source /\ At(a, "mode") = m.mode
  BY <1>1, MainArgs
<1> HIDE DEF a
<1>3. Has(a, "mode") => Says(o.colorMode, a["mode"])
  <2>1. EnumValues(dump, "mode") \in Seq(Values)
    BY ListsAreSequences
  <2>2. DOMAIN EnumValues(dump, "mode") \subseteq Nat
    BY <2>1
  <2>3. m.mode = None \/ \E v : m.mode = Some(v) /\ Says(o.colorMode, v)
    BY <2>2, SayingFound, MediaFields DEF PickModeValue
  <2> QED
    BY <1>2, <2>3, AtGiven DEF Has
<1>4. Has(a, "source") => m.source # None /\ a["source"] = The(m.source)
  BY <1>2, AtGiven DEF Has
<1>5. m.source # None => IsTransparencySource(The(m.source))
  BY DEF ValidateExactOptions
<1>6. ASSUME visible # {}
      PROVE  m.source # None => ~IsInfraredValue(The(m.source))
  <2>1. sources \in Seq(Values)
    BY ListsAreSequences
  <2>2. DOMAIN sources \subseteq Nat
    BY <2>1
  <2>3. visible \subseteq Nat /\ guideless \subseteq visible
    BY <2>2
  <2>4. \A i \in visible : ~IsInfraredValue(sources[i])
    OBVIOUS
  <2>5. ResolvedSource(dump) =
          OrElse(OrElse(FirstAt(sources, guideless),
                        OrElse(FirstAt(sources, visible), FirstSaying("transparency", sources))),
                 FirstAt(sources, DOMAIN sources))
    BY DEF ResolvedSource, PreferredTransparencySource
  <2> HIDE DEF sources, visible, guideless
  <2>6. PICK i \in visible : FirstAt(sources, visible) = Some(sources[i])
    BY <1>6, <2>3, FirstAtPlace
  <2>7. FirstAt(sources, guideless) = None \/ \E j \in guideless : FirstAt(sources, guideless) = Some(sources[j])
    BY <2>3, FirstAtPlace
  <2>8. \E j \in visible : ResolvedSource(dump) = Some(sources[j])
    BY <2>3, <2>5, <2>6, <2>7, OptionalValue DEF OrElse
  <2> QED
    BY <1>1, <2>4, <2>8, OptionalValue
<1>7. visible = {} => \A s \in ToSet(sources) : IsTransparencySource(s) => IsInfraredValue(s)
  BY DEF ToSet
<1> HIDE DEF visible, guideless
<1>8. Has(a, "source") =>
        /\ IsTransparencySource(a["source"])
        /\ IsInfraredValue(a["source"]) =>
             \A s \in ToSet(sources) : IsTransparencySource(s) => IsInfraredValue(s)
  BY <1>4, <1>5, <1>6, <1>7
<1> QED
  BY <1>3, <1>8 DEF a

\* The polarity of the film, wherever the device has an option for it.
LEMMA PolaritySaid ==
  ASSUME NEW dump, Parsed(dump), NEW o, Asked(o), NEW film, NEW m,
         m = ResolveMedia(dump, o, film), ValidateExactOptions(o, m)
  PROVE  PolarityIsAsked(o, m, MakeScanimageArgs(o, m, "main"))
<1> DEFINE a == MakeScanimageArgs(o, m, "main")
           name == The(m.filmTypeOption)
<1> SUFFICES ASSUME m.filmTypeOption # None
             PROVE  \/ a[name] = {"no"} /\ o.backend \in {"coolscan2", "coolscan3"}
                    \/ Says(o.film, a[name])
                    \/ o.backend = "coolscan" /\ Says("positive", a[name])
  BY DEF PolarityIsAsked
<1>1. /\ Settled(m) /\ m.filmTypeOption = FilmTypeOptionName(dump)
      /\ m.filmType = FilmType(dump, o) /\ m.filmType # None
  BY MediaSettled, MediaFields DEF ValidateExactOptions
<1>2. At(a, name) = m.filmType
  BY <1>1, MainArgs
<1> HIDE DEF a, name
<1>3. a[name] = The(m.filmType)
  BY <1>1, <1>2, AtGiven
<1>4. \/ The(m.filmType) = {"no"} /\ o.backend \in {"coolscan2", "coolscan3"}
      \/ Says(o.film, The(m.filmType))
      \/ o.backend = "coolscan" /\ Says("positive", The(m.filmType))
  BY <1>1, FilmTypeGiven, OptionalValue
<1> QED
  BY <1>3, <1>4

\* The tone and the exposure.
LEMMA ToneSaid ==
  ASSUME NEW dump, Parsed(dump), NEW o, Asked(o), NEW film, NEW m,
         m = ResolveMedia(dump, o, film), ValidateExactOptions(o, m)
  PROVE  LET a == MakeScanimageArgs(o, m, "main")
         IN /\ \A v \in ToSet(o.brightness) : v = 0 \/ a.brightness = v
            /\ \A v \in ToSet(o.contrast) : v = 0 \/ a.contrast = v
            /\ \A v \in ToSet(o.exposure) : a["scan-exposure-time"] = v
<1> DEFINE a == MakeScanimageArgs(o, m, "main")
<1>1. Settled(m)
  BY MediaSettled
<1>2. /\ At(a, "brightness") = IF "brightness" \in m.options THEN o.brightness ELSE None
      /\ At(a, "contrast") = IF "contrast" \in m.options THEN o.contrast ELSE None
      /\ At(a, "scan-exposure-time") = IF "scan-exposure-time" \in m.options THEN o.exposure ELSE None
  BY <1>1, MainArgs
<1> HIDE DEF a
<1>3. \A name : NumericRange(dump, name) # None => IsActive(dump, name)
  BY DEF NumericRange
<1>4. \A optional : IsOptional(optional) => \A v \in ToSet(optional) : optional = Some(v)
  BY OptionalValue DEF IsOptional
<1>5. ASSUME NEW v \in ToSet(o.brightness), v # 0 PROVE a["brightness"] = v
  <2>1. o.brightness = Some(v)
    BY <1>4 DEF Asked
  <2>2. m.brightness # None
    BY <1>5, <2>1, OptionalValue DEF ValidateExactOptions, AdjustmentIsExact, InRange
  <2>3. SupportsTone(o) /\ IsActive(dump, "brightness")
    BY <1>3, <2>2, MediaFields
  <2>4. "brightness" \in m.options
    BY <2>3, MediaOptionsActive
  <2> QED
    BY <1>2, <2>1, <2>4, AtGiven
<1>6. ASSUME NEW v \in ToSet(o.contrast), v # 0 PROVE a["contrast"] = v
  <2>1. o.contrast = Some(v)
    BY <1>4 DEF Asked
  <2>2. m.contrast # None
    BY <1>6, <2>1, OptionalValue DEF ValidateExactOptions, AdjustmentIsExact, InRange
  <2>3. SupportsTone(o) /\ IsActive(dump, "contrast")
    BY <1>3, <2>2, MediaFields
  <2>4. "contrast" \in m.options
    BY <2>3, MediaOptionsActive
  <2> QED
    BY <1>2, <2>1, <2>4, AtGiven
<1>7. ASSUME NEW v \in ToSet(o.exposure) PROVE a["scan-exposure-time"] = v
  <2>1. o.exposure = Some(v)
    BY <1>4 DEF Asked
  <2>2. "scan-exposure-time" \in m.options
    BY <2>1, OptionalValue DEF ValidateExactOptions, ExposureIsExact
  <2> QED
    BY <1>2, <2>1, <2>2, AtGiven
<1> QED
  BY <1>5, <1>6, <1>7 DEF a

\* Infrared light for the infrared pass.
LEMMA InfraredSaid ==
  ASSUME NEW dump, Parsed(dump), NEW o, Asked(o), NEW film, NEW m, o.infrared,
         m = ResolveMedia(dump, o, film), ValidateExactOptions(o, m)
  PROVE  LET a == MakeScanimageArgs(o, m, "infrared")
         IN \/ Has(a, "source") /\ IsInfraredValue(a.source)
            \/ Has(a, "mode") /\ IsInfraredValue(a.mode)
<1> DEFINE a == MakeScanimageArgs(o, m, "infrared")
<1>1. /\ Settled(m) /\ m.infrared.kind \in {"source", "mode"}
      /\ IsInfraredValue(m.infrared.value)
  BY MediaSettled, MediaFields, InfraredListed DEF ValidateExactOptions
<1>2. \A pass, name :
        LET value == At(MakeScanimageArgs(o, m, pass), name)
        IN pass = "infrared" /\ name = m.infrared.kind => value = Some(m.infrared.value)
  BY <1>1, AtArgs
<1>3. At(a, m.infrared.kind) = Some(m.infrared.value)
  BY <1>2
<1> HIDE DEF a
<1>4. Has(a, m.infrared.kind) /\ IsInfraredValue(a[m.infrared.kind])
  BY <1>1, <1>3, AtGiven DEF Has
<1>5. \/ Has(a, "source") /\ IsInfraredValue(a["source"])
      \/ Has(a, "mode") /\ IsInfraredValue(a["mode"])
  BY <1>1, <1>4
<1> QED
  BY <1>5 DEF a

\* No position starts before the surface.
LEMMA TopIsOnSurface ==
  ASSUME NEW dump, Parsed(dump), NEW r \in ToSet(RangeWithUnit(dump, "t", "mm"))
  PROVE  0 <= r.minimum
<1>1. RangeWithUnit(dump, "t", "mm") # None
  BY OptionalValue
<1>2. PICK s \in Ranges, i \in DOMAIN dump :
        /\ RangeWithUnit(dump, "t", "mm") = Some(s)
        /\ dump[i].name = "t" /\ s \in ToSet(dump[i].range)
  BY <1>1, RangeMeasured
<1>3. r = s
  BY <1>2, OptionalValue
<1> QED
  BY <1>2, <1>3 DEF Parsed, IsShown

LEMMA ScanSaysRequest == RequestInvariant => ArgumentsSayRequest
<1> SUFFICES ASSUME RequestInvariant, stage = "scanning" PROVE ArgumentsSayRequest
  BY DEF ArgumentsSayRequest
<1> DEFINE o == Options(doc)
           dump == ScanDump(device, o)
           m == Media(device, o)
           main == MakeScanimageArgs(o, m, "main")
           infrared == MakeScanimageArgs(o, m, "infrared")
<1>1. /\ device \in Devices /\ ValidateExactOptions(o, m)
      /\ args = [main |-> main, infrared |-> infrared]
  BY DEF RequestInvariant, ScanScope
<1>2. doc \in Documents /\ ParseScanRequest(doc) /\ ValidateScanRequest(doc)
  BY DEF RequestInvariant, DocumentScope, CheckedScope
<1>3. o.dpi \in Int /\ WholeArea(o) /\ Asked(o)
  BY <1>2, RequestRead DEF WholeArea
<1>4. PreviewOrFull(o)
  BY <1>2 DEF ValidateScanRequest, OptionsAreSound
<1>5. Parsed(dump)
  BY <1>1, CheckedAsks, ScanDumpParsed
<1>6. m = ResolveMedia(dump, o, device.typeIsFilm)
  BY DEF Media
<1>7. DepthIsExact(o, m) /\ GeometryIsExact(o, m)
  BY <1>1 DEF ValidateExactOptions
<1>8. \A r \in ToSet(m.top) : 0 <= r.minimum
  BY <1>5, <1>6, MediaFields, TopIsOnSurface
<1>9. dump = ScanDump(device, o)
  OBVIOUS
<1> HIDE DEF o, dump, m, main, infrared
<1>10. IF o.preview THEN Has(main, "preview") /\ ~Has(main, "resolution")
       ELSE Has(main, "resolution") /\ main.resolution = o.dpi /\ ~Has(main, "preview")
  BY <1>1, <1>3, <1>4, <1>5, <1>6, ResolutionSaid DEF main
<1>11. Has(main, "depth") => IF o.bitDepth = 8 THEN main.depth = 8 ELSE main.depth > 8
  BY <1>3, <1>5, <1>6, <1>7, DepthSaid DEF main
<1>12. /\ Has(main, "mode") => Says(o.colorMode, main.mode)
       /\ Has(main, "source") =>
            /\ IsTransparencySource(main.source)
            /\ IsInfraredValue(main.source) =>
                 \A s \in ToSet(EnumValues(dump, "source")) :
                   IsTransparencySource(s) => IsInfraredValue(s)
  BY <1>1, <1>3, <1>5, <1>6, LightSaid DEF main
<1>13. AreaIsAsked(o, m, main)
  BY <1>3, <1>5, <1>6, <1>7, <1>8, <1>9, AreaSaid DEF main
<1>14. PolarityIsAsked(o, m, main)
  BY <1>1, <1>3, <1>5, <1>6, PolaritySaid DEF main
<1>15. /\ \A v \in ToSet(o.brightness) : v = 0 \/ main.brightness = v
       /\ \A v \in ToSet(o.contrast) : v = 0 \/ main.contrast = v
       /\ \A v \in ToSet(o.exposure) : main["scan-exposure-time"] = v
  BY <1>1, <1>3, <1>5, <1>6, ToneSaid DEF main
<1>16. o.infrared =>
         \/ Has(infrared, "source") /\ IsInfraredValue(infrared.source)
         \/ Has(infrared, "mode") /\ IsInfraredValue(infrared.mode)
  BY <1>1, <1>3, <1>5, <1>6, InfraredSaid DEF infrared
<1>17. args.main = main /\ args.infrared = infrared
  BY <1>1
<1> QED
  BY <1>9, <1>10, <1>11, <1>12, <1>13, <1>14, <1>15, <1>16, <1>17
     DEF ArgumentsSayRequest, SaysRequest, o, m

\* What is sent is what was asked, exactly, or the scan is refused (validate.h:6): resolution,
\* depth, mode, light, area, polarity, tone and exposure, for every dump and every document.
THEOREM ArgumentsSayRequestAlways == Spec => []ArgumentsSayRequest
BY RequestInvariantHolds, ScanSaysRequest, PTL

-----------------------------------------------------------------------------
(***************************************************************************)
(* What is offered is accepted: capabilities.cpp against validate.cpp,     *)
(* question by question.                                                   *)
(***************************************************************************)
\* An offered resolution is a positive one that resolveMedia finds.
LEMMA OfferedResolution ==
  ASSUME NEW dump, Parsed(dump), NEW dpi \in SupportedResolutions(dump)
  PROVE  dpi \in Int /\ dpi > 0 /\ ResolvedDPI(dump, dpi) = Some(dpi)
<1> DEFINE list == ToSet(IntTokens(dump, "resolution"))
<1>1. CASE NumericRange(dump, "resolution") = None
  <2>1. dpi \in list /\ ResolutionSpec(dump).list = list
    BY <1>1 DEF SupportedResolutions, ResolutionSpec
  <2>2. list \subseteq Int
    BY ListsAreSequences DEF ToSet
  <2>3. dpi > 0
    <3>1. IsActive(dump, "resolution") /\ list = ToSet(Value(dump, "resolution").ints)
      BY <2>1 DEF IntTokens, ToSet
    <3> QED
      BY <2>1, <3>1, ValueIsParsed DEF IsShown
  <2> QED
    BY <2>1, <2>2, <2>3 DEF ResolvedDPI
<1>2. CASE NumericRange(dump, "resolution") # None
  <2>1. PICK r \in Ranges, i \in DOMAIN dump :
          /\ NumericRange(dump, "resolution") = Some(r)
          /\ dump[i].name = "resolution" /\ r \in ToSet(dump[i].range)
    BY <1>2, RangeShown
  <2>2. r.maximum \in Int /\ r.maximum > 0
    BY <2>1 DEF Ranges, Parsed, IsShown
  <2>3. /\ ResolutionSpec(dump).kind = "range"
        /\ ResolutionSpec(dump).range = Some(r)
    BY <1>2, <2>1 DEF ResolutionSpec
  <2>4. dpi \in StandardResolutions \cup {r.maximum} /\ InRange(Some(r), dpi)
    BY <2>3, OptionalValue DEF SupportedResolutions
  <2>5. dpi \in Int /\ dpi > 0
    BY <2>2, <2>4 DEF StandardResolutions
  <2> QED
    BY <2>3, <2>4, <2>5 DEF ResolvedDPI
<1> QED
  BY <1>1, <1>2

\* An offered depth is the fixed one, or one the device is told.
LEMMA OfferedDepth ==
  ASSUME NEW dump, Parsed(dump), NEW o, NEW film, NEW m, m = ResolveMedia(dump, o, film),
         o.bitDepth \in SupportedBitDepths(dump, o.backend)
  PROVE  DepthIsExact(o, m)
<1> DEFINE tokens == ToSet(IntTokens(dump, "depth"))
           chosen == {d \in {8} : d \in tokens} \cup {d \in {16} : \E t \in tokens : t > 8}
           legal == {t \in tokens : t >= 8}
           deepest == {t \in legal : t > 8 /\ \A u \in legal : u <= t}
<1>1. m.fixedDepth = FixedDepth(dump, o.backend) /\ m.depth = DepthArgument(dump, o.bitDepth)
  BY MediaFields
<1>2. CASE chosen = {}
  <2>1. o.bitDepth \in ToSet(FixedDepth(dump, o.backend))
    BY <1>2 DEF SupportedBitDepths
  <2>2. FixedDepth(dump, o.backend) = None \/ \E v : FixedDepth(dump, o.backend) = Some(v)
    BY DEF FixedDepth
  <2>3. FixedDepth(dump, o.backend) = Some(o.bitDepth)
    BY <2>1, <2>2, OptionalValue
  <2> QED
    BY <1>1, <2>3, OptionalValue DEF DepthIsExact
<1>3. CASE chosen # {}
  <2>1. o.bitDepth \in chosen
    BY <1>3 DEF SupportedBitDepths
  <2>2. tokens # {}
    BY <2>1
  <2>3. IsActive(dump, "depth")
    BY <2>2 DEF IntTokens, ToSet
  <2>4. m.fixedDepth = None
    BY <1>1, <2>3 DEF FixedDepth, HasOption, IsActive
  <2>5. "depth" \in m.options
    BY <2>3, MediaOptionsActive
  <2>6. IntTokens(dump, "depth") \in Seq(Int) /\ IntTokens(dump, "depth") # <<>>
    BY <2>2, ListsAreSequences DEF ToSet
  <2>7. tokens \subseteq Int
    BY <2>6 DEF ToSet
  <2>8. DepthArgument(dump, o.bitDepth) =
          IF o.bitDepth \in legal THEN Some(o.bitDepth)
          ELSE IF o.bitDepth = 16 /\ deepest # {} THEN Some(CHOOSE t \in deepest : TRUE) ELSE None
    BY DEF DepthArgument
  <2>9. CASE o.bitDepth = 8
    <3>1. 8 \in legal
      BY <2>1, <2>9
    <3>2. m.depth = Some(8)
      BY <1>1, <2>8, <2>9, <3>1
    <3> QED
      BY <2>4, <2>5, <2>9, <3>2, OptionalValue DEF DepthIsExact
  <2>10. CASE o.bitDepth = 16
    <3>1. PICK t \in tokens : t > 8
      BY <2>1, <2>10
    <3>2. PICK v \in tokens : \A w \in tokens : w <= v
      BY <2>6, ListHasLargest
    <3>3. v \in deepest
      BY <2>7, <3>1, <3>2
    <3>4. (CHOOSE d \in deepest : TRUE) \in deepest /\ \A d \in deepest : d > 8
      BY <3>3
    <3>5. \E d : m.depth = Some(d) /\ d > 8
      <4> HIDE DEF legal, deepest
      <4>1. CASE o.bitDepth \in legal
        BY <1>1, <2>8, <2>10, <4>1
      <4>2. CASE o.bitDepth \notin legal
        BY <1>1, <2>8, <2>10, <3>3, <3>4, <4>2
      <4> QED
        BY <4>1, <4>2
    <3> QED
      BY <2>4, <2>5, <2>10, <3>5, OptionalValue DEF DepthIsExact
  <2> QED
    BY <2>1, <2>9, <2>10
<1> QED
  BY <1>2, <1>3

\* An offered mode is listed, or the only one of a film scanner.
LEMMA OfferedMode ==
  ASSUME NEW dump, Parsed(dump), NEW o, NEW film, NEW m, m = ResolveMedia(dump, o, film),
         o.colorMode \in SupportedModes(dump, film, o.backend)
  PROVE  ModeIsExact(o, m)
<1> DEFINE values == EnumValues(dump, "mode")
           modes == {c \in {"color", "gray"} : \E v \in ToSet(values) : Says(c, v)}
<1>1. /\ m.mode = FirstSaying(o.colorMode, values)
      /\ m.dedicated = DedicatedFilmDevice(dump, film, o.backend)
  BY MediaFields DEF PickModeValue
<1>2. values \in Seq(Values)
  BY ListsAreSequences
<1>3. DOMAIN values \subseteq Nat
  BY <1>2
<1>4. \/ m.mode = None /\ \A v \in ToSet(values) : ~Says(o.colorMode, v)
      \/ \E v \in ToSet(values) : m.mode = Some(v) /\ Says(o.colorMode, v)
  BY <1>1, <1>3, SayingFound
<1>5. CASE o.colorMode \in modes
  <2>1. PICK v \in ToSet(values) : m.mode = Some(v) /\ Says(o.colorMode, v)
    BY <1>4, <1>5
  <2>2. IsActive(dump, "mode")
    BY <2>1, ListedIsLegal
  <2> QED
    BY <2>1, <2>2, MediaOptionsActive, OptionalValue DEF ModeIsExact
<1>6. CASE o.colorMode \notin modes
  <2>1. modes = {} /\ o.colorMode = "color" /\ m.dedicated
    BY <1>1, <1>6 DEF SupportedModes
  <2>2. m.mode = None
    BY <1>4, <1>6, <2>1
  <2> QED
    BY <2>1, <2>2 DEF ModeIsExact
<1> QED
  BY <1>5, <1>6

\* A device reported to scan film has a film source, or no source at all.
LEMMA OfferedSource ==
  ASSUME NEW dump, Parsed(dump), NEW film, NEW backend,
         ParseCapabilities(dump, film, backend).transparency,
         ResolvedSource(dump) # None
  PROVE  IsTransparencySource(The(ResolvedSource(dump)))
<1> DEFINE sources == EnumValues(dump, "source")
           visible == {i \in DOMAIN sources : IsTransparencySource(sources[i]) /\ ~IsInfraredValue(sources[i])}
           guideless == {i \in visible : ~Says("8x10", sources[i])}
<1>1. sources \in Seq(Values)
  BY ListsAreSequences
<1>2. DOMAIN sources \subseteq Nat
  BY <1>1
<1>3. ToSet(sources) # {}
  BY SourceListed DEF From
<1>4. \E s \in ToSet(sources) : Says("transparency", s)
  <2>1. IsActive(dump, "source")
    BY <1>3, ListedIsLegal
  <2> QED
    BY <2>1 DEF ParseCapabilities, DedicatedFilmDevice, IsTransparencySource
<1>5. visible \subseteq Nat /\ guideless \subseteq visible
  BY <1>2
<1>6. \A i \in visible : IsTransparencySource(sources[i])
  OBVIOUS
<1>7. ResolvedSource(dump) =
        OrElse(OrElse(FirstAt(sources, guideless),
                      OrElse(FirstAt(sources, visible), FirstSaying("transparency", sources))),
               FirstAt(sources, DOMAIN sources))
  BY DEF ResolvedSource, PreferredTransparencySource
<1> HIDE DEF sources, visible, guideless
<1>8. FirstAt(sources, guideless) = None \/ \E j \in guideless : FirstAt(sources, guideless) = Some(sources[j])
  BY <1>5, FirstAtPlace
<1>9. FirstAt(sources, visible) = None \/ \E j \in visible : FirstAt(sources, visible) = Some(sources[j])
  BY <1>5, FirstAtPlace
<1>10. \E v : FirstSaying("transparency", sources) = Some(v) /\ IsTransparencySource(v)
  BY <1>2, <1>4, SayingFound DEF IsTransparencySource
<1>11. \E v : ResolvedSource(dump) = Some(v) /\ IsTransparencySource(v)
  BY <1>5, <1>6, <1>7, <1>8, <1>9, <1>10, OptionalValue DEF OrElse
<1> QED
  BY <1>11, OptionalValue

\* Infrared is offered where a source or a mode says so.
LEMMA OfferedInfrared ==
  ASSUME NEW dump, Parsed(dump), NEW film, NEW o, o.infrared,
         ParseCapabilities(dump, film, o.backend).infrared
  PROVE  InfraredStrategy(dump, o).kind # "none"
<1> DEFINE sources == EnumValues(dump, "source")
           modes == EnumValues(dump, "mode")
<1>1. sources \in Seq(Values) /\ modes \in Seq(Values)
  BY ListsAreSequences
<1>2. DOMAIN sources \subseteq Nat /\ DOMAIN modes \subseteq Nat
  BY <1>1
<1>3. \E v \in ToSet(sources) \cup ToSet(modes) : Says("infrared", v)
  BY DEF ParseCapabilities, IsInfraredValue
<1>4. InfraredStrategy(dump, o).kind =
        IF FirstSaying("infrared", sources) # None THEN "source"
        ELSE IF FirstSaying("infrared", modes) # None THEN "mode" ELSE "none"
  BY DEF InfraredStrategy
<1> HIDE DEF sources, modes
<1>5. FirstSaying("infrared", sources) # None \/ FirstSaying("infrared", modes) # None
  BY <1>2, <1>3, SayingFound, OptionalValue
<1> QED
  BY <1>4, <1>5

\* The start of a range is legal, and so is the smallest size that is shown of it, unless that
\* is a maximum off the grid.
LEMMA RangeEnds ==
  ASSUME NEW r \in Ranges, 0 <= r.minimum, r.minimum <= r.maximum
  PROVE  /\ ContainsExactly(r, r.minimum)
         /\ (MinimumPositiveScanDimension(r) = r.maximum => ContainsExactly(r, r.maximum)) =>
              ContainsExactly(r, MinimumPositiveScanDimension(r))
<1> DEFINE low == r.minimum
           high == r.maximum
           step == r.step
<1>1. low \in Int /\ high \in Int /\ step \in Int
  BY DEF Ranges
<1>2. \A k \in Int : k > 0 => 0 % k = 0 /\ k % k = 0
  OBVIOUS
<1>3. ContainsExactly(r, low)
  <2>1. low - low = 0
    BY <1>1
  <2> QED
    BY <1>1, <1>2, <2>1 DEF ContainsExactly
<1>4. ASSUME MinimumPositiveScanDimension(r) = high => ContainsExactly(r, high)
      PROVE  ContainsExactly(r, MinimumPositiveScanDimension(r))
  <2> DEFINE one == IF step > 0 THEN step ELSE 1
  <2>1. MinimumPositiveScanDimension(r) =
          IF low > 0 THEN low ELSE IF one < high THEN one ELSE high
    BY DEF MinimumPositiveScanDimension
  <2>2. CASE low > 0
    BY <1>3, <2>1, <2>2
  <2>3. CASE low = 0
    <3>1. one < high => ContainsExactly(r, one)
      <4>1. one - low = one
        BY <1>1, <2>3
      <4>2. step > 0 => (one - low) % step = 0
        BY <1>1, <1>2, <4>1
      <4>3. 0 <= one
        BY <1>1
      <4> QED
        BY <1>1, <2>3, <4>2, <4>3 DEF ContainsExactly
    <3>2. ~(low > 0)
      BY <2>3
    <3> HIDE DEF one, low
    <3> QED
      BY <1>4, <2>1, <3>1, <3>2
  <2> QED
    BY <1>1, <2>2, <2>3
<1> QED
  BY <1>3, <1>4

\* An offered area lies on the surface, its origin at the corner.
LEMMA OfferedArea ==
  ASSUME NEW dump, Parsed(dump), NEW o, o.dpi \in Int, o.dpi > 0, AreaIsTellable(dump, o),
         NEW film, NEW m, m = ResolveMedia(dump, o, film), o.area \in ScanAreas(dump)
  PROVE  GeometryIsExact(o, m)
<1> DEFINE Extent(name) == RangeWithUnit(dump, name, "mm")
           lowest(name) == IF Extent(name) = None THEN 0 ELSE The(Extent(name)).minimum
           rx == The(Extent("x"))
           ry == The(Extent("y"))
           small == [x |-> lowest("l"), y |-> lowest("t"),
                     width |-> MinimumPositiveScanDimension(rx),
                     height |-> MinimumPositiveScanDimension(ry)]
           full == [x |-> lowest("l"), y |-> lowest("t"), width |-> rx.maximum, height |-> ry.maximum]
           g == m.geometry
           height == IF o.backend = "epson2"
                       THEN Epson2AlignedHeight(o.area.y, o.area.height, ry, lowest("t") + ry.maximum)
                       ELSE o.area.height
<1>1. /\ Extent("x") # None /\ Extent("y") # None
      /\ ~(rx.maximum <= 0) /\ ~(ry.maximum <= 0)
      /\ o.area \in {small, full}
  BY DEF ScanAreas
<1>2. ASSUME NEW name \in {"l", "t", "x", "y"}, Extent(name) # None
      PROVE  /\ Extent(name) = Some(The(Extent(name))) /\ The(Extent(name)) \in Ranges
             /\ 0 <= The(Extent(name)).minimum /\ The(Extent(name)).minimum <= The(Extent(name)).maximum
  <2>1. PICK r \in Ranges, i \in DOMAIN dump :
          Extent(name) = Some(r) /\ dump[i].name = name /\ r \in ToSet(dump[i].range)
    BY <1>2, RangeMeasured
  <2>2. The(Extent(name)) = r
    BY <2>1, OptionalValue
  <2>3. 0 <= r.minimum /\ r.minimum <= r.maximum
    BY <2>1 DEF Parsed, IsShown
  <2> QED
    BY <2>1, <2>2, <2>3
<1> HIDE DEF Extent
<1>3. /\ rx \in Ranges /\ ry \in Ranges /\ rx.maximum \in Int /\ ry.maximum \in Int
      /\ Extent("x") = Some(rx) /\ Extent("y") = Some(ry)
      /\ o.area.width = rx.maximum => ContainsExactly(rx, rx.maximum)
      /\ o.area.height = ry.maximum => ContainsExactly(ry, ry.maximum)
      /\ 0 <= rx.minimum /\ rx.minimum <= rx.maximum
      /\ 0 <= ry.minimum /\ ry.minimum <= ry.maximum
  <2>1. \A name \in {"x", "y"} : ToSet(Extent(name)) = {The(Extent(name))}
    BY <1>1, <1>2, OptionalValue
  <2>2. /\ o.area.width = rx.maximum => ContainsExactly(rx, o.area.width)
        /\ o.area.height = ry.maximum => ContainsExactly(ry, o.area.height)
    BY <2>1 DEF AreaIsTellable, Extent
  <2>3. /\ o.area.width = rx.maximum => ContainsExactly(rx, rx.maximum)
        /\ o.area.height = ry.maximum => ContainsExactly(ry, ry.maximum)
    <3> HIDE DEF rx, ry
    <3> QED
      BY <2>2
  <2> QED
    BY <1>1, <1>2, <2>3 DEF Ranges
<1>4. rx.maximum > 0 /\ ry.maximum > 0
  BY <1>1, <1>3
<1>5. /\ o.area.x = lowest("l") /\ o.area.y = lowest("t")
      /\ ContainsExactly(rx, o.area.width) /\ ContainsExactly(ry, o.area.height)
  <2> DEFINE sx == MinimumPositiveScanDimension(rx)
             sy == MinimumPositiveScanDimension(ry)
  <2>1. /\ (sx = rx.maximum => ContainsExactly(rx, rx.maximum)) => ContainsExactly(rx, sx)
        /\ (sy = ry.maximum => ContainsExactly(ry, ry.maximum)) => ContainsExactly(ry, sy)
    BY <1>3, RangeEnds
  <2> HIDE DEF rx, ry, lowest, sx, sy
  <2>2. /\ o.area.x = lowest("l") /\ o.area.y = lowest("t")
        /\ \/ o.area.width = sx /\ o.area.height = sy
           \/ o.area.width = rx.maximum /\ o.area.height = ry.maximum
    BY <1>1 DEF sx, sy
  <2> QED
    BY <1>3, <2>1, <2>2
<1>6. /\ Extent("l") # None => InRange(Extent("l"), o.area.x)
      /\ Extent("t") # None => InRange(Extent("t"), o.area.y)
  <2>1. /\ Extent("l") # None => ContainsExactly(The(Extent("l")), The(Extent("l")).minimum)
        /\ Extent("t") # None => ContainsExactly(The(Extent("t")), The(Extent("t")).minimum)
    BY <1>2, RangeEnds
  <2> QED
    BY <1>5, <2>1 DEF InRange
<1>7. o.area.x \in Int /\ o.area.y \in Int /\ o.area.width \in Int /\ o.area.height \in Int
  <2>1. lowest("l") \in Int /\ lowest("t") \in Int
    BY <1>2 DEF Ranges
  <2>2. MinimumPositiveScanDimension(rx) \in Int /\ MinimumPositiveScanDimension(ry) \in Int
    BY <1>3 DEF MinimumPositiveScanDimension, Ranges
  <2> HIDE DEF rx, ry, lowest
  <2> QED
    BY <1>1, <1>3, <1>5, <2>1, <2>2
<1>8. m.geometryKind = "mm" /\ g = MillimetreGeometry(dump, o)
  <2>1. GeometryKind(dump, o) = "mm"
    BY <1>1, <1>4 DEF GeometryKind, Extent
  <2> QED
    BY <2>1, MediaFields DEF Geometry
<1>9. /\ m.left = Extent("l") /\ m.top = Extent("t") /\ m.width = Extent("x") /\ m.height = Extent("y")
  BY MediaFields DEF Extent
<1>10. InRange(Extent("x"), o.area.width) /\ InRange(Extent("y"), o.area.height)
  BY <1>1, <1>5 DEF InRange
<1>11. /\ g.originX = IF InRange(Extent("l"), o.area.x) THEN Some(o.area.x) ELSE None
       /\ g.originY = IF InRange(Extent("t"), o.area.y) THEN Some(o.area.y) ELSE None
       /\ g.width = Some(o.area.width) /\ g.height = Some(height)
       /\ g.aligned = height - o.area.height
  BY <1>8, <1>10 DEF MillimetreGeometry, Extent
<1>12. height \in Int /\ height - o.area.height \in -9 .. 9
  <2>1. o.area.height - o.area.height \in -9 .. 9
    BY <1>7
  <2> QED
    BY <1>7, <2>1, AlignedIsNear
<1>13. ContainsExactly(ry, height)
  BY <1>5, AlignedStaysLegal
<1> HIDE DEF height, g
<1>14. o.area.height + g.aligned = height /\ -10 <= g.aligned /\ g.aligned <= 10
  BY <1>7, <1>11, <1>12
<1>15. /\ o.area.x + o.area.width <= lowest("l") + rx.maximum
       /\ o.area.y + height <= lowest("t") + ry.maximum
  <2>1. o.area.width <= rx.maximum /\ height <= ry.maximum
    BY <1>5, <1>13 DEF ContainsExactly
  <2> HIDE DEF lowest, rx, ry
  <2> QED
    BY <1>3, <1>5, <1>7, <1>12, <2>1
<1>16. IF m.left # None /\ m.top # None
         THEN /\ InRange(m.left, o.area.x) /\ InRange(m.top, o.area.y)
              /\ g.originX = Some(o.area.x) /\ g.originY = Some(o.area.y)
         ELSE AtOrigin(o)
  <2>1. CASE m.left # None /\ m.top # None
    BY <1>6, <1>9, <1>11, <2>1
  <2>2. CASE ~(m.left # None /\ m.top # None)
    <3>1. AtOrigin(o) \/ (m.left # None /\ m.top # None)
      BY <1>9 DEF AreaIsTellable, Extent
    <3> QED
      BY <2>2, <3>1
  <2> QED
    BY <2>1, <2>2
<1>17. MillimetresAreExact(o, m)
  <2>1. InRange(m.width, o.area.width) /\ InRange(m.height, o.area.height + g.aligned)
    BY <1>1, <1>9, <1>10, <1>13, <1>14 DEF InRange
  <2>2. /\ g.width = Some(o.area.width) /\ g.height = Some(o.area.height + g.aligned)
    BY <1>11, <1>14
  <2>3. /\ o.area.x + o.area.width <=
             (IF m.left = None THEN 0 ELSE The(m.left).minimum) + The(m.width).maximum
        /\ o.area.y + (o.area.height + g.aligned) <=
             (IF m.top = None THEN 0 ELSE The(m.top).minimum) + The(m.height).maximum
    BY <1>9, <1>14, <1>15
  <2> QED
    BY <1>14, <1>16, <2>1, <2>2, <2>3 DEF MillimetresAreExact, g
<1> QED
  BY <1>8, <1>17 DEF GeometryIsExact

\* A mode and a depth that are offered are of the protocol.
LEMMA OfferAsks ==
  ASSUME NEW d, NEW dump, NEW o \in OfferedRequests(d, Report(d, dump))
  PROVE  Asks(o)
<1> DEFINE caps == Report(d, dump)
<1>1. /\ caps.modes = SupportedModes(dump, d.typeIsFilm, d.backend)
      /\ caps.bitDepths = SupportedBitDepths(dump, d.backend)
  BY DEF Report, ParseCapabilities
<1>2. o.colorMode \in caps.modes /\ o.bitDepth \in caps.bitDepths
  <2> HIDE DEF caps
  <2> SUFFICES o \in OfferedRequests(d, caps) => o.colorMode \in caps.modes /\ o.bitDepth \in caps.bitDepths
    BY DEF caps
  <2> QED
    BY DEF OfferedRequests
<1> HIDE DEF caps
<1>3. caps.modes \subseteq {"color", "gray"}
  BY <1>1 DEF SupportedModes
<1>4. caps.bitDepths \subseteq {8, 16}
  <2>1. FixedDepth(dump, d.backend) = None \/ \E v \in {8, 16} : FixedDepth(dump, d.backend) = Some(v)
    BY DEF FixedDepth
  <2>2. ToSet(FixedDepth(dump, d.backend)) \subseteq {8, 16}
    BY <2>1, OptionalValue
  <2> QED
    BY <1>1, <2>2 DEF SupportedBitDepths
<1> QED
  BY <1>2, <1>3, <1>4 DEF Asks

LEMMA OfferServed == RequestInvariant => OfferedIsAccepted
<1> SUFFICES ASSUME RequestInvariant, stage = "described",
                    NEW o \in OfferedRequests(device, Report(device, SettledDump(device))),
                    o \in OfferedRequests(device, Report(device, ScanDump(device, o))),
                    Tellable(device, ScanDump(device, o)), AreaIsTellable(ScanDump(device, o), o)
             PROVE  ValidateExactOptions(o, Media(device, o))
  BY DEF OfferedIsAccepted, IsKept
<1> DEFINE dump == ScanDump(device, o)
           caps == Report(device, dump)
           film == device.typeIsFilm
           m == Media(device, o)
<1>1. device \in Devices
  BY DEF RequestInvariant, DocumentScope
<1>2. Parsed(dump)
  BY <1>1, OfferAsks, ScanDumpParsed
<1>3. /\ caps.resolutions = SupportedResolutions(dump)
      /\ caps.modes = SupportedModes(dump, film, device.backend)
      /\ caps.bitDepths = SupportedBitDepths(dump, device.backend)
      /\ caps.areas = ScanAreas(dump)
      /\ caps.transparency = ParseCapabilities(dump, film, device.backend).transparency
      /\ caps.infrared = ParseCapabilities(dump, film, device.backend).infrared
  BY DEF Report, ParseCapabilities
<1>4. /\ o.backend = device.backend
      /\ o.dpi \in SupportedResolutions(dump)
      /\ o.bitDepth \in SupportedBitDepths(dump, o.backend)
      /\ o.colorMode \in SupportedModes(dump, film, o.backend)
      /\ o.film \in {"negative", "positive"}
      /\ o.area \in ScanAreas(dump)
      /\ ParseCapabilities(dump, film, o.backend).transparency
      /\ o.infrared => ParseCapabilities(dump, film, o.backend).infrared
      /\ o.multiExposure = FALSE /\ o.exposure = None
      /\ o.brightness = None /\ o.contrast = None
  <2>1. o \in OfferedRequests(device, caps)
    OBVIOUS
  <2> HIDE DEF dump, film, m, caps
  <2>2. /\ o.backend = device.backend /\ o.dpi \in caps.resolutions /\ o.bitDepth \in caps.bitDepths
        /\ o.colorMode \in caps.modes
    BY <2>1 DEF OfferedRequests
  <2>3. /\ o.film \in {"negative", "positive"} /\ caps.transparency /\ o.area \in caps.areas
        /\ o.infrared => caps.infrared
    BY <2>1 DEF OfferedRequests
  <2>4. /\ o.multiExposure = FALSE /\ o.exposure = None
        /\ o.brightness = None /\ o.contrast = None
    BY <2>1 DEF OfferedRequests
  <2> QED
    BY <1>3, <2>2, <2>3, <2>4
<1>5. m = ResolveMedia(dump, o, film)
  BY DEF Media
<1>6. Tellable(device, dump) /\ AreaIsTellable(dump, o)
  OBVIOUS
<1> HIDE DEF dump, caps, film, m
<1>7. o.dpi \in Int /\ o.dpi > 0 /\ m.dpi = Some(o.dpi)
  BY <1>2, <1>4, <1>5, OfferedResolution, MediaFields
<1>8. DepthIsExact(o, m)
  BY <1>2, <1>4, <1>5, OfferedDepth
<1>9. ModeIsExact(o, m)
  BY <1>2, <1>4, <1>5, OfferedMode
<1>10. m.source # None => IsTransparencySource(The(m.source))
  BY <1>2, <1>4, <1>5, OfferedSource, MediaFields
<1>11. m.filmTypeOption # None => m.filmType # None
  <2> SUFFICES ASSUME FilmTypeOptionName(dump) # None PROVE FilmType(dump, o) # None
    BY <1>5, MediaFields
  <2>1. FilmTypeOptionName(dump) = None
        \/ \E name : FilmTypeOptionName(dump) = Some(name)
    BY FilmOptionActive
  <2>2. ToSet(FilmTypeOptionName(dump)) # {}
    BY <2>1, OptionalValue
  <2>3. FilmType(dump, [backend |-> device.backend, film |-> o.film]) # None
    BY <1>4, <1>6, <2>2 DEF Tellable
  <2>4. FilmType(dump, o) = FilmType(dump, [backend |-> device.backend, film |-> o.film])
    BY <1>4 DEF FilmType
  <2> QED
    BY <2>3, <2>4
<1>12. o.backend = "pieusb" => "advance" \in m.options
  BY <1>4, <1>5, <1>6, MediaOptionsActive DEF Tellable
<1>13. o.backend = "epson2" =>
         /\ "color-correction" \in m.options => m.colorCorrection # None
         /\ "gamma-correction" \in m.options => m.gammaCorrection # None
  BY <1>4, <1>5, <1>6, MediaFields, MediaOptionsActive DEF Tellable
<1>14. GeometryIsExact(o, m)
  BY <1>2, <1>4, <1>5, <1>6, <1>7, OfferedArea
<1>15. AdjustmentIsExact(o.brightness, m.brightness) /\ AdjustmentIsExact(o.contrast, m.contrast)
  BY <1>4 DEF AdjustmentIsExact
<1>16. ExposureIsExact(o, m)
  BY <1>4 DEF ExposureIsExact
<1>17. o.infrared => m.infrared.kind # "none"
  BY <1>2, <1>4, <1>5, OfferedInfrared, MediaFields
<1>18. ValidateExactOptions(o, m)
  BY <1>7, <1>8, <1>9, <1>10, <1>11, <1>12, <1>13, <1>14, <1>15, <1>16, <1>17 DEF ValidateExactOptions
<1> QED
  BY <1>18 DEF m

\* A host that asks for nothing but what `capabilities` reported, and sends the token along, is
\* served with exactly the values it chose.  A value that the mode asked for takes back, an area
\* off the grid of its range or one whose origin cannot be told, and a device that cannot be told
\* the polarity or to leave colours and slide alone are excepted, as OfferedIsAccepted says.
THEOREM OfferedIsAcceptedAlways == Spec => []OfferedIsAccepted
BY RequestInvariantHolds, OfferServed, PTL

-----------------------------------------------------------------------------
(***************************************************************************)
(* The command line.  The writer and the reader are loops over characters; *)
(* a loop's states are a function whose next value is a step of the last,  *)
(* and what holds at 0 and is kept by a step holds to the end (CountsUp).  *)
(***************************************************************************)
\* Counting from a to b reaches every number between them: there is no first one left out.
LEMMA CountsUp ==
  ASSUME NEW a \in Nat, NEW b \in Nat, NEW S,
         a <= b => a \in S,
         \A n \in a .. b : n \in S /\ n < b => n + 1 \in S
  PROVE  a .. b \subseteq S
<1> SUFFICES ASSUME (a .. b) \ S # {} PROVE FALSE
  OBVIOUS
<1> DEFINE out == (a .. b) \ S
<1>0. out \subseteq Nat /\ out # {}
  OBVIOUS
<1>1. PICK n \in out : \A k \in out : n <= k
  <2> HIDE DEF out
  <2> QED
    BY <1>0, LeastPlace
<1>2. n # a /\ n - 1 \in a .. b
  BY <1>1
<1>3. n - 1 \in S
  BY <1>1, <1>2
<1>4. (n - 1) + 1 \in S
  BY <1>1, <1>2, <1>3
<1> QED
  BY <1>1, <1>4

\* The reader makes one step a character.
LEMMA ReadingStep ==
  ASSUME NEW start, NEW chars, Len(chars) \in Nat
  PROVE  /\ Reading(start, chars)[0] = start
         /\ \A n \in 1 .. Len(chars) :
              Reading(start, chars)[n] = ReadChar(Reading(start, chars)[n - 1], chars[n])
<1> DEFINE N == Len(chars)
<1> DEFINE After(f, n) == IF n = 0 THEN start ELSE ReadChar(f[n - 1], chars[n])
           S == {k \in 0 .. N : \E f : f = [n \in 0 .. k |-> After(f, n)]}
<1>1. 0 \in S
  <2> DEFINE f == [n \in 0 .. 0 |-> start]
  <2>1. f = [n \in 0 .. 0 |-> After(f, n)]
    OBVIOUS
  <2> HIDE DEF f
  <2> QED
    BY <2>1
<1>2. ASSUME NEW k \in 0 .. N, k \in S, k < N PROVE k + 1 \in S
  <2>1. PICK f : f = [n \in 0 .. k |-> After(f, n)]
    BY <1>2
  <2> DEFINE g == [n \in 0 .. k + 1 |-> IF n <= k THEN f[n] ELSE After(f, n)]
  <2>2. \A n \in 0 .. k + 1 : g[n] = After(g, n)
    <3> SUFFICES ASSUME NEW n \in 0 .. k + 1 PROVE g[n] = After(g, n)
      OBVIOUS
    <3>1. n # 0 => n - 1 \in 0 .. k /\ g[n - 1] = f[n - 1]
      OBVIOUS
    <3>2. g[n] = After(f, n)
      <4>1. n <= k => n \in 0 .. k
        OBVIOUS
      <4> HIDE DEF After
      <4>2. n <= k => f[n] = After(f, n)
        BY <2>1, <4>1
      <4> QED
        BY <4>2
    <3> QED
      BY <3>1, <3>2
  <2>3. g = [n \in 0 .. k + 1 |-> After(g, n)]
    <3> HIDE DEF After
    <3> QED
      BY <2>2
  <2>4. k + 1 \in 0 .. N
    BY <1>2
  <2> HIDE DEF g, After
  <2>5. \E h : h = [n \in 0 .. k + 1 |-> After(h, n)]
    BY <2>3
  <2> QED
    BY <2>4, <2>5
<1>3. N \in S
  <2> HIDE DEF S
  <2>1. \A k \in 0 .. N : k \in S /\ k < N => k + 1 \in S
    BY <1>2
  <2>2. 0 .. N \subseteq S
    BY <1>1, <2>1, CountsUp
  <2> QED
    BY <2>2
<1>4. \E f : f = [n \in 0 .. Len(chars) |-> After(f, n)]
  BY <1>3
<1>5. Reading(start, chars) = [n \in 0 .. N |-> After(Reading(start, chars), n)]
  BY <1>4 DEF Reading
<1> QED
  BY <1>5
\* So does the writer.
LEMMA QuotingStep ==
  ASSUME NEW arg, Len(arg) \in Nat
  PROVE  /\ Quoting(arg)[0] = [out |-> <<>>, slashes |-> 0]
         /\ \A n \in 1 .. Len(arg) :
              Quoting(arg)[n] = QuoteChar(Quoting(arg)[n - 1], arg[n])
<1> DEFINE N == Len(arg)
<1> DEFINE After(f, n) == IF n = 0 THEN [out |-> <<>>, slashes |-> 0] ELSE QuoteChar(f[n - 1], arg[n])
           S == {k \in 0 .. N : \E f : f = [n \in 0 .. k |-> After(f, n)]}
<1>1. 0 \in S
  <2> DEFINE f == [n \in 0 .. 0 |-> [out |-> <<>>, slashes |-> 0]]
  <2>1. f = [n \in 0 .. 0 |-> After(f, n)]
    OBVIOUS
  <2> HIDE DEF f
  <2> QED
    BY <2>1
<1>2. ASSUME NEW k \in 0 .. N, k \in S, k < N PROVE k + 1 \in S
  <2>1. PICK f : f = [n \in 0 .. k |-> After(f, n)]
    BY <1>2
  <2> DEFINE g == [n \in 0 .. k + 1 |-> IF n <= k THEN f[n] ELSE After(f, n)]
  <2>2. \A n \in 0 .. k + 1 : g[n] = After(g, n)
    <3> SUFFICES ASSUME NEW n \in 0 .. k + 1 PROVE g[n] = After(g, n)
      OBVIOUS
    <3>1. n # 0 => n - 1 \in 0 .. k /\ g[n - 1] = f[n - 1]
      OBVIOUS
    <3>2. g[n] = After(f, n)
      <4>1. n <= k => n \in 0 .. k
        OBVIOUS
      <4> HIDE DEF After
      <4>2. n <= k => f[n] = After(f, n)
        BY <2>1, <4>1
      <4> QED
        BY <4>2
    <3> QED
      BY <3>1, <3>2
  <2>3. g = [n \in 0 .. k + 1 |-> After(g, n)]
    <3> HIDE DEF After
    <3> QED
      BY <2>2
  <2>4. k + 1 \in 0 .. N
    BY <1>2
  <2> HIDE DEF g, After
  <2>5. \E h : h = [n \in 0 .. k + 1 |-> After(h, n)]
    BY <2>3
  <2> QED
    BY <2>4, <2>5
<1>3. N \in S
  <2> HIDE DEF S
  <2>1. \A k \in 0 .. N : k \in S /\ k < N => k + 1 \in S
    BY <1>2
  <2>2. 0 .. N \subseteq S
    BY <1>1, <2>1, CountsUp
  <2> QED
    BY <2>2
<1>4. \E f : f = [n \in 0 .. Len(arg) |-> After(f, n)]
  BY <1>3
<1>5. Quoting(arg) = [n \in 0 .. N |-> After(Quoting(arg), n)]
  BY <1>4 DEF Quoting
<1> QED
  BY <1>5
\* The line grows by one argument at a time.
LEMMA LinesStep ==
  ASSUME NEW argv, Len(argv) \in Nat \ {0}
  PROVE  /\ Lines(argv)[1] = QuoteArgument(argv[1])
         /\ \A n \in 2 .. Len(argv) :
              Lines(argv)[n] = Lines(argv)[n - 1] \o <<Space>> \o QuoteArgument(argv[n])
<1> DEFINE N == Len(argv)
<1> DEFINE After(f, n) == IF n = 1 THEN QuoteArgument(argv[n])
                          ELSE f[n - 1] \o <<Space>> \o QuoteArgument(argv[n])
           S == {k \in 1 .. N : \E f : f = [n \in 1 .. k |-> After(f, n)]}
<1>1. 1 \in S
  <2> DEFINE f == [n \in 1 .. 1 |-> QuoteArgument(argv[n])]
  <2>1. f = [n \in 1 .. 1 |-> After(f, n)]
    OBVIOUS
  <2> HIDE DEF f, After
  <2>2. 1 \in 1 .. N
    OBVIOUS
  <2> QED
    BY <2>1, <2>2
<1>2. ASSUME NEW k \in 1 .. N, k \in S, k < N PROVE k + 1 \in S
  <2>1. PICK f : f = [n \in 1 .. k |-> After(f, n)]
    BY <1>2
  <2> DEFINE g == [n \in 1 .. k + 1 |-> IF n <= k THEN f[n] ELSE After(f, n)]
  <2>2. \A n \in 1 .. k + 1 : g[n] = After(g, n)
    <3> SUFFICES ASSUME NEW n \in 1 .. k + 1 PROVE g[n] = After(g, n)
      OBVIOUS
    <3>1. n # 1 => n - 1 \in 1 .. k /\ g[n - 1] = f[n - 1]
      OBVIOUS
    <3>2. g[n] = After(f, n)
      <4>1. n <= k => n \in 1 .. k
        OBVIOUS
      <4> HIDE DEF After
      <4>2. n <= k => f[n] = After(f, n)
        BY <2>1, <4>1
      <4> QED
        BY <4>2
    <3> QED
      BY <3>1, <3>2
  <2>3. g = [n \in 1 .. k + 1 |-> After(g, n)]
    <3> HIDE DEF After
    <3> QED
      BY <2>2
  <2>4. k + 1 \in 1 .. N
    BY <1>2
  <2> HIDE DEF g, After
  <2>5. \E h : h = [n \in 1 .. k + 1 |-> After(h, n)]
    BY <2>3
  <2> QED
    BY <2>4, <2>5
<1>3. N \in S
  <2> HIDE DEF S
  <2>1. \A k \in 1 .. N : k \in S /\ k < N => k + 1 \in S
    BY <1>2
  <2>2. 1 .. N \subseteq S
    BY <1>1, <2>1, CountsUp
  <2> QED
    BY <2>2
<1>4. \E f : f = [n \in 1 .. Len(argv) |-> After(f, n)]
  BY <1>3
<1>5. Lines(argv) = [n \in 1 .. N |-> After(Lines(argv), n)]
  BY <1>4 DEF Lines
<1>6. \A n \in 1 .. N : Lines(argv)[n] = After(Lines(argv), n)
  <2> HIDE DEF After
  <2> QED
    BY <1>5
<1>7. 1 \in 1 .. N /\ \A n \in 2 .. N : n \in 1 .. N /\ n # 1
  OBVIOUS
<1> QED
  BY <1>6, <1>7

-----------------------------------------------------------------------------
(***************************************************************************)
(* Reading one text after the other.                                       *)
(***************************************************************************)
Read(start, chars) == Reading(start, chars)[Len(chars)]

LEMMA ReadNone == ASSUME NEW start PROVE Read(start, <<>>) = start
<1>1. Len(<<>>) = 0 /\ 0 \in Nat
  OBVIOUS
<1> QED
  BY <1>1, ReadingStep DEF Read

LEMMA ReadOne == ASSUME NEW start, NEW char PROVE Read(start, <<char>>) = ReadChar(start, char)
<1> DEFINE chars == <<char>>
<1>1. Len(chars) = 1 /\ chars[1] = char
  OBVIOUS
<1> HIDE DEF chars
<1>2. \A n \in 1 .. 1 : Reading(start, chars)[n] = ReadChar(Reading(start, chars)[n - 1], chars[n])
  BY <1>1, ReadingStep
<1>3. Reading(start, chars)[1] = ReadChar(start, char)
  <2>1. Reading(start, chars)[0] = start
    BY <1>1, ReadingStep
  <2>2. Reading(start, chars)[1] = ReadChar(Reading(start, chars)[1 - 1], chars[1])
    BY <1>2
  <2> QED
    BY <1>1, <2>1, <2>2
<1> QED
  BY <1>1, <1>3 DEF Read, chars

\* Reading one text after the other is reading both in one.
LEMMA ReadJoined ==
  ASSUME NEW C, NEW start, NEW t \in Seq(C), NEW u \in Seq(C)
  PROVE  Read(start, t \o u) = Read(Read(start, t), u)
<1> DEFINE T == Len(t)
           U == Len(u)
           tu == t \o u
           both == Reading(start, tu)
           first == Reading(start, t)
           second == Reading(Read(start, t), u)
<1>1. /\ T = Len(t) /\ U = Len(u) /\ T \in Nat /\ U \in Nat /\ Len(tu) = T + U /\ T + U \in Nat
      /\ \A n \in 1 .. T : tu[n] = t[n]
      /\ \A n \in 1 .. U : tu[T + n] = u[n]
  OBVIOUS
<1> HIDE DEF T, U, tu
<1>2. /\ both[0] = start
      /\ \A n \in 1 .. T + U : both[n] = ReadChar(both[n - 1], tu[n])
  BY <1>1, ReadingStep
<1>3. first[0] = start /\ \A n \in 1 .. T : first[n] = ReadChar(first[n - 1], t[n])
  BY <1>1, ReadingStep
<1>4. second[0] = first[T] /\ \A n \in 1 .. U : second[n] = ReadChar(second[n - 1], u[n])
  BY <1>1, ReadingStep DEF Read
<1> HIDE DEF both, first, second
<1>5. both[T] = first[T]
  <2> DEFINE S == {n \in 0 .. T : both[n] = first[n]}
  <2>1. 0 \in S
    BY <1>1, <1>2, <1>3
  <2>2. ASSUME NEW n \in 0 .. T, n \in S, n < T PROVE n + 1 \in S
    <3>1. n + 1 \in 1 .. T /\ n + 1 \in 1 .. T + U /\ (n + 1) - 1 = n
      BY <1>1, <2>2
    <3>2. both[n + 1] = ReadChar(both[n], t[n + 1]) /\ first[n + 1] = ReadChar(first[n], t[n + 1])
      BY <1>1, <1>2, <1>3, <3>1
    <3> QED
      BY <2>2, <3>1, <3>2
  <2> HIDE DEF S
  <2>3. 0 .. T \subseteq S
    <3>1. \A n \in 0 .. T : n \in S /\ n < T => n + 1 \in S
      BY <2>2
    <3> QED
      BY <1>1, <2>1, <3>1, CountsUp
  <2> QED
    BY <1>1, <2>3 DEF S
<1>6. both[T + U] = second[U]
  <2> DEFINE S == {n \in 0 .. U : both[T + n] = second[n]}
  <2>1. 0 \in S
    BY <1>1, <1>4, <1>5
  <2>2. ASSUME NEW n \in 0 .. U, n \in S, n < U PROVE n + 1 \in S
    <3>1. n + 1 \in 1 .. U /\ T + (n + 1) \in 1 .. T + U /\ (n + 1) - 1 = n /\ (T + (n + 1)) - 1 = T + n
      BY <1>1, <2>2
    <3>2. /\ both[T + (n + 1)] = ReadChar(both[T + n], u[n + 1])
          /\ second[n + 1] = ReadChar(second[n], u[n + 1])
      BY <1>1, <1>2, <1>4, <3>1
    <3> QED
      BY <2>2, <3>1, <3>2
  <2> HIDE DEF S
  <2>3. 0 .. U \subseteq S
    <3>1. \A n \in 0 .. U : n \in S /\ n < U => n + 1 \in S
      BY <2>2
    <3> QED
      BY <1>1, <2>1, <3>1, CountsUp
  <2>4. U \in S
    BY <1>1, <2>3
  <2> QED
    BY <2>4 DEF S
<1>7. Read(start, tu) = both[T + U] /\ Read(Read(start, t), u) = second[U]
  BY <1>1 DEF both, second, Read
<1> QED
  BY <1>6, <1>7 DEF tu

-----------------------------------------------------------------------------
(***************************************************************************)
(* The reader's step at each kind of character.                            *)
(***************************************************************************)
\* The reader within quotes, and within an argument outside of them.
Inside(past, arg, slashes) ==
  [args |-> past, arg |-> arg, slashes |-> slashes, quoted |-> TRUE, started |-> TRUE]
Outside(past, arg, slashes) ==
  [args |-> past, arg |-> arg, slashes |-> slashes, quoted |-> FALSE, started |-> TRUE]

LEMMA CharactersDiffer ==
  Quote # Backslash /\ Space \notin {Quote, Backslash} /\ "\t" \notin {Quote, Backslash, Space}
BY DEF Quote, Backslash, Space

LEMMA BackslashRead ==
  ASSUME NEW past, NEW arg, NEW n \in Nat
  PROVE  /\ ReadChar(Inside(past, arg, n), Backslash) = Inside(past, arg, n + 1)
         /\ ReadChar(Outside(past, arg, n), Backslash) = Outside(past, arg, n + 1)
         /\ ReadChar(Between(past), Backslash) = Outside(past, <<>>, 1)
<1>1. ReadChar(Inside(past, arg, n), Backslash) = Inside(past, arg, n + 1)
  BY CharactersDiffer DEF ReadChar, Inside
<1>2. ReadChar(Outside(past, arg, n), Backslash) = Outside(past, arg, n + 1)
  BY CharactersDiffer DEF ReadChar, Outside
<1>3. ReadChar(Between(past), Backslash) = Outside(past, <<>>, 1)
  <2> DEFINE state == Between(past)
  <2>1. state.slashes + 1 = 1
    BY DEF Between
  <2> HIDE DEF state
  <2>2. ReadChar(state, Backslash) = [state EXCEPT !.slashes = 1, !.started = TRUE]
    BY <2>1, CharactersDiffer DEF ReadChar
  <2> QED
    BY <2>2 DEF state, Between, Outside
<1> QED
  BY <1>1, <1>2, <1>3

LEMMA OpeningQuoteRead ==
  ASSUME NEW past PROVE ReadChar(Between(past), Quote) = Inside(past, <<>>, 0)
<1> DEFINE state == Between(past)
<1>1. 0 \div 2 = 0 /\ 0 % 2 # 1 /\ <<>> \o <<>> = <<>> /\ Repeat(Backslash, 0) = <<>>
  BY DEF Repeat
<1>2. state.arg \o Repeat(Backslash, state.slashes \div 2) = <<>> /\ state.slashes % 2 # 1
  BY <1>1 DEF Between
<1>3. ReadChar(state, Quote)
        = [state EXCEPT !.arg = <<>>, !.quoted = ~@, !.slashes = 0, !.started = TRUE]
  <2> HIDE DEF state
  <2> QED
    BY <1>2, CharactersDiffer DEF ReadChar
<1> QED
  BY <1>3 DEF Between, Inside

\* After an odd number of backslashes a quote is a character.
LEMMA LiteralQuoteRead ==
  ASSUME NEW past, NEW arg, NEW n \in Nat
  PROVE  ReadChar(Inside(past, arg, 2 * n + 1), Quote)
           = Inside(past, arg \o Repeat(Backslash, n) \o <<Quote>>, 0)
<1> DEFINE state == Inside(past, arg, 2 * n + 1)
           half == arg \o Repeat(Backslash, n)
<1>1. (2 * n + 1) \div 2 = n /\ (2 * n + 1) % 2 = 1
  OBVIOUS
<1>2. state.arg \o Repeat(Backslash, state.slashes \div 2) = half /\ state.slashes % 2 = 1
  BY <1>1 DEF Inside
<1>3. ReadChar(state, Quote) = [state EXCEPT !.arg = half \o <<Quote>>, !.slashes = 0, !.started = TRUE]
  <2> HIDE DEF half, state
  <2> QED
    BY <1>2, CharactersDiffer DEF ReadChar
<1> HIDE DEF half
<1>4. ReadChar(state, Quote) = Inside(past, half \o <<Quote>>, 0)
  BY <1>3 DEF Inside
<1> QED
  BY <1>4 DEF half

\* After an even number it ends what is quoted.
LEMMA ClosingQuoteRead ==
  ASSUME NEW past, NEW arg, NEW n \in Nat
  PROVE  ReadChar(Inside(past, arg, 2 * n), Quote) = Outside(past, arg \o Repeat(Backslash, n), 0)
<1> DEFINE state == Inside(past, arg, 2 * n)
           half == arg \o Repeat(Backslash, n)
<1>1. (2 * n) \div 2 = n /\ (2 * n) % 2 # 1
  OBVIOUS
<1>2. state.arg \o Repeat(Backslash, state.slashes \div 2) = half /\ state.slashes % 2 # 1
  BY <1>1 DEF Inside
<1>3. ReadChar(state, Quote)
        = [state EXCEPT !.arg = half, !.quoted = ~@, !.slashes = 0, !.started = TRUE]
  <2> HIDE DEF half, state
  <2> QED
    BY <1>2, CharactersDiffer DEF ReadChar
<1> HIDE DEF half
<1>4. ReadChar(state, Quote) = Outside(past, half, 0)
  BY <1>3 DEF Inside, Outside
<1> QED
  BY <1>4 DEF half

\* A space ends the argument.
LEMMA SpaceRead ==
  ASSUME NEW past, NEW arg, NEW n \in Nat
  PROVE  ReadChar(Outside(past, arg, n), Space) = Between(Append(past, arg \o Repeat(Backslash, n)))
BY CharactersDiffer DEF ReadChar, Outside

LEMMA OtherInside ==
  ASSUME NEW past, NEW arg, NEW n \in Nat, NEW char, char \notin {Backslash, Quote}
  PROVE  ReadChar(Inside(past, arg, n), char) = Inside(past, Append(arg \o Repeat(Backslash, n), char), 0)
BY CharactersDiffer DEF ReadChar, Inside

LEMMA OtherOutside ==
  ASSUME NEW past, NEW arg, NEW n \in Nat, NEW char, char \notin {Backslash, Quote, Space, "\t"}
  PROVE  ReadChar(Outside(past, arg, n), char) = Outside(past, Append(arg \o Repeat(Backslash, n), char), 0)
BY CharactersDiffer DEF ReadChar, Outside

LEMMA OtherBegins ==
  ASSUME NEW past, NEW char, char \notin {Backslash, Quote, Space, "\t"}
  PROVE  ReadChar(Between(past), char) = Outside(past, <<char>>, 0)
<1> DEFINE kept == <<>> \o Repeat(Backslash, 0)
<1>1. Append(kept, char) = <<char>>
  BY DEF Repeat
<1>2. ReadChar(Between(past), char) = Outside(past, Append(kept, char), 0)
  BY CharactersDiffer DEF ReadChar, Outside, Between
<1> QED
  BY <1>1, <1>2

\* A run of backslashes is held back.
LEMMA RepeatGrows ==
  ASSUME NEW char, NEW n \in Nat
  PROVE  /\ Repeat(char, n) \in Seq({char}) /\ Len(Repeat(char, n)) = n
         /\ Repeat(char, 0) = <<>>
         /\ Append(Repeat(char, n), char) = Repeat(char, n + 1)
         /\ Repeat(char, n) \o <<char>> = Repeat(char, n + 1)
BY DEF Repeat

LEMMA BackslashesRead ==
  ASSUME NEW past, NEW arg, NEW n \in Nat
  PROVE  Read(Inside(past, arg, 0), Repeat(Backslash, n)) = Inside(past, arg, n)
<1> DEFINE start == Inside(past, arg, 0)
           S == {i \in 0 .. n : Read(start, Repeat(Backslash, i)) = Inside(past, arg, i)}
<1>1. 0 \in S
  <2>1. Repeat(Backslash, 0) = <<>>
    BY RepeatGrows
  <2>2. Read(start, Repeat(Backslash, 0)) = start
    BY <2>1, ReadNone
  <2>3. 0 \in 0 .. n
    OBVIOUS
  <2> QED
    BY <2>2, <2>3
<1>2. ASSUME NEW i \in 0 .. n, i \in S, i < n PROVE i + 1 \in S
  <2> DEFINE held == Repeat(Backslash, i)
             one == <<Backslash>>
             C == {Backslash}
  <2>1. i \in Nat
    OBVIOUS
  <2>2. held \o one = Repeat(Backslash, i + 1)
    BY <2>1, RepeatGrows
  <2>3. held \in Seq(C)
    BY <2>1, RepeatGrows
  <2>4. one \in Seq(C)
    OBVIOUS
  <2>5. Read(start, held) = Inside(past, arg, i)
    BY <1>2
  <2>6. \A state : Read(state, one) = ReadChar(state, Backslash)
    BY ReadOne
  <2>7. i + 1 \in 0 .. n
    BY <1>2
  <2> HIDE DEF start, held, one, C, S
  <2>8. Read(start, held \o one) = Read(Read(start, held), one)
    BY <2>3, <2>4, ReadJoined
  <2>9. ReadChar(Inside(past, arg, i), Backslash) = Inside(past, arg, i + 1)
    BY <2>1, BackslashRead
  <2>10. Read(start, Repeat(Backslash, i + 1)) = Inside(past, arg, i + 1)
    BY <2>2, <2>5, <2>6, <2>8, <2>9
  <2> QED
    BY <2>7, <2>10 DEF S
<1> HIDE DEF S
<1>3. \A i \in 0 .. n : i \in S /\ i < n => i + 1 \in S
  BY <1>2
<1>4. 0 .. n \subseteq S
  BY <1>1, <1>3, CountsUp
<1>5. n \in S
  BY <1>4
<1> QED
  BY <1>5 DEF S

-----------------------------------------------------------------------------
(***************************************************************************)
(* What the writer has written, as the reader sees it.                     *)
(***************************************************************************)
\* What is written of an argument between its quotes is read as that argument.
LEMMA ReadThree ==
  ASSUME NEW C, NEW start, NEW t \in Seq(C), NEW u \in Seq(C), NEW char \in C
  PROVE  Read(start, t \o u \o <<char>>) = ReadChar(Read(Read(start, t), u), char)
<1> DEFINE tu == t \o u
           one == <<char>>
<1>1. tu \in Seq(C) /\ one \in Seq(C)
  OBVIOUS
<1>2. Read(start, tu) = Read(Read(start, t), u)
  BY ReadJoined
<1>3. \A state : Read(state, one) = ReadChar(state, char)
  BY ReadOne
<1> HIDE DEF tu, one
<1>4. Read(start, tu \o one) = Read(Read(start, tu), one)
  BY <1>1, ReadJoined
<1> QED
  BY <1>2, <1>3, <1>4 DEF tu, one

LEMMA PrefixGrows ==
  ASSUME NEW C, NEW chars \in Seq(C), NEW n \in 0 .. Len(chars), n < Len(chars)
  PROVE  /\ SubSeq(chars, 1, n) \in Seq(C) /\ SubSeq(chars, 1, 0) = <<>>
         /\ SubSeq(chars, 1, n + 1) = Append(SubSeq(chars, 1, n), chars[n + 1])
         /\ chars[n + 1] \in C
         /\ SubSeq(chars, 1, Len(chars)) = chars
OBVIOUS

QuotedSoFar(C, arg, n) ==
  LET q == Quoting(arg)[n]
  IN /\ q \in [out : Seq(C), slashes : Nat]
     /\ \A past : \E x \in Seq(C) :
          /\ Read(Inside(past, <<>>, 0), q.out) = Inside(past, x, 0)
          /\ x \o Repeat(Backslash, q.slashes) = SubSeq(arg, 1, n)

LEMMA QuotedRead ==
  ASSUME NEW C, Quote \in C, Backslash \in C, NEW arg \in Seq(C)
  PROVE  QuotedSoFar(C, arg, Len(arg))
<1> DEFINE N == Len(arg)
           S == {n \in 0 .. N : QuotedSoFar(C, arg, n)}
<1>0. N \in Nat /\ Len(arg) \in Nat
  OBVIOUS
<1>7. \A s, t \in Seq(C) : Append(s \o t, Backslash) = s \o Append(t, Backslash)
  <2>1. \A c \in C : \A s, t \in Seq(C) : Append(s \o t, c) = s \o Append(t, c)
    OBVIOUS
  <2> QED
    BY <2>1
<1>8. \A past, x : \A m \in Nat : Read(Inside(past, x, 0), Repeat(Backslash, m)) = Inside(past, x, m)
  BY BackslashesRead
<1>9. \A c : c \notin {Backslash, Quote} => \A past, x : \A j \in Nat :
        ReadChar(Inside(past, x, j), c) = Inside(past, Append(x \o Repeat(Backslash, j), c), 0)
  BY OtherInside
<1>1. QuotedSoFar(C, arg, 0)
  <2>1. Quoting(arg)[0] = [out |-> <<>>, slashes |-> 0]
    BY <1>0, QuotingStep
  <2>2. SubSeq(arg, 1, 0) = <<>> /\ Repeat(Backslash, 0) = <<>> /\ <<>> \in Seq(C)
    <3>1. <<>> \in Seq(C) /\ SubSeq(arg, 1, 0) = <<>>
      OBVIOUS
    <3> QED
      BY <3>1, RepeatGrows
  <2>3. \A start : Read(start, <<>>) = start
    BY ReadNone
  <2>4. <<>> \o <<>> = <<>>
    OBVIOUS
  <2> DEFINE q == Quoting(arg)[0]
             none == <<>>
  <2>5. q \in [out : Seq(C), slashes : Nat] /\ q.out = none /\ q.slashes = 0
    BY <2>1, <2>2
  <2> HIDE DEF q
  <2>6. \A past : Read(Inside(past, <<>>, 0), q.out) = Inside(past, none, 0)
    BY <2>3, <2>5
  <2>7. none \o Repeat(Backslash, q.slashes) = SubSeq(arg, 1, 0) /\ none \in Seq(C)
    BY <2>2, <2>4, <2>5
  <2> HIDE DEF none
  <2> QED
    BY <2>5, <2>6, <2>7 DEF QuotedSoFar, q
<1>2. ASSUME NEW n \in 0 .. N, n < N, QuotedSoFar(C, arg, n) PROVE QuotedSoFar(C, arg, n + 1)
  <2> DEFINE char == arg[n + 1]
             q == Quoting(arg)[n]
             next == Quoting(arg)[n + 1]
             k == q.slashes
             out == q.out
             soFar == SubSeq(arg, 1, n)
  <2>1. next = QuoteChar(q, char)
    <3>1. n + 1 \in 1 .. Len(arg) /\ (n + 1) - 1 = n
      BY <1>0, <1>2
    <3> QED
      BY <1>0, <3>1, QuotingStep
  <2>2. q \in [out : Seq(C), slashes : Nat] /\ q = [out |-> out, slashes |-> k] /\ out \in Seq(C) /\ k \in Nat
    BY <1>2 DEF QuotedSoFar
  <2>3. char \in C /\ SubSeq(arg, 1, n + 1) = Append(soFar, char) /\ soFar \in Seq(C)
    BY <1>2, PrefixGrows
  <2>4. \A past : \E x \in Seq(C) :
          /\ Read(Inside(past, <<>>, 0), out) = Inside(past, x, 0)
          /\ x \o Repeat(Backslash, k) = soFar
    BY <1>2 DEF QuotedSoFar
  <2>5. \A m \in Nat : Repeat(Backslash, m) \in Seq(C)
    <3> SUFFICES ASSUME NEW m \in Nat PROVE Repeat(Backslash, m) \in Seq(C)
      OBVIOUS
    <3> QED
      BY DEF Repeat
  <2> HIDE DEF char, next, q, k, out, soFar
  <2>6. CASE char = Backslash
    <3>1. next = [out |-> out, slashes |-> k + 1]
      BY <2>1, <2>2, <2>6 DEF QuoteChar
    <3>2. next.out = out /\ next.slashes = k + 1 /\ next \in [out : Seq(C), slashes : Nat]
      BY <2>2, <3>1
    <3>3. ASSUME NEW x \in Seq(C), x \o Repeat(Backslash, k) = soFar
          PROVE  x \o Repeat(Backslash, k + 1) = Append(soFar, Backslash)
      <4> DEFINE held == Repeat(Backslash, k)
      <4>1. Append(held, Backslash) = Repeat(Backslash, k + 1) /\ held \in Seq(C)
        BY <2>2, <2>5, RepeatGrows
      <4> HIDE DEF held
      <4>2. held \in Seq(C)
        BY <4>1
      <4>3. Append(x \o held, Backslash) = x \o Append(held, Backslash)
        BY <1>7, <4>2
      <4> QED
        BY <3>3, <4>1, <4>3 DEF held
    <3>4. \A past : \E x \in Seq(C) :
            /\ Read(Inside(past, <<>>, 0), out) = Inside(past, x, 0)
            /\ x \o Repeat(Backslash, k + 1) = Append(soFar, Backslash)
      BY <2>4, <3>3
    <3> QED
      BY <2>3, <2>6, <3>2, <3>4 DEF QuotedSoFar, next
  <2>7. CASE char = Quote
    <3> DEFINE held == Repeat(Backslash, 2 * k + 1)
    <3>1. next = [out |-> out \o held \o <<char>>, slashes |-> 0]
      BY <2>1, <2>2, <2>7, CharactersDiffer DEF QuoteChar
    <3>2. held \in Seq(C)
      BY <2>2, <2>5
    <3> HIDE DEF held
    <3>3. out \o held \o <<char>> \in Seq(C)
      BY <2>2, <2>3, <3>2
    <3>4. next.out = out \o held \o <<char>> /\ next.slashes = 0 /\ next \in [out : Seq(C), slashes : Nat]
      BY <3>1, <3>3
    <3>5. ASSUME NEW past, NEW x \in Seq(C), x \o Repeat(Backslash, k) = soFar,
                 Read(Inside(past, <<>>, 0), out) = Inside(past, x, 0)
          PROVE  Read(Inside(past, <<>>, 0), next.out) = Inside(past, Append(soFar, char), 0)
      <4> DEFINE start == Inside(past, <<>>, 0)
                 y == soFar \o <<Quote>>
      <4>1. Read(Inside(past, x, 0), held) = Inside(past, x, 2 * k + 1)
        <5>1. 2 * k + 1 \in Nat
          BY <2>2
        <5> QED
          BY <1>8, <5>1 DEF held
      <4>2. ReadChar(Inside(past, x, 2 * k + 1), Quote) = Inside(past, y, 0)
        BY <2>2, <3>5, LiteralQuoteRead
      <4>3. y = Append(soFar, char)
        BY <2>3, <2>7
      <4> HIDE DEF start
      <4>4. Read(start, out \o held \o <<char>>) = ReadChar(Read(Read(start, out), held), char)
        BY <2>2, <2>3, <3>2, ReadThree
      <4> QED
        BY <2>7, <3>4, <3>5, <4>1, <4>2, <4>3, <4>4 DEF start
    <3>6. Append(soFar, char) \in Seq(C) /\ Append(soFar, char) \o Repeat(Backslash, 0) = Append(soFar, char)
      <4>1. Append(soFar, char) \in Seq(C) /\ Append(soFar, char) \o <<>> = Append(soFar, char)
        BY <2>3
      <4>2. Repeat(Backslash, 0) = <<>>
        BY RepeatGrows
      <4> QED
        BY <4>1, <4>2
    <3>7. \A past : \E x \in Seq(C) :
            /\ Read(Inside(past, <<>>, 0), next.out) = Inside(past, x, 0)
            /\ x \o Repeat(Backslash, 0) = Append(soFar, char)
      BY <2>4, <3>5, <3>6
    <3> QED
      BY <2>3, <3>4, <3>7 DEF QuotedSoFar, next
  <2>8. CASE char \notin {Backslash, Quote}
    <3> DEFINE held == Repeat(Backslash, k)
    <3>1. next = [out |-> out \o held \o <<char>>, slashes |-> 0]
      BY <2>1, <2>2, <2>8 DEF QuoteChar
    <3>2. held \in Seq(C)
      BY <2>2, <2>5
    <3> HIDE DEF held
    <3>3. out \o held \o <<char>> \in Seq(C)
      BY <2>2, <2>3, <3>2
    <3>4. next.out = out \o held \o <<char>> /\ next.slashes = 0 /\ next \in [out : Seq(C), slashes : Nat]
      BY <3>1, <3>3
    <3>5. ASSUME NEW past, NEW x \in Seq(C), x \o Repeat(Backslash, k) = soFar,
                 Read(Inside(past, <<>>, 0), out) = Inside(past, x, 0)
          PROVE  Read(Inside(past, <<>>, 0), next.out) = Inside(past, Append(soFar, char), 0)
      <4> DEFINE start == Inside(past, <<>>, 0)
      <4>1. Read(Inside(past, x, 0), held) = Inside(past, x, k)
        <5>1. k \in Nat
          BY <2>2
        <5> QED
          BY <1>8, <5>1 DEF held
      <4>2. ReadChar(Inside(past, x, k), char) = Inside(past, Append(soFar, char), 0)
        <5>1. ReadChar(Inside(past, x, k), char)
                = Inside(past, Append(x \o Repeat(Backslash, k), char), 0)
          BY <1>9, <2>2, <2>8
        <5> QED
          BY <3>5, <5>1
      <4> HIDE DEF start
      <4>4. Read(start, out \o held \o <<char>>) = ReadChar(Read(Read(start, out), held), char)
        BY <2>2, <2>3, <3>2, ReadThree
      <4> QED
        BY <3>4, <3>5, <4>1, <4>2, <4>4 DEF start
    <3>6. Append(soFar, char) \in Seq(C) /\ Append(soFar, char) \o Repeat(Backslash, 0) = Append(soFar, char)
      <4>1. Append(soFar, char) \in Seq(C) /\ Append(soFar, char) \o <<>> = Append(soFar, char)
        BY <2>3
      <4>2. Repeat(Backslash, 0) = <<>>
        BY RepeatGrows
      <4> QED
        BY <4>1, <4>2
    <3>7. \A past : \E x \in Seq(C) :
            /\ Read(Inside(past, <<>>, 0), next.out) = Inside(past, x, 0)
            /\ x \o Repeat(Backslash, 0) = Append(soFar, char)
      BY <2>4, <3>5, <3>6
    <3> QED
      BY <2>3, <3>4, <3>7 DEF QuotedSoFar, next
  <2> QED
    BY <2>6, <2>7, <2>8
<1>3. N \in S
  <2>1. \A n \in 0 .. N : n \in S /\ n < N => n + 1 \in S
    BY <1>0, <1>2
  <2>2. 0 \in S
    BY <1>0, <1>1
  <2> HIDE DEF S
  <2>3. 0 .. N \subseteq S
    BY <1>0, <2>1, <2>2, CountsUp
  <2> QED
    BY <1>0, <2>3
<1> QED
  BY <1>3

\* An argument that needs no quotes is read as it stands.
PlainSoFar(C, past, arg, n) ==
  \E x \in Seq(C), k \in Nat :
    /\ Reading(Between(past), arg)[n] = Outside(past, x, k)
    /\ x \o Repeat(Backslash, k) = SubSeq(arg, 1, n)

LEMMA PlainRead ==
  ASSUME NEW C, Backslash \in C, NEW past, NEW arg \in Seq(C), ~NeedsQuoting(arg)
  PROVE  PlainSoFar(C, past, arg, Len(arg))
<1> DEFINE N == Len(arg)
           state == Reading(Between(past), arg)
           S == {n \in 1 .. N : PlainSoFar(C, past, arg, n)}
<1>0. N \in Nat /\ Len(arg) \in Nat /\ 1 <= N
  <2>1. arg # <<>>
    BY DEF NeedsQuoting
  <2> QED
    BY <2>1
<1>1. \A n \in 1 .. N : arg[n] \notin {Space, "\t", Quote}
  BY DEF NeedsQuoting, Contains
<1>2. state[0] = Between(past) /\ \A n \in 1 .. N : state[n] = ReadChar(state[n - 1], arg[n])
  BY <1>0, ReadingStep
<1>3. \A n \in 0 .. N : n < N => /\ SubSeq(arg, 1, n) \in Seq(C) /\ SubSeq(arg, 1, 0) = <<>>
                                /\ SubSeq(arg, 1, n + 1) = Append(SubSeq(arg, 1, n), arg[n + 1])
                                /\ arg[n + 1] \in C
  BY PrefixGrows
<1>4. Repeat(Backslash, 0) = <<>> /\ \A k \in Nat : Append(Repeat(Backslash, k), Backslash) = Repeat(Backslash, k + 1)
  BY RepeatGrows
<1>5. \A k \in Nat : Repeat(Backslash, k) \in Seq(C)
  BY DEF Repeat
<1>6. \A s, t \in Seq(C) : Append(s \o t, Backslash) = s \o Append(t, Backslash)
  <2>1. \A c \in C : \A s, t \in Seq(C) : Append(s \o t, c) = s \o Append(t, c)
    OBVIOUS
  <2> QED
    BY <2>1
<1>7. \A x : \A k \in Nat : ReadChar(Outside(past, x, k), Backslash) = Outside(past, x, k + 1)
  BY BackslashRead
<1>8. \A c : c \notin {Backslash, Quote, Space, "\t"} => \A x : \A k \in Nat :
        ReadChar(Outside(past, x, k), c) = Outside(past, Append(x \o Repeat(Backslash, k), c), 0)
  BY OtherOutside
<1>9. PlainSoFar(C, past, arg, 1)
  <2> DEFINE char == arg[1]
             none == <<>>
             one == <<char>>
  <2>1. state[1] = ReadChar(Between(past), char)
    <3>1. 1 \in 1 .. N /\ 1 - 1 = 0
      BY <1>0
    <3>2. state[1] = ReadChar(state[1 - 1], arg[1])
      BY <1>2, <3>1
    <3> QED
      BY <1>2, <3>1, <3>2
  <2>2. SubSeq(arg, 1, 1) = <<char>> /\ char \in C
    <3>1. 0 \in 0 .. N /\ 0 < N /\ 0 + 1 = 1
      BY <1>0
    <3>2. SubSeq(arg, 1, 0) = <<>> /\ SubSeq(arg, 1, 0 + 1) = Append(SubSeq(arg, 1, 0), arg[0 + 1]) /\ arg[0 + 1] \in C
      BY <1>3, <3>1
    <3>3. Append(<<>>, char) = <<char>>
      OBVIOUS
    <3> QED
      BY <3>1, <3>2, <3>3
  <2>3. CASE char = Backslash
    <3>1. state[1] = Outside(past, none, 1)
      BY <2>1, <2>3, BackslashRead
    <3>2. none \in Seq(C) /\ none \o Repeat(Backslash, 1) = <<Backslash>>
      BY DEF Repeat
    <3> HIDE DEF none, state
    <3>3. \E x \in Seq(C), k \in Nat : state[1] = Outside(past, x, k) /\ x \o Repeat(Backslash, k) = SubSeq(arg, 1, 1)
      BY <2>2, <2>3, <3>1, <3>2
    <3> QED
      BY <3>3 DEF PlainSoFar, state
  <2>4. CASE char # Backslash
    <3>1. char \notin {Backslash, Quote, Space, "\t"}
      BY <1>0, <1>1, <2>4
    <3>2. state[1] = Outside(past, one, 0)
      BY <2>1, <3>1, OtherBegins
    <3>3. one \in Seq(C) /\ one \o <<>> = <<char>>
      BY <2>2
    <3>4. one \o Repeat(Backslash, 0) = <<char>>
      BY <1>4, <3>3
    <3> HIDE DEF one, state
    <3>5. \E x \in Seq(C), k \in Nat : state[1] = Outside(past, x, k) /\ x \o Repeat(Backslash, k) = SubSeq(arg, 1, 1)
      BY <2>2, <3>2, <3>3, <3>4
    <3> QED
      BY <3>5 DEF PlainSoFar, state
  <2> QED
    BY <2>3, <2>4
<1>10. ASSUME NEW n \in 1 .. N, n < N, PlainSoFar(C, past, arg, n) PROVE PlainSoFar(C, past, arg, n + 1)
  <2> DEFINE char == arg[n + 1]
             soFar == SubSeq(arg, 1, n)
  <2>1. PICK x \in Seq(C), k \in Nat : state[n] = Outside(past, x, k) /\ x \o Repeat(Backslash, k) = soFar
    BY <1>10 DEF PlainSoFar
  <2> HIDE DEF state
  <2>2. state[n + 1] = ReadChar(state[n], char)
    <3>1. n + 1 \in 1 .. N /\ (n + 1) - 1 = n
      BY <1>10
    <3>2. state[n + 1] = ReadChar(state[(n + 1) - 1], arg[n + 1])
      BY <1>2, <3>1
    <3> QED
      BY <3>1, <3>2
  <2>3. soFar \in Seq(C) /\ SubSeq(arg, 1, n + 1) = Append(soFar, char) /\ char \in C
    BY <1>3, <1>10
  <2> HIDE DEF soFar
  <2>4. CASE char = Backslash
    <3> DEFINE held == Repeat(Backslash, k)
    <3>1. state[n + 1] = Outside(past, x, k + 1)
      BY <1>7, <2>1, <2>2, <2>4
    <3>2. Append(held, Backslash) = Repeat(Backslash, k + 1) /\ held \in Seq(C)
      BY <1>4, <1>5
    <3>3. x \o Repeat(Backslash, k + 1) = Append(soFar, Backslash)
      <4> HIDE DEF held
      <4>1. held \in Seq(C)
        BY <3>2
      <4>2. Append(x \o held, Backslash) = x \o Append(held, Backslash)
        BY <1>6, <4>1
      <4> QED
        BY <2>1, <3>2, <4>2 DEF held
    <3>4. k + 1 \in Nat
      OBVIOUS
    <3>5. \E y \in Seq(C), j \in Nat : state[n + 1] = Outside(past, y, j) /\ y \o Repeat(Backslash, j) = SubSeq(arg, 1, n + 1)
      BY <2>3, <2>4, <3>1, <3>3, <3>4
    <3> QED
      BY <3>5 DEF PlainSoFar, state
  <2>5. CASE char # Backslash
    <3> DEFINE y == Append(soFar, char)
    <3>1. char \notin {Backslash, Quote, Space, "\t"}
      <4>1. n + 1 \in 1 .. N
        BY <1>10
      <4> QED
        BY <1>1, <2>5, <4>1
    <3>2. state[n + 1] = Outside(past, Append(x \o Repeat(Backslash, k), char), 0)
      BY <1>8, <2>1, <2>2, <3>1
    <3>3. state[n + 1] = Outside(past, y, 0)
      BY <2>1, <3>2
    <3>4. y \in Seq(C) /\ y \o <<>> = y
      BY <2>3
    <3> HIDE DEF y
    <3>5. \E z \in Seq(C), j \in Nat : state[n + 1] = Outside(past, z, j) /\ z \o Repeat(Backslash, j) = SubSeq(arg, 1, n + 1)
      <4>1. y \o Repeat(Backslash, 0) = SubSeq(arg, 1, n + 1)
        BY <1>4, <2>3, <3>4 DEF y
      <4> QED
        BY <3>3, <3>4, <4>1
    <3> QED
      BY <3>5 DEF PlainSoFar, state
  <2> QED
    BY <2>4, <2>5
<1>11. N \in S
  <2> HIDE DEF state
  <2>1. \A n \in 1 .. N : n \in S /\ n < N => n + 1 \in S
    BY <1>0, <1>10
  <2>2. 1 \in S
    BY <1>0, <1>9
  <2> HIDE DEF S
  <2>3. 1 .. N \subseteq S
    BY <1>0, <2>1, <2>2, CountsUp
  <2> QED
    BY <1>0, <2>3
<1> QED
  BY <1>11

\* What is written of an argument is read as that argument, up to the space after it.
LEMMA ArgumentRead ==
  ASSUME NEW C, Quote \in C, Backslash \in C, NEW past, NEW arg \in Seq(C)
  PROVE  /\ QuoteArgument(arg) \in Seq(C)
         /\ ReadChar(Read(Between(past), QuoteArgument(arg)), Space) = Between(Append(past, arg))
<1>0. SubSeq(arg, 1, Len(arg)) = arg
  OBVIOUS
<1>1. CASE ~NeedsQuoting(arg)
  <2>1. PICK x \in Seq(C), k \in Nat :
          Read(Between(past), arg) = Outside(past, x, k) /\ x \o Repeat(Backslash, k) = arg
    <3>1. PlainSoFar(C, past, arg, Len(arg))
      BY <1>1, PlainRead
    <3> QED
      BY <1>0, <3>1 DEF PlainSoFar, Read
  <2>2. ReadChar(Outside(past, x, k), Space) = Between(Append(past, x \o Repeat(Backslash, k)))
    BY SpaceRead
  <2>3. QuoteArgument(arg) = arg
    BY <1>1 DEF QuoteArgument
  <2> QED
    BY <2>1, <2>2, <2>3
<1>2. CASE NeedsQuoting(arg)
  <2> DEFINE body == Quoting(arg)[Len(arg)]
             k == body.slashes
             out == body.out
             held == Repeat(Backslash, 2 * k)
             open == <<Quote>>
             first == open \o out
             start == Between(past)
  <2>0. QuotedSoFar(C, arg, Len(arg))
    BY QuotedRead
  <2>1. body \in [out : Seq(C), slashes : Nat]
    BY <2>0 DEF QuotedSoFar
  <2>2. PICK x \in Seq(C) : Read(Inside(past, <<>>, 0), out) = Inside(past, x, 0) /\ x \o Repeat(Backslash, k) = arg
    BY <1>0, <2>0 DEF QuotedSoFar
  <2>3. QuoteArgument(arg) = first \o held \o open
    BY <1>2 DEF QuoteArgument
  <2>4. out \in Seq(C) /\ k \in Nat /\ open \in Seq(C)
    BY <2>1
  <2> HIDE DEF body, k, out
  <2>5. held \in Seq(C) /\ first \in Seq(C)
    BY <2>4 DEF Repeat
  <2>6. Read(start, open) = Inside(past, <<>>, 0)
    BY ReadOne, OpeningQuoteRead
  <2>7. Read(Inside(past, x, 0), held) = Inside(past, x, 2 * k)
    <3>1. 2 * k \in Nat
      BY <2>4
    <3>2. \A m \in Nat : Read(Inside(past, x, 0), Repeat(Backslash, m)) = Inside(past, x, m)
      BY BackslashesRead
    <3> QED
      BY <3>1, <3>2
  <2>8. ReadChar(Inside(past, x, 2 * k), Quote) = Outside(past, arg, 0)
    <3>1. ReadChar(Inside(past, x, 2 * k), Quote) = Outside(past, x \o Repeat(Backslash, k), 0)
      BY <2>4, ClosingQuoteRead
    <3> QED
      BY <2>2, <3>1
  <2>9. ReadChar(Outside(past, arg, 0), Space) = Between(Append(past, arg))
    <3>1. arg \o <<>> = arg /\ 0 \in Nat
      OBVIOUS
    <3>2. Repeat(Backslash, 0) = <<>>
      BY RepeatGrows
    <3>3. ReadChar(Outside(past, arg, 0), Space) = Between(Append(past, arg \o Repeat(Backslash, 0)))
      BY <3>1, SpaceRead
    <3> QED
      BY <3>1, <3>2, <3>3
  <2>10. Read(start, first) = Inside(past, x, 0)
    <3> HIDE DEF open, start
    <3>1. Read(start, open \o out) = Read(Read(start, open), out)
      BY <2>4, ReadJoined
    <3> QED
      BY <2>2, <2>6, <3>1
  <2>11. QuoteArgument(arg) \in Seq(C)
    <3> HIDE DEF first, held, open
    <3> QED
      BY <2>3, <2>4, <2>5
  <2>12. Read(start, QuoteArgument(arg)) = Outside(past, arg, 0)
    <3> HIDE DEF first, held, start
    <3>1. Read(start, first \o held \o <<Quote>>) = ReadChar(Read(Read(start, first), held), Quote)
      BY <2>5, ReadThree
    <3> QED
      BY <2>3, <2>7, <2>8, <2>10, <3>1
  <2> QED
    BY <2>9, <2>11, <2>12
<1> QED
  BY <1>1, <1>2

\* buildCommandLine is undone by the reader of the child, whatever the arguments are: any
\* number of them, empty ones, spaces, quotes and backslashes in any order.
THEOREM CommandLineRead ==
  ASSUME NEW C, Quote \in C, Backslash \in C, Space \in C, NEW argv \in Seq(Seq(C)), argv # <<>>
  PROVE  ReadCommandLine(BuildCommandLine(argv)) = argv
<1> DEFINE N == Len(argv)
           line == Lines(argv)
           start == Between(<<>>)
           Good(n) == /\ line[n] \in Seq(C)
                      /\ ReadChar(Read(start, line[n]), Space) = Between(SubSeq(argv, 1, n))
           S == {n \in 1 .. N : Good(n)}
<1>0. N \in Nat \ {0} /\ Len(argv) \in Nat \ {0}
  OBVIOUS
<1>1. \A n \in 0 .. N : n < N => /\ SubSeq(argv, 1, 0) = <<>> /\ argv[n + 1] \in Seq(C)
                                /\ SubSeq(argv, 1, n + 1) = Append(SubSeq(argv, 1, n), argv[n + 1])
  BY PrefixGrows
<1>2. /\ line[1] = QuoteArgument(argv[1])
      /\ \A n \in 2 .. N : line[n] = line[n - 1] \o <<Space>> \o QuoteArgument(argv[n])
  BY <1>0, LinesStep
<1>3. \A arg \in Seq(C) : \A past :
        /\ QuoteArgument(arg) \in Seq(C)
        /\ ReadChar(Read(Between(past), QuoteArgument(arg)), Space) = Between(Append(past, arg))
  BY ArgumentRead
<1>4. Good(1)
  <2>1. 0 \in 0 .. N /\ 0 < N /\ 0 + 1 = 1
    BY <1>0
  <2>2. argv[1] \in Seq(C) /\ SubSeq(argv, 1, 1) = Append(<<>>, argv[1])
    BY <1>1, <2>1
  <2> QED
    BY <1>2, <1>3, <2>2
<1>5. ASSUME NEW n \in 1 .. N, n < N, Good(n) PROVE Good(n + 1)
  <2> DEFINE arg == argv[n + 1]
             quoted == QuoteArgument(arg)
             sep == <<Space>>
             before == line[n]
             past == SubSeq(argv, 1, n)
  <2>1. line[n + 1] = before \o sep \o quoted
    <3>1. n + 1 \in 2 .. N /\ (n + 1) - 1 = n
      BY <1>5
    <3> QED
      BY <1>2, <3>1
  <2>2. arg \in Seq(C) /\ SubSeq(argv, 1, n + 1) = Append(past, arg)
    <3>1. n \in 0 .. N /\ n < N
      BY <1>5
    <3> QED
      BY <1>1, <3>1
  <2>3. before \in Seq(C) /\ sep \in Seq(C) /\ ReadChar(Read(start, before), Space) = Between(past)
    BY <1>5
  <2>4. quoted \in Seq(C) /\ ReadChar(Read(Between(past), quoted), Space) = Between(Append(past, arg))
    BY <1>3, <2>2
  <2>5. \A state : Read(state, sep) = ReadChar(state, Space)
    BY ReadOne
  <2> HIDE DEF arg, quoted, sep, before, past, start, line
  <2>6. Read(start, before \o sep) = Between(past)
    <3>1. Read(start, before \o sep) = Read(Read(start, before), sep)
      BY <2>3, ReadJoined
    <3> QED
      BY <2>3, <2>5, <3>1
  <2>7. Read(start, line[n + 1]) = Read(Between(past), quoted)
    <3> DEFINE t == before \o sep
    <3>1. t \in Seq(C)
      BY <2>3
    <3> HIDE DEF t
    <3>2. Read(start, t \o quoted) = Read(Read(start, t), quoted)
      BY <2>4, <3>1, ReadJoined
    <3> QED
      BY <2>1, <2>6, <3>2 DEF t
  <2>8. line[n + 1] \in Seq(C)
    BY <2>1, <2>3, <2>4
  <2> QED
    BY <2>2, <2>4, <2>7, <2>8
<1>6. Good(N)
  <2> HIDE DEF Good
  <2>1. \A n \in 1 .. N : n \in S /\ n < N => n + 1 \in S
    BY <1>0, <1>5
  <2>2. 1 \in S
    BY <1>0, <1>4
  <2> HIDE DEF S
  <2>3. 1 .. N \subseteq S
    BY <1>0, <2>1, <2>2, CountsUp
  <2>4. N \in S
    BY <1>0, <2>3
  <2> QED
    BY <2>4 DEF S
<1>7. SubSeq(argv, 1, N) = argv /\ BuildCommandLine(argv) = line[N]
  BY DEF BuildCommandLine
<1> DEFINE last == line[N]
<1>8. last \in Seq(C) /\ ReadChar(Read(start, last), Space) = Between(argv)
  BY <1>6, <1>7
<1> HIDE DEF last, start
<1>9. Read(start, Append(last, Space)) = Between(argv)
  <2> DEFINE sep == <<Space>>
  <2>1. sep \in Seq(C) /\ Append(last, Space) = last \o sep
    BY <1>8
  <2>2. \A state : Read(state, sep) = ReadChar(state, Space)
    BY ReadOne
  <2> HIDE DEF sep
  <2>3. sep \in Seq(C)
    BY <2>1
  <2>4. Read(start, last \o sep) = Read(Read(start, last), sep)
    BY <1>8, <2>3, ReadJoined
  <2> QED
    BY <1>8, <2>1, <2>2, <2>4
<1>10. ReadCommandLine(last) = Read(start, Append(last, Space)).args
  BY DEF ReadCommandLine, Read, start
<1> QED
  BY <1>7, <1>9, <1>10 DEF last, Between

-----------------------------------------------------------------------------
(***************************************************************************)
(* Values on the command line.                                             *)
(***************************************************************************)
LEMMA SpelledSurvives == RequestInvariant => ValuesSurviveCommandLine
<1> SUFFICES ASSUME stage = "spelled", text \in Texts
             PROVE  \A argv \in {<<<<"s">>, text>>, <<<<"s">>, text, <<"-">>, text>>} :
                      ReadCommandLine(BuildCommandLine(argv)) = argv
  BY DEF ValuesSurviveCommandLine, RequestInvariant, DocumentScope
<1> DEFINE C == STRING \cup {Quote, Backslash, Space, "s", "-"}
<1>1. text \in Seq(STRING)
  BY TextsAreSpelled
<1>2. text \in Seq(C)
  BY <1>1
<1>3. <<"s">> \in Seq(C) /\ <<"-">> \in Seq(C) /\ Quote \in C /\ Backslash \in C /\ Space \in C
  OBVIOUS
<1> HIDE DEF C
<1>4. \A argv \in Seq(Seq(C)) : argv # <<>> => ReadCommandLine(BuildCommandLine(argv)) = argv
  BY <1>3, CommandLineRead
<1>5. ASSUME NEW s \in Seq(C), NEW d \in Seq(C), NEW t \in Seq(C)
      PROVE  /\ ReadCommandLine(BuildCommandLine(<<s, t>>)) = <<s, t>>
             /\ ReadCommandLine(BuildCommandLine(<<s, t, d, t>>)) = <<s, t, d, t>>
  <2> DEFINE two == <<s, t>>
             four == <<s, t, d, t>>
  <2>1. two \in Seq(Seq(C)) /\ two # <<>> /\ four \in Seq(Seq(C)) /\ four # <<>>
    OBVIOUS
  <2> HIDE DEF two, four
  <2>2. ReadCommandLine(BuildCommandLine(two)) = two /\ ReadCommandLine(BuildCommandLine(four)) = four
    BY <1>4, <2>1
  <2> QED
    BY <2>2 DEF two, four
<1> DEFINE scanimage == <<"s">>
           dash == <<"-">>
<1>6. scanimage \in Seq(C) /\ dash \in Seq(C)
  BY <1>3
<1> HIDE DEF scanimage, dash
<1>7. /\ ReadCommandLine(BuildCommandLine(<<scanimage, text>>)) = <<scanimage, text>>
      /\ ReadCommandLine(BuildCommandLine(<<scanimage, text, dash, text>>)) = <<scanimage, text, dash, text>>
  BY <1>2, <1>5, <1>6
<1> QED
  BY <1>7 DEF scanimage, dash

\* ValuesSurviveCommandLine: whatever a driver calls its values, quotes and backslashes in
\* any order included, scanimage reads what process/command_line.cpp was given.
THEOREM ValuesSurviveAlways == Spec => []ValuesSurviveCommandLine
BY RequestInvariantHolds, SpelledSurvives, PTL
=============================================================================
