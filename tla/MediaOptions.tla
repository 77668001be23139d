---------------------------- MODULE MediaOptions ----------------------------
(***************************************************************************)
(* From a request and an option dump to the arguments of scanimage:        *)
(* resolveMedia (sane/media.cpp) says how to talk to this device,          *)
(* validateExactOptions (sane/validate.cpp) refuses what cannot be done    *)
(* exactly, makeScanimageArgs (sane/args.cpp) writes the command line.     *)
(*                                                                         *)
(* The arguments are a function from the options named on the command line *)
(* to their values; their order is left out.  A request o is a record of   *)
(* the fields of ScanOptions, with backend for the driver its scannerID    *)
(* names and area in tenths of a millimetre.                               *)
(***************************************************************************)
EXTENDS Capabilities

PickModeValue(values, colorMode) == FirstSaying(colorMode, values)

\* epson2 develops nothing itself: no colour correction, and a gamma of 1.
EpsonRawColorCorrection(dump) ==
  FirstSaying("none", ConstraintEnumValues(dump, "color-correction"))

EpsonRawGammaCorrection(dump) ==
  LET values == ConstraintEnumValues(dump, "gamma-correction")
  IN OrElse(FirstSaying("gamma=1.0", values), FirstSaying("user defined", values))

\* A genesys film scanner has nothing to choose, so its first dump already describes the scan.
CanReuseSinglePassOptionsDump(dump, backend) ==
  LET sources == EnumValues(dump, "source")
      plain   == {i \in DOMAIN sources : ~IsInfraredValue(sources[i])}
  IN backend = "genesys" /\ \E i \in plain : plain = {i} /\ IsTransparencySource(sources[i])

CapabilityDumpMode(dump) ==
  OrElse(PickModeValue(EnumValues(dump, "mode"), "color"),
         PickModeValue(EnumValues(dump, "mode"), "gray"))

\* The mode the token vouches for: what is selected now, or Color on a film scanner
\* without a mode.
ValidatedColorMode(dump, typeIsFilm, backend) ==
  LET selected == SelectedEnumValue(dump, "mode")
  IN IF selected # None
       THEN IF Says("color", The(selected)) THEN Some("color")
            ELSE IF Says("gray", The(selected)) THEN Some("gray") ELSE None
     ELSE IF ~IsActive(dump, "mode") /\ (typeIsFilm \/ backend \in DedicatedFilmBackends)
       THEN Some("color")
     ELSE None

\* The settings under which the capabilities are read again, as optional values; a dump
\* that needs none of them is final.
CapabilityRedumpArguments(dump, backend) ==
  LET source == PreferredTransparencySource(EnumValues(dump, "source"))
      mode   == IF source # None \/ (HasOption(dump, "depth") /\ ~IsActive(dump, "depth"))
                  THEN CapabilityDumpMode(dump) ELSE None
      chosen == OrElse(mode, SelectedEnumValue(dump, "mode"))
      isColor == chosen # None /\ Says("color", The(chosen))
  IN [source |-> source, mode |-> mode,
      colorCorrection |-> IF backend = "epson2" /\ isColor
                            THEN EpsonRawColorCorrection(dump) ELSE None,
      gammaCorrection |-> IF backend = "epson2" THEN EpsonRawGammaCorrection(dump) ELSE None]

-----------------------------------------------------------------------------
(* resolveMedia, one operator per question it answers.                      *)

ResolvedSource(dump) ==
  LET sources == EnumValues(dump, "source")
  IN OrElse(PreferredTransparencySource(sources), FirstAt(sources, DOMAIN sources))

\* 16 bits are asked for as 16, or as the largest depth above 8.
DepthArgument(dump, bitDepth) ==
  LET tokens == {t \in ToSet(IntTokens(dump, "depth")) : t >= 8}
      deepest == {t \in tokens : t > 8 /\ \A u \in tokens : u <= t}
  IN IF bitDepth \in tokens THEN Some(bitDepth)
     ELSE IF bitDepth = 16 /\ deepest # {} THEN Some(CHOOSE t \in deepest : TRUE) ELSE None

\* Never the nearest resolution: the one asked for, or none.
ResolvedDPI(dump, dpi) ==
  LET spec == ResolutionSpec(dump)
  IN IF dpi > 0 /\ (dpi \in spec.list \/ InRange(spec.range, dpi)) THEN Some(dpi) ELSE None

NoGeometry == [originX |-> None, originY |-> None, width |-> None, height |-> None,
               aligned |-> 0]

\* A device measured in millimetres.
MillimetreGeometry(dump, o) ==
  LET range(name) == RangeWithUnit(dump, name, "mm")
      keep(name, v) == IF InRange(range(name), v) THEN Some(v) ELSE None
      whole   == InRange(range("x"), o.area.width) /\ InRange(range("y"), o.area.height)
      top     == IF range("t") = None THEN 0 ELSE The(range("t")).minimum
      aligned == IF whole /\ o.backend = "epson2"
                   THEN Epson2AlignedHeight(o.area.y, o.area.height, The(range("y")),
                                            top + The(range("y")).maximum)
                   ELSE o.area.height
  IN [originX |-> keep("l", o.area.x), originY |-> keep("t", o.area.y),
      width   |-> IF whole THEN Some(o.area.width) ELSE None,
      height  |-> IF whole THEN Some(aligned) ELSE None,
      aligned |-> aligned - o.area.height]

\* A device whose -x and -y are pixels at the resolution of the scan.
PixelGeometry(dump, o) ==
  LET pixels(name, tenths) ==
        LET range == RangeWithUnit(dump, name, "pel")
        IN IF range = None THEN None ELSE PixelGeometryValue(tenths, o.dpi, The(range))
  IN [originX |-> pixels("l", o.area.x), originY |-> pixels("t", o.area.y),
      width   |-> pixels("x", o.area.width), height |-> pixels("y", o.area.height),
      aligned |-> 0]

MaximumResolution(dump) ==
  LET spec == ResolutionSpec(dump)
  IN IF spec.kind = "range" THEN Some(The(spec.range).maximum)
     ELSE IF spec.kind = "none" THEN None
     ELSE Some(CHOOSE v \in spec.list : \A w \in spec.list : w <= v)

\* A device told the corners, in pixels at its largest resolution; width and height are
\* here the right and the bottom pixel.  All four fit, or none is given.
CornerGeometry(dump, o) ==
  LET unit == MaximumResolution(dump)
      range(name) == RangeWithUnit(dump, name, "pel")
  IN IF unit = None \/ \E name \in {"tl-x", "tl-y", "br-x", "br-y"} : range(name) = None
       THEN NoGeometry
     ELSE LET left   == PixelGeometryValue(o.area.x, The(unit), The(range("tl-x")))
              top    == PixelGeometryValue(o.area.y, The(unit), The(range("tl-y")))
              width  == PixelGeometryLength(o.area.width, The(unit))
              height == PixelGeometryLength(o.area.height, The(unit))
          IN IF None \in {left, top, width, height} THEN NoGeometry
             ELSE LET right  == The(left) + The(width) - 1
                      bottom == The(top) + The(height) - 1
                  IN IF InRange(range("br-x"), right) /\ InRange(range("br-y"), bottom)
                       THEN [originX |-> left, originY |-> top, width |-> Some(right),
                             height |-> Some(bottom), aligned |-> 0]
                       ELSE NoGeometry

\* The first kind whose ranges the device shows is the only one that is tried.
GeometryKind(dump, o) ==
  LET positive(name) == LET r == RangeWithUnit(dump, name, "mm")
                        IN IF r = None THEN FALSE ELSE The(r).maximum > 0
      inPixels(name) == RangeWithUnit(dump, name, "pel") # None
  IN IF positive("x") /\ positive("y") THEN "mm"
     ELSE IF o.dpi > 0 /\ inPixels("x") /\ inPixels("y") THEN "pel"
     ELSE "corners"

Geometry(dump, o) ==
  LET kind == GeometryKind(dump, o)
  IN IF kind = "mm" THEN MillimetreGeometry(dump, o)
     ELSE IF kind = "pel" THEN PixelGeometry(dump, o)
     ELSE CornerGeometry(dump, o)

FilmTypeOptionName(dump) ==
  LET names == <<"film-type", "type", "negative">>
  IN FirstAt(names, {i \in DOMAIN names : IsActive(dump, names[i])})

\* A device that inverts is always told not to; otherwise the polarity of the film, and
\* not as a slide where there is a choice: epson2 lists that value and refuses it.
FilmType(dump, o) ==
  LET name == FilmTypeOptionName(dump)
      raw  == o.backend = "coolscan" /\ name = Some("type")
      polarity == IF raw THEN "positive" ELSE o.film
      values   == EnumValues(dump, The(name))
      matches  == {i \in DOMAIN values : Says(polarity, values[i])}
      source   == ResolvedSource(dump)
  IN IF name = None THEN None
     ELSE IF \E s \in ToSet(source) : ~IsTransparencySource(s) THEN None
     ELSE IF name = Some("negative") /\ o.backend \in {"coolscan2", "coolscan3"}
       THEN Some({"no"})
     ELSE OrElse(FirstAt(values, {i \in matches : ~Says("slide", values[i])}),
                 FirstAt(values, matches))

\* Infrared comes as a file of its own, from a source or else from a mode.
InfraredStrategy(dump, o) ==
  LET source == FirstSaying("infrared", EnumValues(dump, "source"))
      mode   == FirstSaying("infrared", EnumValues(dump, "mode"))
  IN IF ~o.infrared THEN [kind |-> "none", value |-> {}]
     ELSE IF source # None THEN [kind |-> "source", value |-> The(source)]
     ELSE IF mode # None THEN [kind |-> "mode", value |-> The(mode)]
     ELSE [kind |-> "none", value |-> {}]

\* genesys keeps its own tone curve at 16 bits.
SupportsTone(o) == ~(o.backend = "genesys" /\ o.bitDepth = 16)

ResolveMedia(dump, o, typeIsFilm) ==
  LET active(name) == IsActive(dump, name)
      tone(name)   == IF SupportsTone(o) THEN NumericRange(dump, name) ELSE None
      ifEpson(name, value) == IF o.backend = "epson2" /\ active(name) THEN value ELSE None
  IN [source          |-> ResolvedSource(dump),
      mode            |-> PickModeValue(EnumValues(dump, "mode"), o.colorMode),
      irPassMode      |-> PickModeValue(EnumValues(dump, "mode"), "gray"),
      colorCorrection |-> ifEpson("color-correction", EpsonRawColorCorrection(dump)),
      gammaCorrection |-> ifEpson("gamma-correction", EpsonRawGammaCorrection(dump)),
      fixedDepth      |-> FixedDepth(dump, o.backend),
      depth           |-> DepthArgument(dump, o.bitDepth),
      dpi             |-> ResolvedDPI(dump, o.dpi),
      geometryKind    |-> GeometryKind(dump, o),
      geometry        |-> Geometry(dump, o),
      filmTypeOption  |-> FilmTypeOptionName(dump),
      filmType        |-> FilmType(dump, o),
      left            |-> RangeWithUnit(dump, "l", "mm"),
      top             |-> RangeWithUnit(dump, "t", "mm"),
      width           |-> RangeWithUnit(dump, "x", "mm"),
      height          |-> RangeWithUnit(dump, "y", "mm"),
      infrared        |-> InfraredStrategy(dump, o),
      brightness      |-> tone("brightness"),
      contrast        |-> tone("contrast"),
      exposure        |-> NumericRange(dump, "scan-exposure-time"),
      focus           |-> NumericRange(dump, "focus"),
      dedicated       |-> DedicatedFilmDevice(dump, typeIsFilm, o.backend),
      options         |-> {name \in {"preview", "mode", "depth", "advance", "autofocus",
                                     "color-correction", "gamma-correction",
                                     "scan-exposure-time"} : active(name)}
                          \cup {name \in {"brightness", "contrast"} :
                                  SupportsTone(o) /\ active(name)}]

-----------------------------------------------------------------------------
(* validateExactOptions: a conjunct for each check, in the code's order.    *)

AdjustmentIsExact(value, range) ==
  \/ value = None
  \/ The(value) = 0 /\ range = None
  \/ InRange(range, The(value))

DepthIsExact(o, m) ==
  IF m.fixedDepth # None THEN The(m.fixedDepth) = o.bitDepth
  ELSE /\ "depth" \in m.options /\ m.depth # None
       /\ IF o.bitDepth = 8 THEN The(m.depth) = 8 ELSE The(m.depth) > 8

ModeIsExact(o, m) ==
  IF "mode" \in m.options /\ m.mode # None THEN Says(o.colorMode, The(m.mode))
  ELSE m.dedicated /\ o.colorMode = "color"

AtOrigin(o) == o.area.x = 0 /\ o.area.y = 0

\* Mutant of MillimetresAreExact: the origin is not added to the size.
MillimetresAreExactAtOrigin(o, m) ==
  LET height == o.area.height + m.geometry.aligned
  IN /\ InRange(m.width, o.area.width) /\ InRange(m.height, height)
     /\ m.geometry.width = Some(o.area.width) /\ m.geometry.height = Some(height)

\* The area is on the surface: both sizes are legal, and so are the origin and the far edges.
MillimetresAreExact(o, m) ==
  LET height == o.area.height + m.geometry.aligned
      lowest(range) == IF range = None THEN 0 ELSE The(range).minimum
  IN /\ InRange(m.width, o.area.width) /\ InRange(m.height, height)
     /\ -10 <= m.geometry.aligned /\ m.geometry.aligned <= 10
     /\ m.geometry.width = Some(o.area.width) /\ m.geometry.height = Some(height)
     /\ IF m.left # None /\ m.top # None
          THEN /\ InRange(m.left, o.area.x) /\ InRange(m.top, o.area.y)
               /\ m.geometry.originX = Some(o.area.x) /\ m.geometry.originY = Some(o.area.y)
          ELSE AtOrigin(o)
     /\ o.area.x + o.area.width <= lowest(m.left) + The(m.width).maximum
     /\ o.area.y + height <= lowest(m.top) + The(m.height).maximum

GeometryIsExact(o, m) ==
  LET g == m.geometry
      sized   == g.width # None /\ g.height # None
      located == g.originX # None /\ g.originY # None
  IN IF m.geometryKind = "corners" /\ sized THEN located
     ELSE IF m.geometryKind = "pel" /\ sized THEN located \/ AtOrigin(o)
     ELSE IF o.dpi = 0 /\ m.dedicated THEN AtOrigin(o)
     ELSE MillimetresAreExact(o, m)

ExposureIsExact(o, m) ==
  LET legal(t) == "scan-exposure-time" \in m.options /\ InRange(m.exposure, t)
  IN /\ o.exposure # None => legal(The(o.exposure))
     /\ o.multiExposure =>
          /\ o.colorMode = "color" /\ o.bitDepth = 16
          /\ \A t \in HardwareExposureTimes : legal(t)

ValidateExactOptions(o, m) ==
  /\ IF o.dpi = 0 THEN "preview" \in m.options ELSE m.dpi = Some(o.dpi)
  /\ DepthIsExact(o, m)
  /\ ModeIsExact(o, m)
  /\ m.source # None => IsTransparencySource(The(m.source))
  /\ m.filmTypeOption # None => m.filmType # None
  /\ o.backend = "pieusb" => "advance" \in m.options
  /\ o.backend = "epson2" =>
       /\ "color-correction" \in m.options => m.colorCorrection # None
       /\ "gamma-correction" \in m.options => m.gammaCorrection # None
  /\ GeometryIsExact(o, m)
  /\ AdjustmentIsExact(o.brightness, m.brightness)
  /\ AdjustmentIsExact(o.contrast, m.contrast)
  /\ ExposureIsExact(o, m)
  /\ o.infrared => m.infrared.kind # "none"

-----------------------------------------------------------------------------
(* makeScanimageArgs                                                        *)

Arg(name, optional) == [n \in (IF optional = None THEN {} ELSE {name}) |-> The(optional)]

\* The arguments of a, and those of b with another name.
a ++ b == [n \in DOMAIN a \cup DOMAIN b |-> IF n \in DOMAIN a THEN a[n] ELSE b[n]]

\* Autofocus wins over a position, and a position switches autofocus off.
FocusArguments(o, m) ==
  IF o.autofocus /\ "autofocus" \in m.options THEN Arg("autofocus", Some(TRUE))
  ELSE IF o.focus = None \/ m.focus = None THEN <<>>
  ELSE Arg("focus", o.focus)
       ++ (IF "autofocus" \in m.options THEN Arg("autofocus", Some(FALSE)) ELSE <<>>)

GeometryArguments(m) ==
  LET g == m.geometry
      corners == m.geometryKind = "corners"
      both(a, va, b, vb) == IF va = None \/ vb = None THEN <<>> ELSE Arg(a, va) ++ Arg(b, vb)
  IN IF corners
       THEN both("tl-x", g.originX, "tl-y", g.originY) ++ both("br-x", g.width, "br-y", g.height)
       ELSE both("l", g.originX, "t", g.originY) ++ both("x", g.width, "y", g.height)

\* What only the picture needs: the infrared pass is a measurement.
MainArguments(o, m) ==
  LET given(name, optional) == IF name \in m.options THEN Arg(name, optional) ELSE <<>>
  IN (IF o.backend = "pieusb" THEN given("advance", Some({"no"})) ELSE <<>>)
     ++ given("color-correction", m.colorCorrection)
     ++ (IF m.filmTypeOption = None THEN <<>> ELSE Arg(The(m.filmTypeOption), m.filmType))
     ++ given("brightness", o.brightness)
     ++ given("contrast", o.contrast)
     ++ given("scan-exposure-time", o.exposure)
     ++ (IF o.dpi = 0 THEN given("preview", Some(TRUE)) ELSE <<>>)

\* The infrared pass changes the source or the mode, and keeps the pixel grid.
MakeScanimageArgs(o, m, pass) ==
  LET ir == pass = "infrared"
      source == IF ir /\ m.infrared.kind = "source" THEN Some(m.infrared.value) ELSE m.source
      mode   == IF ir /\ m.infrared.kind = "source" THEN OrElse(m.irPassMode, m.mode)
                ELSE IF ir /\ m.infrared.kind = "mode" THEN Some(m.infrared.value)
                ELSE m.mode
  IN Arg("source", source) ++ Arg("mode", mode)
     ++ Arg("gamma-correction", m.gammaCorrection)
     ++ FocusArguments(o, m)
     ++ (IF ir THEN <<>> ELSE MainArguments(o, m))
     ++ Arg("resolution", m.dpi) ++ Arg("depth", m.depth)
     ++ GeometryArguments(m)
=============================================================================
