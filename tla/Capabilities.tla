---------------------------- MODULE Capabilities ----------------------------
(***************************************************************************)
(* What the adapter tells the host a scanner can do: sane/capabilities.cpp *)
(* reads one option dump, together with the backend and whether the device *)
(* list calls the device a film scanner (typeIsFilm).  Words that are only *)
(* shown, the disabled reasons, are left out.                              *)
(***************************************************************************)
EXTENDS OptionDump

\* The exposures of a multi-exposure scan; every one of them has to be a legal value.
HardwareExposureTimes == {11000, 14000, 30000}

\* The candidates shown of a resolution range.
StandardResolutions == {100, 150, 300, 600, 1200, 2400, 3200, 3600, 4800, 6400, 7200, 9600, 12800}

IsTransparencySource(s) == Says("transparency", s)
IsInfraredValue(s) == Says("infrared", s)

\* The film holder before the 8x10 guide, and an infrared source only where nothing else is.
PreferredTransparencySource(sources) ==
  LET visible == {i \in DOMAIN sources : IsTransparencySource(sources[i]) /\ ~IsInfraredValue(sources[i])}
  IN OrElse(FirstAt(sources, {i \in visible : ~Says("8x10", sources[i])}),
            OrElse(FirstAt(sources, visible),
                   FirstSaying("transparency", sources)))

\* The one depth of a device whose --depth cannot be set.
FixedDepth(dump, backend) ==
  LET tokens == ConstraintIntTokens(dump, "depth")
  IN IF ~HasOption(dump, "depth")
       THEN IF backend \in {"epson2", "pie"} THEN Some(8) ELSE None
     ELSE IF IsActive(dump, "depth") \/ Len(tokens) # 1 \/ tokens[1] < 8 THEN None
     ELSE Some(IF tokens[1] = 8 THEN 8 ELSE 16)

DedicatedFilmBackends == {"coolscan", "coolscan2", "coolscan3", "pie", "pieusb"}

\* Film is all such a device scans: it has no source to choose.
DedicatedFilmDevice(dump, typeIsFilm, backend) ==
  ~IsActive(dump, "source") /\ (typeIsFilm \/ backend \in DedicatedFilmBackends)

SupportsHardwareExposure(dump) ==
  \A t \in HardwareExposureTimes : InRange(NumericRange(dump, "scan-exposure-time"), t)

SupportedResolutions(dump) ==
  LET spec == ResolutionSpec(dump)
  IN IF spec.kind # "range" THEN spec.list
     ELSE {v \in StandardResolutions \cup {The(spec.range).maximum} : InRange(spec.range, v)}

SupportedBitDepths(dump, backend) ==
  LET tokens == ToSet(IntTokens(dump, "depth"))
      chosen == {d \in {8} : d \in tokens} \cup {d \in {16} : \E t \in tokens : t > 8}
  IN IF chosen # {} THEN chosen ELSE ToSet(FixedDepth(dump, backend))

SupportedModes(dump, typeIsFilm, backend) ==
  LET modes == {m \in {"color", "gray"} : \E v \in ToSet(EnumValues(dump, "mode")) : Says(m, v)}
  IN IF modes = {} /\ DedicatedFilmDevice(dump, typeIsFilm, backend) THEN {"color"} ELSE modes

MinimumPositiveScanDimension(range) ==
  LET atMost(v) == IF v < range.maximum THEN v ELSE range.maximum
  IN IF range.minimum > 0 THEN range.minimum ELSE atMost(IF range.step > 0 THEN range.step ELSE 1)

\* An area is reported in millimetres or not at all; its origin is the corner of the surface.
ScanAreas(dump) ==
  LET x == RangeWithUnit(dump, "x", "mm")
      y == RangeWithUnit(dump, "y", "mm")
      lowest(name) == LET r == RangeWithUnit(dump, name, "mm")
                      IN IF r = None THEN 0 ELSE The(r).minimum
      area(w, h) == [x |-> lowest("l"), y |-> lowest("t"), width |-> w, height |-> h]
  IN IF x = None \/ y = None THEN {}
     ELSE IF The(x).maximum <= 0 \/ The(y).maximum <= 0 THEN {}
     ELSE {area(MinimumPositiveScanDimension(The(x)), MinimumPositiveScanDimension(The(y))),
           area(The(x).maximum, The(y).maximum)}

\* Only a flatbed with a transparency unit says that an area may be placed.
SupportsPositionedScanArea(dump) ==
  LET sources == ToSet(EnumValues(dump, "source"))
  IN /\ ScanAreas(dump) # {}
     /\ \E s \in sources : IsTransparencySource(s)
     /\ \E s \in sources : ~IsTransparencySource(s) /\ ~IsInfraredValue(s)
     /\ RangeWithUnit(dump, "l", "mm") # None
     /\ RangeWithUnit(dump, "t", "mm") # None

ParseCapabilities(dump, typeIsFilm, backend) ==
  LET sources == ToSet(EnumValues(dump, "source"))
      modes   == ToSet(EnumValues(dump, "mode"))
  IN [resolutions   |-> SupportedResolutions(dump),
      modes         |-> SupportedModes(dump, typeIsFilm, backend),
      bitDepths     |-> SupportedBitDepths(dump, backend),
      preview       |-> IsActive(dump, "preview"),
      transparency  |-> \/ \E s \in sources : IsTransparencySource(s)
                        \/ DedicatedFilmDevice(dump, typeIsFilm, backend),
      infrared      |-> \E v \in sources \cup modes : IsInfraredValue(v),
      multiExposure |-> SupportsHardwareExposure(dump),
      areas         |-> ScanAreas(dump),
      positioned    |-> SupportsPositionedScanArea(dump),
      brightness    |-> NumericRange(dump, "brightness"),
      contrast      |-> NumericRange(dump, "contrast"),
      exposure      |-> NumericRange(dump, "scan-exposure-time"),
      originX       |-> RangeWithUnit(dump, "l", "mm"),
      originY       |-> RangeWithUnit(dump, "t", "mm")]
=============================================================================
