---------------------------- MODULE ScanRequest -----------------------------
(***************************************************************************)
(* What the host asks, up to the first call of scanimage.  `capabilities`  *)
(* settles a device and reads what it can do; `scan` decodes a JSON        *)
(* document (wire/parse.cpp), checks it (wire/request.cpp), settles the    *)
(* device for it and writes the arguments of the passes (MediaOptions).    *)
(*                                                                         *)
(* A document is the sequence of its members [key, node] and what the      *)
(* tokenizer would refuse it for.  A number node says how its literal is   *)
(* written: an integer of 32 bits ("int", also 16.0), a wider one ("wide") *)
(* or a fraction.  Every refusal of the decoder reads the same, so the     *)
(* order of its checks is left out.                                        *)
(***************************************************************************)
EXTENDS MediaOptions, CommandLine

CONSTANTS Devices,     \* scanners: backend, typeIsFilm, and the dumps they show (see below)
          Documents,   \* what a host may write on standard input
          Texts        \* how a driver may spell the value of an option

-----------------------------------------------------------------------------
(* What OptionDump and the tokenizer hand over, and what a driver shows: the  *)
(* first and the third of these say what the parsers produce, the second says *)
(* what the drivers behind scanimage do.                                      *)

Values == SUBSET STRING
Ranges == [minimum : Int, maximum : Int, step : Int]

\* The values of a switch, "[=(yes|no)]", are in brackets, which ends the constraint.
Switches == {"preview", "advance", "autofocus", "negative"}

\* A constraint is read as one of three.
IsParsed(line) ==
  /\ line.values \in Seq(Values) /\ line.ints \in Seq(Int) /\ line.range \in Seq(Ranges)
  /\ Len(line.range) <= 1
  /\ line.values # <<>> => line.ints = <<>> /\ line.range = None
  /\ line.ints # <<>> => line.range = None
  /\ line.name \in Switches => line.values = <<>> /\ line.ints = <<>> /\ line.range = None

\* The settings a scan reads the options under: the colour mode and the depth where the
\* device can be told them, and whether it is a preview.
ScanSettings ==
  [mode : {None, Some("color"), Some("gray")}, depth : {None, Some(8), Some(16)}, preview : BOOLEAN]

\* What a scanner may show: before and after the settings of the capabilities, and under the
\* settings of a scan.
DumpsOf(d) == {d.before, d.after} \cup {d.shows[s] : s \in ScanSettings}

ASSUME DevicesAreParsed ==
  \A d \in Devices : \A dump \in DumpsOf(d) :
    DOMAIN dump \subseteq Nat /\ \A i \in DOMAIN dump : IsParsed(dump[i])

\* A tone is a range, never a list; resolutions are positive; no range of a length or of a
\* position is empty or starts before the surface.
IsShown(line) ==
  /\ line.name \in {"brightness", "contrast"} => line.values = <<>> /\ line.ints = <<>>
  /\ line.name = "resolution" =>
       /\ \A v \in ToSet(line.ints) : v > 0
       /\ \A r \in ToSet(line.range) : r.maximum > 0
  /\ line.name \in {"l", "t", "x", "y"} =>
       \A r \in ToSet(line.range) : 0 <= r.minimum /\ r.minimum <= r.maximum

ASSUME DriversShowRanges ==
  \A d \in Devices : \A dump \in DumpsOf(d) : \A i \in DOMAIN dump : IsShown(dump[i])

\* Lengths are tenths of a millimetre, whole numbers; so is any other number.
NumbersAreWhole(members) ==
  /\ DOMAIN members \subseteq Nat
  /\ \A i \in DOMAIN members : members[i].node.kind = "number" => members[i].node.value \in Int

ASSUME DocumentsAreRead ==
  \A d \in Documents :
    /\ NumbersAreWhole(d.members)
    /\ \A i \in DOMAIN d.members :
         d.members[i].node.kind = "object" => NumbersAreWhole(d.members[i].node.parts)

ASSUME TextsAreSpelled == Texts \subseteq Seq(STRING)

-----------------------------------------------------------------------------
VARIABLES stage,       \* how far the command has come
          doc,         \* the document of `scan`
          device,      \* the scanner, once it is settled
          text,        \* the spelling of a value that goes on the command line
          reply,       \* how the command was refused, if it was
          args         \* the arguments of the main and of the infrared pass

vars == <<stage, doc, device, text, reply, args>>

-----------------------------------------------------------------------------
(* wire/parse.cpp                                                           *)

\* The members of an object, and the components of a string that is a path, are the parts.
Node(kind, value) == [kind |-> kind, literal |-> "int", value |-> value, parts |-> <<>>]
Number(literal, value) == [Node("number", value) EXCEPT !.literal = literal]
Composed(kind, value, parts) == [Node(kind, value) EXCEPT !.parts = parts]

\* The first member of a key counts; the product refuses a second one anyway.
FindMember(members, key) ==
  LET found == FirstAt(members, {i \in DOMAIN members : members[i].key = key})
  IN IF found = None THEN None ELSE Some(The(found).node)

Duplicates(members) == \E i, j \in DOMAIN members : i < j /\ members[i].key = members[j].key

\* Size, depth, string length and item count are limited while the document is read.
Tokenize(d) ==
  /\ d.refused = {}
  /\ ~Duplicates(d.members)
  /\ \A i \in DOMAIN d.members :
       d.members[i].node.kind = "object" => ~Duplicates(d.members[i].node.parts)

Fits(type, node) ==
  CASE type = "int32"  -> node.kind = "number" /\ node.literal = "int"
    [] type = "double" -> node.kind = "number" /\ node.literal # "outside"
    [] type = "bool"   -> node.kind = "bool"
    [] type = "string" -> node.kind = "string"
    [] type = "uuid"   -> node.kind = "string" /\ node.value # "malformed"
    [] type = "area"   -> node.kind = "object"

RequiredFields ==
  [protocolVersion |-> "int32", requestID |-> "uuid", deviceID |-> "string",
   resolutionDPI |-> "int32", bitDepth |-> "int32", colorMode |-> "string",
   filmType |-> "string", preview |-> "bool", multiExposure |-> "bool", infrared |-> "bool",
   scanArea |-> "area", outputRawTIFF |-> "bool", outputPath |-> "string"]

OptionalFields ==
  [brightnessAdjustment |-> "double", contrastAdjustment |-> "double",
   hardwareExposureTime |-> "int32", autofocus |-> "bool", focusPosition |-> "int32",
   capabilityToken |-> "string"]

\* Absent and null are the same for an optional field, and both are an error for a required one.
OptionalMember(members, key) ==
  LET found == FindMember(members, key)
  IN IF found # None /\ The(found).kind = "null" THEN None ELSE found

Decodes(members, required, optional) ==
  /\ \A key \in DOMAIN required :
       \E node \in ToSet(OptionalMember(members, key)) : Fits(required[key], node)
  /\ \A key \in DOMAIN optional :
       \A node \in ToSet(OptionalMember(members, key)) : Fits(optional[key], node)

AreaRequired == [widthMM |-> "double", heightMM |-> "double"]
AreaOptional == [originXMM |-> "double", originYMM |-> "double"]

Member(d, key) == The(FindMember(d.members, key))
AreaMembers(d) == Member(d, "scanArea").parts

ParseScanRequest(d) ==
  /\ Tokenize(d)
  /\ Decodes(d.members, RequiredFields, OptionalFields)
  /\ Decodes(AreaMembers(d), AreaRequired, AreaOptional)

EnvelopeFields == [protocolVersion |-> "int32", requestID |-> "uuid"]

\* Mutant of ParseEnvelope: the envelope is read as strictly as the request.
ParseEnvelopeStrict(d) ==
  IF ParseScanRequest(d)
    THEN [version |-> OptionalMember(d.members, "protocolVersion"),
          id |-> OptionalMember(d.members, "requestID")]
    ELSE [version |-> None, id |-> None]

\* Of a document that is no request the envelope may still be read: who asked, in which version.
ParseEnvelope(d) ==
  IF Tokenize(d) /\ Decodes(d.members, <<>>, EnvelopeFields)
    THEN [version |-> OptionalMember(d.members, "protocolVersion"),
          id |-> OptionalMember(d.members, "requestID")]
    ELSE [version |-> None, id |-> None]

-----------------------------------------------------------------------------
(* wire/request.cpp                                                         *)

\* An output path is its prefix and its components, each plain or of a kind that is refused:
\* empty, ".", "..", ending in a dot or a space, naming a stream or a device, or with a
\* character no file name holds.
AcceptableOutputPath(path) ==
  path.value = "drive" /\ path.parts # <<>> /\ ToSet(path.parts) = {"plain"}

Value0(d, key, default) ==
  LET node == OptionalMember(d.members, key)
  IN IF node = None THEN default ELSE The(node).value

Optional(d, key) ==
  LET node == OptionalMember(d.members, key)
  IN IF node = None THEN None ELSE Some(The(node).value)

Millimetres(d, key) ==
  LET node == OptionalMember(AreaMembers(d), key)
  IN IF node = None THEN 0 ELSE The(node).value

\* The ScanOptions of a request.  backend is what the device name starts with.
Options(d) ==
  [backend       |-> Value0(d, "deviceID", ""),
   dpi           |-> Value0(d, "resolutionDPI", 0),
   bitDepth      |-> Value0(d, "bitDepth", 0),
   colorMode     |-> Value0(d, "colorMode", ""),
   film          |-> Value0(d, "filmType", ""),
   area          |-> [x |-> Millimetres(d, "originXMM"), y |-> Millimetres(d, "originYMM"),
                      width |-> Millimetres(d, "widthMM"), height |-> Millimetres(d, "heightMM")],
   preview       |-> Value0(d, "preview", FALSE),
   infrared      |-> Value0(d, "infrared", FALSE),
   multiExposure |-> Value0(d, "multiExposure", FALSE),
   exposure      |-> Optional(d, "hardwareExposureTime"),
   brightness    |-> Optional(d, "brightnessAdjustment"),
   contrast      |-> Optional(d, "contrastAdjustment"),
   autofocus     |-> Value0(d, "autofocus", FALSE),
   focus         |-> Optional(d, "focusPosition"),
   raw           |-> Value0(d, "outputRawTIFF", FALSE),
   token         |-> Optional(d, "capabilityToken")]

\* A preview asks for nothing that a preview does not do, and a full scan says all it needs.
PreviewOrFull(o) ==
  IF o.preview
    THEN o.dpi = 0 /\ ~o.infrared /\ ~o.multiExposure /\ o.exposure = None /\ ~o.raw
    ELSE o.dpi > 0 /\ o.raw /\ ~(o.multiExposure /\ o.exposure # None)

OptionsAreSound(o) ==
  /\ o.backend # "blank"
  /\ o.bitDepth \in {8, 16}
  /\ o.colorMode \in {"color", "gray"}
  /\ o.film \in {"negative", "positive"}
  /\ o.area.x >= 0 /\ o.area.y >= 0 /\ o.area.width > 0 /\ o.area.height > 0
  /\ o.exposure # None => The(o.exposure) > 0
  /\ ~(o.autofocus /\ o.focus # None)
  /\ o.focus # None => The(o.focus) >= 0
  /\ o.token # Some("too large")
  /\ PreviewOrFull(o)

ValidateScanRequest(d) ==
  /\ Member(d, "protocolVersion").value = 2
  /\ AcceptableOutputPath(Member(d, "outputPath"))
  /\ OptionsAreSound(Options(d))

-----------------------------------------------------------------------------
(* The two commands.                                                        *)

\* The dump the capabilities are read from: taken again when settings change what it says.
SettledDump(d) ==
  LET redump == CapabilityRedumpArguments(d.before, d.backend)
  IN IF \A setting \in DOMAIN redump : redump[setting] = None THEN d.before ELSE d.after

\* The mode the settled dump was taken in, which a token carries along.
TokenVouches(d, colorMode) ==
  ValidatedColorMode(SettledDump(d), d.typeIsFilm, d.backend) = Some(colorMode)

\* The settings the options are read under for a scan, chosen by the settled dump.  The source
\* is chosen by it alone; the resolution is left out: no option comes or goes with its value.
SettingsOf(dump, o) ==
  LET told(optional, setting) == IF optional = None THEN None ELSE Some(setting)
  IN [mode    |-> told(PickModeValue(EnumValues(dump, "mode"), o.colorMode), o.colorMode),
      depth   |-> told(DepthArgument(dump, o.bitDepth), o.bitDepth),
      preview |-> o.dpi = 0 /\ IsActive(dump, "preview")]

ScanSpecificDump(d, o) == d.shows[SettingsOf(SettledDump(d), o)]

\* Mutant of ReusesDump: the dump of a token serves in every mode.
ReusesDumpInAnyMode(d, o) ==
  o.token # None \/ CanReuseSinglePassOptionsDump(SettledDump(d), d.backend)

\* The dump of a token serves in the mode it was taken in; without a token the options are
\* read again, but not on a genesys scanner with nothing to choose.
ReusesDump(d, o) ==
  IF o.token # None THEN TokenVouches(d, o.colorMode)
  ELSE CanReuseSinglePassOptionsDump(SettledDump(d), d.backend)

ScanDump(d, o) == IF ReusesDump(d, o) THEN SettledDump(d) ELSE ScanSpecificDump(d, o)

Media(d, o) == ResolveMedia(ScanDump(d, o), o, d.typeIsFilm)

\* What the code takes for granted where it reuses a dump in its mode (backend.cpp:735):
\* there neither the depth nor a preview makes the scanner show anything else.
ShowsByMode(d) ==
  LET dump == SettledDump(d)
  IN \A colorMode \in {"color", "gray"} : TokenVouches(d, colorMode) =>
       \A s \in ScanSettings :
         s.mode = (IF IsActive(dump, "mode") THEN Some(colorMode) ELSE None) => d.shows[s] = dump

ASSUME DriversShowByMode == \A d \in Devices : ShowsByMode(d)

NoDocument == [refused |-> {}, members |-> <<>>]
NoDevice == [backend |-> "none"]
NoArgs == [main |-> <<>>, infrared |-> <<>>]

Init ==
  /\ \/ stage = "described" /\ doc = NoDocument /\ device \in Devices /\ text = <<>>
     \/ stage = "read" /\ doc \in Documents /\ device = NoDevice /\ text = <<>>
     \/ stage = "spelled" /\ doc = NoDocument /\ device = NoDevice /\ text \in Texts
  /\ reply = [channel |-> "none", id |-> None]
  /\ args = NoArgs

Refuse(channel, id) ==
  /\ stage' = "refused"
  /\ reply' = [channel |-> channel, id |-> id]
  /\ UNCHANGED <<doc, device, text, args>>

\* runScan decodes the document, or answers with the envelope it can still read.
ParseRequest ==
  /\ stage = "read"
  /\ LET envelope == ParseEnvelope(doc)
         known == /\ \E node \in ToSet(envelope.version) : node.value = 2
                  /\ envelope.id # None
     IN IF ParseScanRequest(doc)
          THEN stage' = "decoded" /\ UNCHANGED <<doc, device, text, reply, args>>
          ELSE IF known THEN Refuse("stdout", Some(The(envelope.id).value))
          ELSE Refuse("stderr", None)

RequestID == Some(Member(doc, "requestID").value)

ValidateRequest ==
  /\ stage = "decoded"
  /\ IF ValidateScanRequest(doc)
       THEN stage' = "valid" /\ UNCHANGED <<doc, device, text, reply, args>>
       ELSE Refuse("stdout", RequestID)

\* A token of another scanner, or one that cannot be decoded, is refused.
TokenIsUsable(o) == o.token \in {None, Some("own")}

\* resolveValidatedMedia, and then the arguments of the passes.
ResolveRequest ==
  /\ stage = "valid"
  /\ \E o \in {Options(doc)} :
     \E d \in {x \in Devices : x.backend = o.backend} :
     \E m \in {Media(d, o)} :
       IF TokenIsUsable(o) /\ ValidateExactOptions(o, m)
         THEN /\ stage' = "scanning" /\ device' = d
              /\ args' = [main |-> MakeScanimageArgs(o, m, "main"),
                          infrared |-> MakeScanimageArgs(o, m, "infrared")]
              /\ UNCHANGED <<doc, text, reply>>
         ELSE Refuse("stdout", RequestID)

Next == ParseRequest \/ ValidateRequest \/ ResolveRequest

Spec == Init /\ [][Next]_vars

-----------------------------------------------------------------------------
(* Properties.                                                              *)

\* A document of protocol 2 with a readable id is answered under that id on the wire,
\* whatever else is wrong with it: main.cpp:284 falls back on the envelope for that.
AnswersUnderItsId ==
  (stage = "refused" /\ Tokenize(doc)) =>
    \A version \in ToSet(FindMember(doc.members, "protocolVersion")),
       id \in ToSet(FindMember(doc.members, "requestID")) :
      (Fits("int32", version) /\ version.value = 2 /\ Fits("uuid", id)) =>
        reply = [channel |-> "stdout", id |-> Some(id.value)]

\* Options a request may name on a command line that the dump does not bound: positions of
\* the lens are sent as they come.
LegalValue(dump, name, value) ==
  LET line == Value(dump, name)
  IN /\ line.values # <<>> => value \in ToSet(line.values)
     /\ line.ints # <<>> => value \in ToSet(line.ints)
     /\ line.range # None => ContainsExactly(The(line.range), value)

\* The one dump that is reused unread in another mode than its own: of a genesys scanner with
\* nothing to choose, for a request without a token (backend.cpp:757).
ReusedInAnotherMode(d, o) ==
  o.token = None /\ ReusesDump(d, o) /\ ~TokenVouches(d, o.colorMode)

\* scanimage dies on an option the device does not show as active (args.h:7) and rounds a
\* value the device does not list (validate.h:7): neither is ever on a command line.  What
\* counts is what the scanner shows under the settings of this scan, whether it was read again
\* or a dump of the capabilities was reused; only where one is reused in another mode nothing
\* is claimed.  For the infrared pass nothing is read again, and it is held against the same.
ArgumentsAreLegal ==
  stage = "scanning" =>
    LET o == Options(doc)
        shown == ScanSpecificDump(device, o)
    IN ~ReusedInAnotherMode(device, o) =>
         \A pass \in {"main", "infrared"} : \A name \in DOMAIN args[pass] :
           /\ IsActive(shown, name)
           /\ name \notin {"focus"} => LegalValue(shown, name, args[pass][name])

Has(a, name) == name \in DOMAIN a

\* Where a length on the command line is in pixels it is at most half a pixel off.
Covers(sent, tenths, dpi) == LET off == 254 * sent - tenths * dpi IN -127 <= off /\ off <= 127

CornersCover(a, area, unit) ==
  /\ Covers(a["br-x"] - a["tl-x"] + 1, area.width, unit)
  /\ Covers(a["br-y"] - a["tl-y"] + 1, area.height, unit)
  /\ Covers(a["tl-x"], area.x, unit) /\ Covers(a["tl-y"], area.y, unit)

AreaIsAsked(o, m, a) ==
  CASE m.geometryKind = "mm" /\ Has(a, "x") ->
         /\ a.x = o.area.width
         /\ a.y - o.area.height \in -9 .. 9
         /\ IF Has(a, "l") THEN a.l = o.area.x /\ a.t = o.area.y ELSE AtOrigin(o)
         /\ \A r \in ToSet(m.top) : o.area.y + a.y <= r.minimum + The(m.height).maximum
    [] m.geometryKind = "pel" /\ Has(a, "x") ->
         /\ Covers(a.x, o.area.width, o.dpi) /\ Covers(a.y, o.area.height, o.dpi)
         /\ IF Has(a, "l") THEN Covers(a.l, o.area.x, o.dpi) /\ Covers(a.t, o.area.y, o.dpi)
            ELSE AtOrigin(o)
    [] m.geometryKind = "corners" /\ Has(a, "br-x") ->
         CornersCover(a, o.area, The(MaximumResolution(ScanDump(device, o))))
    [] OTHER -> o.dpi = 0 /\ m.dedicated /\ AtOrigin(o)

PolarityIsAsked(o, m, a) ==
  m.filmTypeOption # None =>
    LET value == a[The(m.filmTypeOption)]
    IN \/ value = {"no"} /\ o.backend \in {"coolscan2", "coolscan3"}
       \/ Says(o.film, value)
       \/ o.backend = "coolscan" /\ Says("positive", value)

\* Main pass a and infrared pass ir say what o asks for, of a device resolved as m.
SaysRequest(o, m, a, ir) ==
  /\ IF o.preview THEN Has(a, "preview") /\ ~Has(a, "resolution")
     ELSE Has(a, "resolution") /\ a.resolution = o.dpi /\ ~Has(a, "preview")
  /\ Has(a, "depth") => IF o.bitDepth = 8 THEN a.depth = 8 ELSE a.depth > 8
  /\ Has(a, "mode") => Says(o.colorMode, a.mode)
  /\ Has(a, "source") =>
       /\ IsTransparencySource(a.source)
       /\ IsInfraredValue(a.source) =>
            \A s \in ToSet(EnumValues(ScanDump(device, o), "source")) :
              IsTransparencySource(s) => IsInfraredValue(s)
  /\ AreaIsAsked(o, m, a)
  /\ PolarityIsAsked(o, m, a)
  /\ \A v \in ToSet(o.brightness) : v = 0 \/ a.brightness = v
  /\ \A v \in ToSet(o.contrast) : v = 0 \/ a.contrast = v
  /\ \A v \in ToSet(o.exposure) : a["scan-exposure-time"] = v
  /\ o.infrared => \/ Has(ir, "source") /\ IsInfraredValue(ir.source)
                   \/ Has(ir, "mode") /\ IsInfraredValue(ir.mode)

\* What is sent is what was asked, exactly, or the scan is refused (validate.h:6): the
\* resolution, the depth, the mode, film and no flatbed, the area, the polarity, the tone and
\* the exposure.  A lens setting the device does not have is dropped without a word.
ArgumentsSayRequest ==
  stage = "scanning" =>
    LET o == Options(doc)
    IN SaysRequest(o, Media(device, o), args.main, args.infrared)

\* The requests a host builds of nothing but a report, and of the token that came with it.
OfferedRequests(d, caps) ==
  [backend : {d.backend}, dpi : caps.resolutions, bitDepth : caps.bitDepths,
   colorMode : caps.modes, film : {p \in {"negative", "positive"} : caps.transparency},
   area : caps.areas, infrared : {FALSE} \cup {b \in {TRUE} : caps.infrared},
   multiExposure : {FALSE}, exposure : {None}, brightness : {None}, contrast : {None},
   autofocus : {FALSE}, focus : {None}, token : {Some("own")}]

Report(d, dump) == ParseCapabilities(dump, d.typeIsFilm, d.backend)

\* A device that can be told everything a film scan has to say: the polarity where it asks
\* for one, its own colour correction off, the slide not to move.
Tellable(d, dump) ==
  /\ \A name \in ToSet(FilmTypeOptionName(dump)) :
       \A polarity \in {"negative", "positive"} :
         FilmType(dump, [backend |-> d.backend, film |-> polarity]) # None
  /\ d.backend = "pieusb" => IsActive(dump, "advance")
  /\ d.backend = "epson2" =>
       /\ IsActive(dump, "color-correction") => EpsonRawColorCorrection(dump) # None
       /\ IsActive(dump, "gamma-correction") => EpsonRawGammaCorrection(dump) # None

\* An area that can be told: it is no maximum off the grid of its own range, and where it does
\* not start in the corner both positions can be set.
AreaIsTellable(dump, o) ==
  LET range(name) == RangeWithUnit(dump, name, "mm")
      onGrid(name, length) ==
        \A r \in ToSet(range(name)) : length = r.maximum => ContainsExactly(r, length)
  IN /\ onGrid("x", o.area.width) /\ onGrid("y", o.area.height)
     /\ AtOrigin(o) \/ (range("l") # None /\ range("t") # None)

\* The scanner still offers under this dump what o asks for, and can be told all of it.
IsKept(d, o, dump) ==
  /\ o \in OfferedRequests(d, Report(d, dump))
  /\ Tellable(d, dump)
  /\ AreaIsTellable(dump, o)

\* What `capabilities` offers `scan` does not refuse: a host that composes resolution, depth,
\* mode, area and infrared out of the report and sends its token along is served, with exactly
\* these values, although capabilities.cpp and validate.cpp each have their own rules.  In
\* another mode than the token's the options are read again (backend.cpp:741), and what is
\* then no longer offered may be refused.  So may what the report offers and cannot keep:
\* a polarity the device has no value for (validate.cpp:133), a slide that moves (143), colours
\* it cannot leave alone (147), a maximum off the grid of its own range or an origin the device
\* cannot be told (capabilities.cpp:252 against validate.cpp:174 and 195).
OfferedIsAccepted ==
  stage = "described" =>
    \A o \in OfferedRequests(device, Report(device, SettledDump(device))) :
      IsKept(device, o, ScanDump(device, o)) => ValidateExactOptions(o, Media(device, o))

\* A value is read by scanimage as the driver spelled it, alone or between other values.
ValuesSurviveCommandLine ==
  stage = "spelled" =>
    \A argv \in {<<<<"s">>, text>>, <<<<"s">>, text, <<"-">>, text>>} :
      ReadCommandLine(BuildCommandLine(argv)) = argv
=============================================================================
