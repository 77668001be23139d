---------------------------- MODULE MCScanRequest ----------------------------
(***************************************************************************)
(* Six scanners, each as it is and with one option line inactive, removed, *)
(* repeated as inactive or changed, throughout or only under some settings;*)
(* requests that differ from a plain one in up to two fields; documents    *)
(* with one field broken.                                                  *)
(***************************************************************************)
EXTENDS ScanRequest

Flatbed == {"flatbed"}
Holder  == {"transparency"}
Guide   == {"transparency", "8x10"}
HolderIR == {"transparency", "infrared"}

Surface(w, h, step, unit) ==
  <<RangeLine("l", Bounds(0, w, step), unit), RangeLine("t", Bounds(0, h, step), unit),
    RangeLine("x", Bounds(0, w, step), unit), RangeLine("y", Bounds(0, h, step), unit)>>

Modes(values) == [EnumLine("mode", values) EXCEPT !.selected = Some({"color"})]

Genesys ==
  <<EnumLine("source", <<Flatbed, HolderIR, Holder>>), Modes(<<{"color"}, {"gray"}>>),
    IntLine("depth", <<8, 16>>), IntLine("resolution", <<300, 1200>>), Line("preview"),
    RangeLine("brightness", Bounds(-100, 100, 1), ""), RangeLine("contrast", Bounds(-100, 100, 1), "")>>
  \o Surface(2159, 2413, 0, "mm")

\* The same without a flatbed: nothing to choose.
GenesysFilm == <<EnumLine("source", <<Holder, HolderIR>>)>> \o Tail(Genesys)

Epson ==
  <<EnumLine("source", <<Flatbed, Guide, Holder>>), Modes(<<{"lineart"}, {"gray"}, {"color"}>>),
    IntLine("depth", <<8, 16>>), RangeLine("resolution", Bounds(50, 1250, 0), ""), Line("preview"),
    EnumLine("color-correction", <<{"auto"}, {"none"}>>),
    EnumLine("gamma-correction", <<{"default"}, {"user defined"}, {"gamma=1.0"}>>),
    EnumLine("film-type", <<{"positive", "slide"}, {"positive"}, {"negative"}>>),
    RangeLine("focus", Bounds(0, 254, 0), "")>>
  \o Surface(681, 2473, 0, "mm")

Coolscan3 ==
  <<IntLine("depth", <<8, 14>>), IntLine("resolution", <<500, 4000>>), Line("negative"),
    Line("autofocus"), RangeLine("focus", Bounds(0, 450, 1), ""), Line("preview")>>
  \o Surface(3945, 5958, 1, "pel")

Coolscan2 ==
  <<IntLine("depth", <<8, 14>>), RangeLine("resolution", Bounds(100, 4000, 1), ""),
    Line("negative"), Line("preview"),
    RangeLine("tl-x", Bounds(0, 3945, 1), "pel"), RangeLine("tl-y", Bounds(0, 5958, 1), "pel"),
    RangeLine("br-x", Bounds(0, 3945, 1), "pel"), RangeLine("br-y", Bounds(0, 5958, 1), "pel")>>

Pieusb ==
  <<Modes(<<{"color"}, {"gray"}, {"infrared"}>>), IntLine("depth", <<8, 16>>),
    RangeLine("resolution", Bounds(300, 3600, 300), ""), Line("advance"), Line("preview"),
    RangeLine("scan-exposure-time", Bounds(1000, 40000, 1000), "")>>
  \o Surface(360, 240, 1, "mm")

\* Options whose line counts even where it is not active.
AlwaysRead == {"depth", "color-correction", "gamma-correction"}

Variants(dump) ==
  {dump} \cup {RemoveAt(dump, i) : i \in {j \in DOMAIN dump : dump[j].name \in AlwaysRead}}
         \cup {[dump EXCEPT ![i].active = FALSE] : i \in DOMAIN dump}
         \cup {Append(dump, [dump[i] EXCEPT !.active = FALSE]) : i \in DOMAIN dump}
         \cup {[dump EXCEPT ![i].values = Reverse(@), ![i].ints = SubSeq(@, 1, Len(@) \div 2)] : i \in DOMAIN dump}

\* A scanner that shows one dump in gray at more than 8 bits, and one otherwise.
Scanner(backend, film, before, after, deepGray, other) ==
  [backend |-> backend, typeIsFilm |-> film, before |-> before, after |-> after,
   shows |-> [s \in ScanSettings |->
                IF s.mode = Some("gray") /\ s.depth # Some(8) /\ ~s.preview THEN deepGray ELSE other]]

\* Where a dump is changed: throughout, only before the settings of the capabilities, or only
\* in deep gray.
DevicesOf(backend, dump, film) ==
  LET changed == Variants(dump)
      devices == UNION {{Scanner(backend, film, v, v, v, v),
                         Scanner(backend, ~film, v, dump, dump, dump),
                         Scanner(backend, film, dump, dump, v, dump)} : v \in changed}
  IN {d \in devices : ShowsByMode(d)}

MCDevices ==
  UNION {DevicesOf("genesys", Genesys, FALSE), DevicesOf("genesys", GenesysFilm, FALSE),
         DevicesOf("epson2", Epson, FALSE), DevicesOf("coolscan3", Coolscan3, TRUE),
         DevicesOf("coolscan2", Coolscan2, TRUE), DevicesOf("pieusb", Pieusb, TRUE)}

-----------------------------------------------------------------------------
Area(x, y, w, h) ==
  Composed("object", "", <<[key |-> "originXMM", node |-> Number("int", x)],
                   [key |-> "originYMM", node |-> Number("int", y)],
                   [key |-> "widthMM", node |-> Number("int", w)],
                   [key |-> "heightMM", node |-> Number("int", h)]>>)

Path(prefix, components) == Composed("string", prefix, components)
Flag(b) == Node("bool", b)

Base(backend) ==
  [protocolVersion |-> Number("int", 2), requestID |-> Node("string", "r1"),
   deviceID |-> Node("string", backend), resolutionDPI |-> Number("int", 1200),
   bitDepth |-> Number("int", 16), colorMode |-> Node("string", "color"),
   filmType |-> Node("string", "negative"), preview |-> Flag(FALSE),
   multiExposure |-> Flag(FALSE), infrared |-> Flag(FALSE), outputRawTIFF |-> Flag(TRUE),
   scanArea |-> Area(0, 0, 360, 240), outputPath |-> Path("drive", <<"plain", "plain">>)]

Preview(backend) ==
  [Base(backend) EXCEPT !.resolutionDPI = Number("int", 0), !.preview = Flag(TRUE),
                        !.outputRawTIFF = Flag(FALSE)]

\* A request is a function from its keys; a document lists them.
Keys == <<"protocolVersion", "requestID", "deviceID", "resolutionDPI", "bitDepth", "colorMode",
          "filmType", "preview", "multiExposure", "infrared", "scanArea", "outputRawTIFF",
          "outputPath", "brightnessAdjustment", "contrastAdjustment", "hardwareExposureTime",
          "autofocus", "focusPosition", "capabilityToken">>

DocumentOf(request, refused) ==
  LET given == SelectSeq(Keys, LAMBDA k : k \in DOMAIN request)
  IN [refused |-> refused,
      members |-> [i \in DOMAIN given |-> [key |-> given[i], node |-> request[given[i]]]]]

Changes ==
  {"resolutionDPI" :> Number("int", v) : v \in {777, 4000}}
  \cup {"bitDepth" :> Number("int", 8)} \cup {"colorMode" :> Node("string", "gray")}
  \cup {"filmType" :> Node("string", "positive")}
  \cup {"infrared" :> Flag(TRUE)} \cup {"multiExposure" :> Flag(TRUE)}
  \cup {"scanArea" :> a : a \in {Area(7, 3, 105, 98), Area(3, 4, 677, 12), Area(5, 2470, 100, 3),
                                 Area(0, 5, 50, 2466), Area(0, 0, 2159, 2413)}}
  \cup {"brightnessAdjustment" :> Number("int", v) : v \in {0, 50, 500}}
  \cup {"hardwareExposureTime" :> Number("int", v) : v \in {14000, 14500}}
  \cup {"capabilityToken" :> Node("string", t) : t \in {"own", "foreign"}}
  \cup {"autofocus" :> Flag(TRUE)} \cup {"focusPosition" :> Number("int", 200)}

Requests ==
  LET of(base) == {c1 @@ c2 @@ base : c1 \in Changes, c2 \in Changes}
  IN UNION {of(Base(b)) : b \in {"genesys", "epson2", "coolscan3", "coolscan2", "pieusb"}}
     \cup UNION {{c @@ Preview(b) : c \in Changes} : b \in {"epson2", "coolscan3", "pieusb"}}

Broken ==
  LET base == Base("pieusb")
      bad == {Node("null", 0), Number("wide", 2), Number("fraction", 2), Number("outside", 2),
              Number("int", 1), Node("string", "malformed"), Flag(TRUE), Area(-1, 0, 10, 10),
              Composed("object", "", Area(0, 0, 10, 10).parts \o Area(0, 0, 10, 10).parts),
              Composed("object", "", Tail(Area(0, 0, 10, 10).parts)),
              Composed("object", "", Front(Area(0, 0, 10, 10).parts)),
              Path("drive", <<"plain", "..">>), Path("share", <<"plain">>), Path("drive", <<>>)}
      keys == DOMAIN base \cup DOMAIN OptionalFields
  IN {DocumentOf((k :> n) @@ base, {}) : k \in keys, n \in bad}
     \cup {DocumentOf([k \in DOMAIN base \ {gone} |-> base[k]], {}) : gone \in DOMAIN base}
     \cup {DocumentOf(base, {limit}) : limit \in {"bytes", "depth", "string", "items", "syntax"}}
     \cup {[refused |-> {}, members |-> Append(DocumentOf(base, {}).members, [key |-> k, node |-> base[k]])] :
             k \in DOMAIN base}

MCDocuments == {DocumentOf(r, {}) : r \in Requests} \cup Broken

MCTexts == UNION {[1 .. n -> {"a", Space, Quote, Backslash}] : n \in 0 .. 5}
=============================================================================
