----------------------------- MODULE MC_BootSession -----------------------------
(* Boots for TLC: a granule of four bytes, memory of eight to sixteen. *)
EXTENDS KeyOrder

Plain(tag, text) == [tag |-> tag, shape |-> "plain", text |-> text]

Holding(tag, children) == [tag |-> tag, shape |-> "plain", children |-> children]

Str(text) == Plain("string", text)

Num(number) == Plain("integer", number)

Flag(name) == Plain(name, "")

Wrong == Flag("date")

\* A dictionary of pairs of keys and values.
Dict(pairs) ==
  Holding("dict", [n \in 1 .. 2 * Len(pairs) |->
    IF n % 2 = 1 THEN Plain("key", pairs[(n + 1) \div 2][1]) ELSE pairs[n \div 2][2]])

File(root) == [size |-> 5, encoding |-> "Ok", lexed |-> "Ok", root |-> root]

Configuration(pairs) == File(Holding("plist", <<Dict(pairs)>>))

\* Pairs without those of a key, and with others behind them.
Without(pairs, key) == SelectSeq(pairs, LAMBDA pair : pair[1] # key)

With(pairs, key, node) == Append(Without(pairs, key), <<key, node>>)

NoScreen == [width |-> 640, height |-> 480]

NoInput == [capacity |-> 0, decoded |-> [digest |-> "none", length |-> 0]]

Boot(d) == [document |-> d, screen |-> NoScreen, input |-> NoInput]

-----------------------------------------------------------------------------
(* Entries *)

Path(leading, parts, efi) ==
  [leading |-> leading, parts |-> parts, upper |-> FALSE, units |-> 5, odd |-> FALSE, efi |-> efi]

Good == Path(1, <<"EFI", "a.efi">>, TRUE)

BadPaths ==
  {Path(0, <<"a.efi">>, TRUE), Path(2, <<"a.efi">>, TRUE), Path(1, <<"..", "a.efi">>, TRUE),
   Path(1, <<"a">>, FALSE), [Good EXCEPT !.odd = TRUE], [Good EXCEPT !.units = 9]}

Words(units) == [units |-> units, control |-> FALSE]

Volume(units) == [units |-> units, control |-> FALSE, padded |-> FALSE, separator |-> FALSE]

Label(units) == [units |-> units, control |-> FALSE, blank |-> units = 0]

Usual == <<<<"Enabled", Flag("true")>>, <<"Path", Str(Good)>>>>

EntryNodes ==
  {Dict(Usual), Dict(With(Usual, "Enabled", Flag("false"))), Dict(Without(Usual, "Enabled")),
   Dict(With(Usual, "Enabled", Str("true"))), Dict(Without(Usual, "Path")), Wrong,
   Dict(With(Without(Usual, "Path"), "Enabled", Flag("false"))),
   Dict(With(Usual, "Path", Wrong)), Dict(With(Usual, "Name", Wrong)),
   Dict(Usual \o <<<<"Enabled", Flag("false")>>>>),
   Dict(Usual \o <<<<"Path", Str(Path(1, <<"b.efi">>, TRUE))>>>>)}
    \cup {Dict(With(Usual, "Path", Str(path))) : path \in BadPaths}
    \cup {Dict(With(With(Usual, "Enabled", Flag("false")), "Name", Str(Label(n)))) : n \in {0, 3, 4}}
    \cup {Dict(With(Usual, "Name", Str(Label(n)))) : n \in {0, 3, 4}}
    \cup {Dict(With(Usual, "Arguments", node)) :
            node \in {Wrong, Str(Words(0)), Str(Words(6)), Str([Words(1) EXCEPT !.control = TRUE])}}
    \cup {Dict(With(Usual, "ApfsVolume", node)) :
            node \in {Wrong, Str(Volume(0)), Str(Volume(2)), Str(Volume(5)),
                      Str([Volume(1) EXCEPT !.padded = TRUE])}}

Questions ==
  {<<>>, <<<<"Boot", Wrong>>>>, <<<<"Boot", Dict(<<>>)>>>>}
    \cup {<<<<"Boot", Dict(<<<<"ShowPicker", node>>>>)>>>> :
            node \in {Flag("true"), Flag("false"), Str("true")}}

Asked == <<<<"Boot", Dict(<<<<"ShowPicker", Flag("true")>>>>)>>>>

EntriesFile(question, entries) ==
  Configuration(<<<<"Misc", Dict(question \o <<<<"Entries", Holding("array", entries)>>>>)>>>>)

MenuFiles ==
  {EntriesFile(question, <<one>>) : question \in Questions, one \in EntryNodes}
    \cup {EntriesFile(question, <<one, two>>) :
            question \in {<<>>, Asked}, one, two \in EntryNodes}
    \cup {EntriesFile(question, <<one, Dict(With(Usual, "Enabled", Flag("false"))), Dict(Usual), two>>) :
            question \in {<<>>, Asked}, one, two \in {Wrong, Dict(Usual)}}
    \cup {Configuration(<<>>), Configuration(<<<<"Misc", Wrong>>>>),
          Configuration(<<<<"Misc", Dict(<<>>)>>>>),
          Configuration(<<<<"Misc", Dict(Asked)>>>>),
          Configuration(<<<<"Misc", Dict(<<<<"Entries", Wrong>>>>)>>>>),
          Configuration(<<<<"Misc", Dict(<<>>)>>, <<"Misc", Dict(Asked)>>>>)}

\* Documents that are no property list, each in another way.
OddFiles ==
  LET good == EntriesFile(<<>>, <<Dict(Usual)>>)
  IN  {[good EXCEPT !.size = 9], [good EXCEPT !.encoding = "InvalidUtf8"],
       [good EXCEPT !.lexed = "NodeLimit"], [good EXCEPT !.root.tag = "dict"],
       [good EXCEPT !.root.shape = "attributed"], [good EXCEPT !.root.shape = "mixed"],
       [good EXCEPT !.root.children = @ \o @], [good EXCEPT !.root.children = <<Wrong>>],
       Configuration(<<<<"Misc", Holding("array", <<Holding("array", <<Wrong>>)>>)>>>>),
       Configuration(<<<<"Misc", Holding("array", <<Plain("key", "a")>>)>>>>),
       Configuration(<<<<"Misc", Dict(<<<<"a", Dict(<<<<"a", Dict(<<<<"a", Dict(<<<<"a",
         Dict(<<<<"a", Wrong>>>>)>>>>)>>>>)>>>>)>>>>)>>>>),
       Configuration(<<<<"Misc", Holding("plist", <<Dict(<<>>)>>)>>>>),
       Configuration(<<<<"Misc", Holding("other", <<>>)>>>>),
       File(Holding("plist", <<Holding("dict", <<Plain("key", "Misc")>>)>>)),
       File(Holding("plist", <<Holding("dict", <<Wrong, Wrong>>)>>)),
       File(Holding("plist", <<Holding("dict", <<Plain("key", "a"), Plain("key", "b")>>)>>))}

\* Menus of one to six entries, one more than there may be, on screens at both sides of every threshold.
PickerBoots ==
  {[document |-> EntriesFile(Asked, [n \in 1 .. count |-> Dict(Usual)]),
    screen |-> [width |-> width, height |-> height], input |-> NoInput] :
     count \in 1 .. 6, width \in {639, 640, 739, 740, 899, 900, 1079, 1080, 4096},
     height \in {480, 599, 600, 2160}}

-----------------------------------------------------------------------------
(* Kernels *)

KernelPath == Path(1, <<"kc">>, FALSE)

KernelPairs(profile) == <<<<"Profile", Str(profile)>>, <<"Path", Str(KernelPath)>>>>

KernelFile(pairs) == Configuration(<<<<"Nextcore", Dict(<<<<"Kernel", Dict(pairs)>>>>)>>>>)

UsualTrace ==
  <<<<"HandoffAbi", Str("unprovisioned-sptm-prefix")>>, <<"DeviceTreePath", Str(KernelPath)>>,
    <<"PhysicalBase", Num(8)>>, <<"VirtualBase", Num(16)>>, <<"MemorySize", Num(12)>>,
    <<"ActualMemorySize", Num(16)>>, <<"KernelPhysical", Num(12)>>,
    <<"InstructionBudget", Num(8)>>>>

OnPlatform == With(UsualTrace, "PlatformProfile", Str("nextcore-irq-compat-v1"))

InMapped == With(OnPlatform, "MemoryProfile", Str("mapped-normal-nc-v1"))

Traces ==
  {With(UsualTrace, key, node) :
     key \in {"HandoffAbi", "PhysicalBase", "DiagnosticTier", "MemoryProfile", "PlatformProfile",
              "Video"},
     node \in {Wrong, Str("gop-framebuffer")}}
    \cup {With(UsualTrace, "DeviceTreePath", node) : node \in {Wrong, Str(Path(0, <<"dt">>, FALSE))}}
    \cup {With(trace, "InstructionBudget", Num(budget)) :
            trace \in {UsualTrace, OnPlatform, InMapped},
            budget \in {NotANumber, 0, 1, 9, 64, 65, 256, 1024, 4096, 4097, 16384}}
    \cup {With(With(trace, "DiagnosticTier", Str(tier)), "InstructionBudget", Num(budget)) :
            trace \in {UsualTrace, OnPlatform, InMapped}, tier \in DOMAIN Tiers \cup {"other"},
            budget \in {8, 64} \cup {Tiers[t].budget : t \in DOMAIN Tiers}}
    \cup {With(UsualTrace, key, Num(n)) :
            key \in {"PhysicalBase", "VirtualBase", "MemorySize", "ActualMemorySize", "KernelPhysical"},
            n \in {0, 4, 6, 12, 16, 20, 48, 52, 56, 60}}
    \cup {With(OnPlatform, "Platform", node) :
            node \in {Wrong, Dict(<<>>), Dict(<<<<"Other", Num(0)>>>>)}
              \cup {Dict(<<<<key, Num(n)>>>>) :
                      key \in PlatformKeys, n \in {NotANumber, 0, 1, 2, 4, 8, 18, 20, 965, 1023, 2097152}}}
    \cup {With(UsualTrace, "Platform", Dict(<<>>)), With(OnPlatform, "Video", Str("gop-framebuffer"))}
    \cup {Without(UsualTrace, UsualTrace[n][1]) : n \in DOMAIN UsualTrace}

KernelFiles ==
  {KernelFile(With(KernelPairs("x86-efi-arm64-trace"), "Trace", Dict(trace))) : trace \in Traces}
    \cup {KernelFile(pairs) :
            pairs \in {<<>>, KernelPairs("xnu-12377-pstart32"), KernelPairs("x86-efi-arm64-trace"),
                       With(KernelPairs("x86-efi-arm64-trace"), "Trace", Wrong),
                       With(KernelPairs("xnu-arm64-uefi"), "Path", Str(Path(0, <<"kc">>, FALSE))),
                       With(KernelPairs("xnu-arm64-uefi"), "Arguments", Str(Words(7))),
                       Without(KernelPairs("xnu-arm64-uefi"), "Path"),
                       KernelPairs("xnu-arm64-uefi") \o <<<<"Path", Str(Good)>>>>}}
    \cup {Configuration(<<<<"Nextcore", Wrong>>>>), Configuration(<<<<"Nextcore", Dict(<<>>)>>>>)}

-----------------------------------------------------------------------------
(* Records *)

At(name) == [parts |-> <<name>>, upper |-> FALSE]

\* The other case of the same path.
Upper(path) == [path EXCEPT !.upper = ~ @]

ClassLines == <<[key |-> "device-class", value |-> "j274ap"],
                [key |-> "source-sha256", value |-> "source"],
                [key |-> "manifest-sha256", value |-> "manifest"]>>

Lines(path, where, bytes, length, sha256, digest) ==
  <<[key |-> path, value |-> where], [key |-> bytes, value |-> length],
    [key |-> sha256, value |-> digest]>>

Record(header, lines) ==
  [size |-> 5, ended |-> TRUE, header |-> header, lines |-> lines, digest |-> "sealed"]

UsualInput ==
  [capacity |-> 3, sealed |-> {"sealed"},
   signed |-> [digest |-> "signed", length |-> 3],
   decoded |-> [digest |-> "decoded", length |-> 2],
   selected |-> Record("nextcore-selected-iboot-v1", ClassLines
     \o Lines("image-path", At("image"), "image-bytes", 3, "image-sha256", "signed")),
   payload |-> Record("nextcore-selected-iboot-payload-v1",
     <<[key |-> "signed-sha256", value |-> "signed"]>>
     \o Lines("decoded-path", At("payload"), "decoded-bytes", 2, "decoded-sha256", "decoded")),
   bootKc |-> Record("nextcore-selected-bootkc-v1", ClassLines
     \o Lines("signed-path", At("signed kc"), "signed-bytes", 3, "signed-sha256", "kc")
     \o Lines("decoded-path", At("kc"), "decoded-bytes", 6, "decoded-sha256", "decoded kc")),
   companions |-> Record("nextcore-selected-startup-companions-v1", ClassLines
     \o Lines("sptm-signed-path", At("s1"), "sptm-signed-bytes", 1, "sptm-signed-sha256", "s1")
     \o Lines("sptm-decoded-path", At("s2"), "sptm-decoded-bytes", 1, "sptm-decoded-sha256", "s2")
     \o Lines("txm-signed-path", At("t1"), "txm-signed-bytes", 1, "txm-signed-sha256", "t1")
     \o Lines("txm-decoded-path", At("t2"), "txm-decoded-bytes", 1, "txm-decoded-sha256", "t2"))]

RecordNames == {"selected", "payload", "bootKc", "companions"}

\* What a value may be instead: for each kind another good one, and a bad one.
Others(key) ==
  CASE key \in {"image-path", "signed-path", "decoded-path", "sptm-signed-path",
                "sptm-decoded-path", "txm-signed-path", "txm-decoded-path"} ->
         {At("not a path"), At("image"), At("kc"), At("payload"), At("s2"),
          Upper(At("s1")), Upper(At("t2")), Upper(At("signed kc")), Upper(At("image"))}
    [] key \in {"image-bytes", "signed-bytes", "decoded-bytes", "sptm-signed-bytes",
                "sptm-decoded-bytes", "txm-signed-bytes", "txm-decoded-bytes"} -> {-1, 0, 3, 4, 5, 7}
    [] key = "device-class" -> {"not a class", "j293ap"}
    [] OTHER -> {"not a digest", "other"}

Changed(record) ==
  UNION {{[record EXCEPT !.lines[n].value = v] : v \in Others(record.lines[n].key)} :
           n \in DOMAIN record.lines}
    \cup {[record EXCEPT !.size = 0], [record EXCEPT !.size = 9], [record EXCEPT !.ended = FALSE],
          [record EXCEPT !.header = "other"], [record EXCEPT !.digest = "other"],
          [record EXCEPT !.lines = Tail(@)], [record EXCEPT !.lines = Append(@, @[1])]}

\* One thing changed.
OneChange(i) ==
  UNION {{[i EXCEPT ![name] = record] : record \in Changed(i[name])} : name \in RecordNames}
    \cup {[i EXCEPT !.sealed = {}], [i EXCEPT !.signed.digest = "other"],
          [i EXCEPT !.signed.length = 2], [i EXCEPT !.decoded.digest = "other"],
          [i EXCEPT !.decoded.length = 1], [i EXCEPT !.capacity = 2], [i EXCEPT !.capacity = 1]}

\* Two paths of the companions, or one of them and another, changed at once.
TwoPaths ==
  {[UsualInput EXCEPT !.companions.lines[m].value = v, !.companions.lines[n].value = w] :
     m, n \in {4, 7, 10, 13}, v, w \in {At("kc"), Upper(At("s1")), At("t3"), Upper(At("t3"))}}

SmallInputs == {UsualInput} \cup OneChange(UsualInput) \cup TwoPaths

RecordBoots ==
  {[document |-> KernelFile(With(KernelPairs("xnu-arm64-uefi"), "Path", Str(path))),
    screen |-> NoScreen, input |-> i] :
     path \in {KernelPath, [KernelPath EXCEPT !.upper = TRUE]}, i \in SmallInputs}

SmallBoots ==
  {Boot(d) : d \in MenuFiles \cup OddFiles} \cup PickerBoots
    \cup {Boot(d) : d \in {k \in KernelFiles : KernelCheck(k, ArmProfiles) # "Ok"
                              \/ KernelTarget(k).profile = "x86-efi-arm64-trace"}}
    \cup RecordBoots

=============================================================================
