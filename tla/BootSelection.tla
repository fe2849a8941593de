----------------------------- MODULE BootSelection -----------------------------
(***************************************************************************)
(* What a configuration says is to be booted (src/src/boot_config.rs):     *)
(* parse_boot_target() reads one EFI target, parse_boot_menu() the entries *)
(* of a menu from the same keys, and parse_named_kernel_target() a kernel  *)
(* with a named profile.  A text is what its checks ask of it: the number  *)
(* of its units, a control character, a separator.                         *)
(***************************************************************************)
EXTENDS PropertyLists, FiniteSets

CONSTANTS
  MaxEntries,      \* MAX_ENTRIES
  MaxArguments,    \* MAX_ARGUMENTS_UTF16_UNITS
  MaxVolume,       \* MAX_APFS_VOLUME_UTF16_UNITS
  MaxName,         \* the 64 units of a display name
  MaxKernelArguments   \* the 1023 bytes of a kernel's arguments

ASSUME BootSelectionAssumption ==
  {MaxEntries, MaxArguments, MaxVolume, MaxName, MaxKernelArguments} \subseteq Nat

-----------------------------------------------------------------------------
(* One entry *)

PathCheck(node) == ImagePathCheck(node.text)

ArgumentsCheck(node) ==
  FirstRefusal(<<<<node.text.control, "InvalidArguments">>,
                 <<node.text.units > MaxArguments, "ArgumentsTooLong">>>>)

\* parse_apfs_volume()
VolumeCheck(node) ==
  IF \/ node.text.units = 0 \/ node.text.padded \/ node.text.control \/ node.text.separator
     \/ node.text.units > MaxVolume
    THEN "InvalidApfsVolume" ELSE "Ok"

NameCheck(node) ==
  IF node.text.blank \/ node.text.control \/ node.text.units > MaxName
    THEN "InvalidDisplayName" ELSE "Ok"

\* What both loops check of an entry, in this order, before they use it.
EntryCheck(entry) ==
  IF entry.tag # "dict" THEN "InvalidType"
  ELSE FirstError(<<FlagCheck(Lookup(entry, "Enabled")),
                    OptionalCheck(Lookup(entry, "Path"), "string", PathCheck),
                    OptionalCheck(Lookup(entry, "Arguments"), "string", ArgumentsCheck),
                    OptionalCheck(Lookup(entry, "ApfsVolume"), "string", VolumeCheck)>>)

Enabled(entry) == entry.tag = "dict" /\ Lookup(entry, "Enabled").tag = "true"

\* The texts of an optional string: none, or the one that is there.
TextOf(node) == IF node.tag = "absent" THEN {} ELSE {node.text}

BootTarget(entry) ==
  [path       |-> Normalized(Lookup(entry, "Path").text),
   arguments  |-> TextOf(Lookup(entry, "Arguments")),
   apfsVolume |-> TextOf(Lookup(entry, "ApfsVolume"))]

EnabledOf(entries) == {i \in DOMAIN entries : Enabled(entries[i])}

\* One turn of a loop over the entries: "named" checks what only one parser
\* asks of an entry, "single" says that a second enabled entry is refused.
EntryTurn(entries, i, named, single) ==
  LET entry == entries[i]
  IN  IF i > MaxEntries THEN "EntryLimit"
      ELSE IF EntryCheck(entry) # "Ok" THEN EntryCheck(entry)
      ELSE IF named # "Ok" THEN named
      ELSE IF ~ Enabled(entry) THEN "Ok"
      ELSE FirstRefusal(<<
        <<single /\ \E j \in EnabledOf(entries) : j < i, "AmbiguousTarget">>,
        <<Lookup(entry, "Path").tag = "absent", "MissingPath">> >>)

\* The entries that are enabled, in their order.
EnabledEntries(entries) ==
  LET all == EnabledOf(entries)
      Rank(i) == Cardinality({j \in all : j <= i})
  IN  [n \in 1 .. Rank(Len(entries)) |-> CHOOSE i \in all : Rank(i) = n]

-----------------------------------------------------------------------------
(* One target *)

Failed(error) == [error |-> error, targets |-> <<>>]

NoTarget == [error |-> "Ok", targets |-> <<>>]

\* select_boot_target()
TargetsOf(entries) ==
  LET check == FirstError([i \in DOMAIN entries |-> EntryTurn(entries, i, "Ok", TRUE)])
      enabled == EnabledEntries(entries)
  IN  IF check # "Ok" THEN Failed(check)
      ELSE [error   |-> "Ok",
            targets |-> [n \in DOMAIN enabled |-> BootTarget(entries[enabled[n]])]]

\* parse_boot_target()
ParseBootTarget(document) ==
  IF DocumentCheck(document) # "Ok" THEN Failed(DocumentCheck(document))
  ELSE LET misc == Lookup(Dictionary(document), "Misc")
       IN  IF misc.tag = "absent" THEN NoTarget
           ELSE IF misc.tag # "dict" THEN Failed("InvalidType")
           ELSE LET entries == Lookup(misc, "Entries")
                IN  CASE entries.tag = "absent" -> NoTarget
                      [] entries.tag = "array" -> TargetsOf(entries.children)
                      [] OTHER -> Failed("InvalidType")

-----------------------------------------------------------------------------
(* A menu *)

Refused(error) == [error |-> error, showPicker |-> FALSE, entries |-> <<>>]

Menu(showPicker, entries) == [error |-> "Ok", showPicker |-> showPicker, entries |-> entries]

\* Whether a menu is asked for, or what is wrong with the question.
PickerCheck(misc) ==
  LET boot == Lookup(misc, "Boot")
  IN  OptionalCheck(boot, "dict", LAMBDA node : FlagCheck(Lookup(node, "ShowPicker")))

ShowPicker(misc) ==
  LET boot == Lookup(misc, "Boot")
  IN  boot.tag = "dict" /\ Lookup(boot, "ShowPicker").tag = "true"

\* A fault: names are checked whether or not they will be shown.
NamedCheckAlways(entry, showPicker) ==
  IF entry.tag = "dict" THEN OptionalCheck(Lookup(entry, "Name"), "string", NameCheck) ELSE "Ok"

\* Automatic boot ignores a name.
NamedCheck(entry, showPicker) ==
  IF showPicker /\ entry.tag = "dict"
    THEN OptionalCheck(Lookup(entry, "Name"), "string", NameCheck) ELSE "Ok"

\* The name of the i-th entry, with the one it has if it has none.
EntryName(entry, i, showPicker) ==
  LET name == Lookup(entry, "Name")
  IN  IF ~ showPicker \/ name.tag = "absent" THEN [entry |-> i] ELSE name.text

MenuOf(entries, showPicker) ==
  LET check == FirstError([i \in DOMAIN entries |->
                 EntryTurn(entries, i, NamedCheck(entries[i], showPicker), ~ showPicker)])
      enabled == EnabledEntries(entries)
  IN  IF check # "Ok" THEN Refused(check)
      ELSE Menu(showPicker, [n \in DOMAIN enabled |->
                 [name   |-> EntryName(entries[enabled[n]], enabled[n], showPicker),
                  target |-> BootTarget(entries[enabled[n]])]])

\* parse_boot_menu()
ParseBootMenu(document) ==
  IF DocumentCheck(document) # "Ok" THEN Refused(DocumentCheck(document))
  ELSE LET misc == Lookup(Dictionary(document), "Misc")
       IN  IF misc.tag = "absent" THEN Menu(FALSE, <<>>)
           ELSE IF misc.tag # "dict" THEN Refused("InvalidType")
           ELSE IF PickerCheck(misc) # "Ok" THEN Refused(PickerCheck(misc))
           ELSE LET entries == Lookup(misc, "Entries")
                IN  CASE entries.tag = "absent" -> Menu(ShowPicker(misc), <<>>)
                      [] entries.tag = "array" -> MenuOf(entries.children, ShowPicker(misc))
                      [] OTHER -> Refused("InvalidType")

-----------------------------------------------------------------------------
(* A kernel *)

IntelProfiles == {"xnu-12377-pstart32"}

ArmProfiles == {"xnu-arm64-uefi", "qemu-virt-arm64-probe", "x86-efi-arm64-jit-probe",
                "x86-efi-arm64-trace"}

KernelPathCheck(node) == AbsolutePathCheck(node.text)

KernelArgumentsCheck(node) ==
  FirstRefusal(<<<<node.text.control, "InvalidArguments">>,
                 <<node.text.units > MaxKernelArguments, "ArgumentsTooLong">>>>)

KernelNode(document) ==
  LET nextcore == Lookup(Dictionary(document), "Nextcore")
  IN  IF nextcore.tag = "dict" THEN Lookup(nextcore, "Kernel") ELSE nextcore

\* parse_named_kernel_target(), with the profiles that its caller knows.
KernelCheck(document, profiles) ==
  LET kernel == KernelNode(document)
      Known(node) == IF node.text \in profiles THEN "Ok" ELSE "UnsupportedKernelProfile"
      Fields(node) ==
        FirstError(<<
          RequiredCheck(Lookup(node, "Profile"), "string", "UnsupportedKernelProfile", Known),
          RequiredCheck(Lookup(node, "Path"), "string", "MissingPath", KernelPathCheck),
          OptionalCheck(Lookup(node, "Arguments"), "string", KernelArgumentsCheck)>>)
  IN  IF DocumentCheck(document) # "Ok" THEN DocumentCheck(document)
      ELSE RequiredCheck(kernel, "dict", "MissingKernelTarget", Fields)

\* KernelTarget
KernelTarget(document) ==
  [path      |-> Normalized(Lookup(KernelNode(document), "Path").text),
   arguments |-> TextOf(Lookup(KernelNode(document), "Arguments")),
   profile   |-> Lookup(KernelNode(document), "Profile").text]

=============================================================================
