--------------------------- MODULE TraceConfiguration ---------------------------
(***************************************************************************)
(* The bounded diagnostic trace of an ARM64 kernel                         *)
(* (src/src/boot_config.rs).  Its entry points read the same keys with     *)
(* different capabilities: how many instructions may run is decided by the *)
(* entry, a tier, a platform profile and a memory profile together.        *)
(*                                                                         *)
(* Budgets are those of the code; addresses and sizes are scaled down.     *)
(* A number that does not parse is NotANumber.                             *)
(***************************************************************************)
EXTENDS BootSelection

CONSTANTS
  Granule,       \* the 16384 bytes that bases and sizes are aligned to
  LeastMemory,   \* 16 MiB
  MostMemory,    \* 1 GiB
  VectorAlign,   \* the 2048 bytes of a vector table
  MaxNumber      \* u64::MAX

NotANumber == -1

ASSUME TraceAssumption ==
  /\ {LeastMemory, MostMemory, MaxNumber} \subseteq Nat
  /\ {Granule, VectorAlign} \subseteq Nat \ {0}

Capabilities == <<"Ordinary", "Deep", "Long", "Initialization", "Mapped">>

\* The limits that parse_..._with_limit() takes; the entries with a tier have the last.
Limits == <<64, 256, 1024, 4096>>

-----------------------------------------------------------------------------
(* Tiers *)

\* Budget, and the capabilities that may select it.
Tiers ==
  [tier \in {"deep-16384", "long-65536", "transition-1048576", "boundary-1114112",
             "helper-span-44040192", "initialization-67108864"} |->
     CASE tier = "deep-16384" ->
            [budget |-> 16384, by |-> {"Deep", "Long", "Initialization", "Mapped"}, mapped |-> FALSE]
       [] tier = "long-65536" ->
            [budget |-> 65536, by |-> {"Long", "Initialization", "Mapped"}, mapped |-> FALSE]
       [] tier = "transition-1048576" ->
            [budget |-> 1048576, by |-> {"Mapped"}, mapped |-> TRUE]
       [] tier = "boundary-1114112" ->
            [budget |-> 1114112, by |-> {"Mapped"}, mapped |-> TRUE]
       [] tier = "helper-span-44040192" ->
            [budget |-> 44040192, by |-> {"Mapped"}, mapped |-> TRUE]
       [] tier = "initialization-67108864" ->
            [budget |-> 67108864, by |-> {"Initialization", "Mapped"}, mapped |-> FALSE]]

MemoryProfileCheck(trace, capability) ==
  LET node == Lookup(trace, "MemoryProfile")
      Mapped(n) == IF n.text = "mapped-normal-nc-v1" THEN "Ok" ELSE "InvalidTraceConfiguration"
  IN  IF node.tag # "absent" /\ capability # "Mapped" THEN "InvalidTraceConfiguration"
      ELSE OptionalCheck(node, "string", Mapped)

HasMemoryProfile(trace) == Lookup(trace, "MemoryProfile").tag # "absent"

\* A fault: the capability that was added last is missing at an older tier.
TierAllowedBeforeMapped(tier, trace, capability) ==
  /\ tier \in DOMAIN Tiers
  /\ capability \in Tiers[tier].by
  /\ capability = "Mapped" => tier # "initialization-67108864"
  /\ Tiers[tier].mapped => HasMemoryProfile(trace)

TierAllowed(tier, trace, capability) ==
  /\ tier \in DOMAIN Tiers
  /\ capability \in Tiers[tier].by
  /\ Tiers[tier].mapped => HasMemoryProfile(trace)

TierCheck(trace, capability) ==
  LET node == Lookup(trace, "DiagnosticTier")
      Allowed(n) == IF TierAllowed(n.text, trace, capability) THEN "Ok"
                    ELSE "InvalidTraceConfiguration"
  IN  IF node.tag # "absent" /\ capability = "Ordinary" THEN "InvalidTraceConfiguration"
      ELSE OptionalCheck(node, "string", Allowed)

\* selected_budget: none, or the one of the tier.
SelectedBudget(trace) ==
  {Tiers[tier].budget : tier \in TextOf(Lookup(trace, "DiagnosticTier"))}

-----------------------------------------------------------------------------
(* The software platform *)

PlatformKeys == {"InitialOverride", "InitialPstate", "VectorBase", "IrqLevel", "FiqLevel"}

PlatformNumber(trace, name, default) ==
  LET options == Lookup(trace, "Platform")
      node == IF options.tag = "absent" THEN Absent ELSE Lookup(options, name)
  IN  IF node.tag = "absent" THEN default ELSE node.text

PlatformNumberCheck(node) ==
  IF node.text = NotANumber THEN "InvalidPlatformConfiguration" ELSE "Ok"

\* The override bits that choose an interrupt level take two values each; of
\* the state bits those of the mode and the masks may be set.
ResetCheck(override, pstate, vector, irq, fiq) ==
  IF \/ override \notin {0, 2097152, 8388608, 10485760}
     \/ pstate % 16 \notin {4, 5} \/ (pstate \div 16) % 4 # 0
     \/ (pstate \div 1024) % 262144 # 0 \/ pstate \div 1073741824 >= 4
     \/ vector % VectorAlign # 0 \/ irq > 1 \/ fiq > 1
    THEN "InvalidPlatformConfiguration" ELSE "Ok"

\* parse_arm64_platform_configuration()
PlatformCheck(trace) ==
  LET profile == Lookup(trace, "PlatformProfile")
      options == Lookup(trace, "Platform")
      Number(name) ==
        IF options.tag = "absent" THEN "Ok"
        ELSE OptionalCheck(Lookup(options, name), "integer", PlatformNumberCheck)
      Known(node) ==
        IF node.text = "nextcore-irq-compat-v1" THEN "Ok" ELSE "InvalidPlatformConfiguration"
      Keys(node) ==
        IF \E n \in 1 .. Len(node.children) \div 2 :
             node.children[2 * n - 1].text \notin PlatformKeys
          THEN "InvalidPlatformConfiguration" ELSE "Ok"
      shape == FirstError(<<OptionalCheck(profile, "string", Known),
                            OptionalCheck(options, "dict", Keys)>>)
      numbers == FirstError(<<Number("InitialOverride"), Number("InitialPstate"),
                              Number("VectorBase"), Number("IrqLevel"), Number("FiqLevel")>>)
  IN  IF profile.tag = "absent"
        THEN IF options.tag = "absent" THEN "Ok" ELSE "InvalidPlatformConfiguration"
      ELSE IF shape # "Ok" THEN shape
      ELSE IF numbers # "Ok" THEN numbers
      ELSE ResetCheck(PlatformNumber(trace, "InitialOverride", 0),
                      PlatformNumber(trace, "InitialPstate", 965),
                      PlatformNumber(trace, "VectorBase", 0),
                      PlatformNumber(trace, "IrqLevel", 0),
                      PlatformNumber(trace, "FiqLevel", 0))

HasPlatform(trace) == Lookup(trace, "PlatformProfile").tag # "absent"

VectorBase(trace) == PlatformNumber(trace, "VectorBase", 0)

-----------------------------------------------------------------------------
(* The whole configuration *)

NumberCheck(node) == IF node.text = NotANumber THEN "InvalidTraceConfiguration" ELSE "Ok"

Number(trace, name) == Lookup(trace, name).text

RequiredNumber(trace, name) ==
  RequiredCheck(Lookup(trace, name), "integer", "InvalidTraceConfiguration", NumberCheck)

\* Every field, in the order in which they are read.
FieldsCheck(trace, capability) ==
  LET Abi(node) ==
        IF node.text = "unprovisioned-sptm-prefix" THEN "Ok" ELSE "InvalidTraceConfiguration"
      Video(node) ==
        IF node.text = "gop-framebuffer" THEN "Ok" ELSE "InvalidTraceConfiguration"
  IN  FirstError(<<
        MemoryProfileCheck(trace, capability),
        TierCheck(trace, capability),
        RequiredCheck(Lookup(trace, "HandoffAbi"), "string", "InvalidTraceConfiguration", Abi),
        RequiredCheck(Lookup(trace, "DeviceTreePath"), "string", "InvalidTraceConfiguration",
                      NoCheck),
        RequiredNumber(trace, "PhysicalBase"), RequiredNumber(trace, "VirtualBase"),
        RequiredNumber(trace, "MemorySize"), RequiredNumber(trace, "ActualMemorySize"),
        RequiredNumber(trace, "KernelPhysical"),
        OptionalCheck(Lookup(trace, "DeviceTreePath"), "string", KernelPathCheck),
        RequiredNumber(trace, "InstructionBudget"),
        PlatformCheck(trace),
        OptionalCheck(Lookup(trace, "Video"), "string", Video)>>)

\* Memory of a granule's multiple, with the kernel in it, at addresses that
\* have an end.
MemoryCheck(trace) ==
  LET physical == Number(trace, "PhysicalBase")
      virtual == Number(trace, "VirtualBase")
      size == Number(trace, "MemorySize")
      actual == Number(trace, "ActualMemorySize")
      kernel == Number(trace, "KernelPhysical")
  IN  IF \/ size < LeastMemory \/ size > MostMemory
         \/ \E n \in {size, physical, kernel, virtual, actual} : n % Granule # 0
         \/ HasMemoryProfile(trace) /\ ~ HasPlatform(trace)
         \/ actual < size
         \/ physical + size > MaxNumber \/ virtual + size > MaxNumber
         \/ kernel < physical \/ kernel >= physical + size
        THEN "InvalidTraceConfiguration" ELSE "Ok"

\* The budget is the one of the tier, or one of the fixed steps up to the limit.
BudgetCheck(trace, limit) ==
  LET budget == Number(trace, "InstructionBudget")
      selected == SelectedBudget(trace)
      maximum == IF selected = {} THEN limit ELSE CHOOSE n \in selected : TRUE
  IN  IF \/ budget = 0
         \/ selected # {} /\ (budget \notin selected \/ ~ HasPlatform(trace))
         \/ budget > (IF HasPlatform(trace) THEN maximum ELSE 8)
         \/ budget > 64 /\ budget \notin {256, 1024, 4096} \cup selected
        THEN "InvalidTraceConfiguration" ELSE "Ok"

VectorCheck(trace) ==
  LET physical == Number(trace, "PhysicalBase")
      vector == VectorBase(trace)
  IN  IF /\ HasPlatform(trace) /\ vector # 0
         /\ \/ vector < physical
            \/ vector + VectorAlign > MaxNumber
            \/ vector + VectorAlign > physical + Number(trace, "MemorySize")
        THEN "InvalidPlatformConfiguration" ELSE "Ok"

TraceNode(document) == Lookup(KernelNode(document), "Trace")

\* parse_arm64_trace_with_policy()
TraceCheck(document, limit, capability) ==
  LET Fields(trace) ==
        IF FieldsCheck(trace, capability) # "Ok" THEN FieldsCheck(trace, capability)
        ELSE FirstError(<<MemoryCheck(trace), BudgetCheck(trace, limit), VectorCheck(trace)>>)
  IN  IF KernelCheck(document, ArmProfiles) # "Ok" THEN KernelCheck(document, ArmProfiles)
      ELSE IF KernelTarget(document).profile # "x86-efi-arm64-trace"
        THEN "UnsupportedKernelProfile"
      ELSE RequiredCheck(TraceNode(document), "dict", "InvalidTraceConfiguration", Fields)

\* parse_arm64_trace_configuration(), ..._with_limit()
TraceCheckWithLimit(document, limit) ==
  IF \A n \in DOMAIN Limits : limit # Limits[n] THEN "InvalidTraceConfiguration"
  ELSE TraceCheck(document, limit, "Ordinary")

\* The entries in the order in which they were added, each reading with more.
Entries ==
  [n \in 1 .. Len(Limits) + Len(Capabilities) - 1 |->
     IF n <= Len(Limits) THEN [capability |-> "Ordinary", limit |-> Limits[n]]
     ELSE [capability |-> Capabilities[n - Len(Limits) + 1], limit |-> Limits[Len(Limits)]]]

\* What the n-th entry says of a document.
TraceOutcome(document, n) ==
  IF Entries[n].capability = "Ordinary" THEN TraceCheckWithLimit(document, Entries[n].limit)
  ELSE TraceCheck(document, Entries[n].limit, Entries[n].capability)

=============================================================================
