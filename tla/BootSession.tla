------------------------------- MODULE BootSession -------------------------------
(***************************************************************************)
(* One boot, as a caller strings the parsers, the picker and the records   *)
(* together.  A configuration with EFI entries leads to a menu or straight *)
(* to its one target; one without them to its kernel, which is either      *)
(* traced or backed by the records of a selected boot.                     *)
(*                                                                         *)
(* The caller is not part of the crate: what it does between two calls is  *)
(* the least that their results ask for.                                   *)
(***************************************************************************)
EXTENDS TraceConfiguration, BootPicker, SelectedBootInput, FiniteSets

CONSTANTS
  Boots   \* [document, screen, input]: configurations, modes of the screen, and the
          \* records, files and capacities of selected boots

VARIABLES
  document,     \* the configuration
  screen,       \* the mode of the firmware's screen
  input,        \* the records and files that come with the boot
  stage,        \* where the boot is
  menu,         \* what parse_boot_menu() returned
  selected,     \* the selection in the picker
  picture,      \* what render() drew last: its tiles, none before
  booted,       \* the entry that is started, if one is
  traced,       \* the entry point that read the trace, and what it said
  destination   \* where the payload goes

bootVars ==
  <<document, screen, input, stage, menu, selected, picture, booted, traced, destination>>

inputVars == <<document, screen, input>>

\* What the types of the code say of a boot: pixels and sizes are unsigned, the
\* entries of a menu are a list, and a number is one.
ASSUME BootAssumption ==
  \A boot \in Boots :
    /\ {boot.screen.width, boot.screen.height, boot.input.capacity, boot.input.decoded.length}
         \subseteq Nat
    /\ DocumentCheck(boot.document) = "Ok" =>
         LET misc == Lookup(Dictionary(boot.document), "Misc")
         IN  misc.tag = "dict" =>
               LET entries == Lookup(misc, "Entries")
               IN  entries.tag = "array" =>
                     /\ Len(entries.children) \in Nat
                     /\ DOMAIN entries.children = 1 .. Len(entries.children)
    /\ KernelCheck(boot.document, ArmProfiles) = "Ok" =>
         LET trace == TraceNode(boot.document)
         IN  trace.tag = "dict" =>
               LET budget == Lookup(trace, "InstructionBudget")
               IN  budget.tag = "integer" => budget.text \in Int

Blank == <<"old", 0>>

BootInit ==
  /\ \E boot \in Boots :
       document = boot.document /\ screen = boot.screen /\ input = boot.input
  /\ stage = "start"
  /\ menu = Menu(FALSE, <<>>)
  /\ selected = 0
  /\ picture = <<>>
  /\ booted = {}
  /\ traced = [entry |-> 0, outcome |-> "not read"]
  /\ destination = [n \in 1 .. input.capacity |-> Blank]

-----------------------------------------------------------------------------
(* The menu *)

ReadMenu ==
  /\ stage = "start"
  /\ menu' = ParseBootMenu(document)
  /\ stage' = CASE menu'.error # "Ok" -> "refused"
                [] menu'.entries = <<>> -> "kernel"
                [] menu'.showPicker -> "draw"
                [] OTHER -> "started"
  /\ booted' = IF stage' = "started" THEN {0} ELSE {}
  /\ UNCHANGED <<selected, picture, traced, destination, inputVars>>

Draw ==
  /\ stage = "draw"
  /\ IF ViewCheck(screen.width, screen.height, Len(menu.entries), selected) # "Ok"
       THEN stage' = "refused" /\ UNCHANGED picture
       ELSE /\ stage' = "keys"
            /\ picture' = Render(screen.width, screen.height, Len(menu.entries), selected)
  /\ UNCHANGED <<menu, selected, booted, traced, destination, inputVars>>

Press(action) ==
  LET update == Update(selected, Len(menu.entries), action)
  IN  /\ stage = "keys"
      /\ selected' = IF update = "Cancel" THEN selected
                     ELSE Move(selected, Len(menu.entries), action)
      /\ booted' = IF update = "Boot" THEN {selected} ELSE booted
      /\ stage' = CASE update = "Redraw" -> "draw"
                    [] update = "Unchanged" -> "keys"
                    [] update = "Boot" -> "started"
                    [] update = "Cancel" -> "refused"
      /\ UNCHANGED <<menu, picture, traced, destination, inputVars>>

-----------------------------------------------------------------------------
(* The kernel *)

ReadKernel ==
  /\ stage = "kernel"
  /\ stage' = IF KernelCheck(document, ArmProfiles) # "Ok" THEN "refused"
              ELSE IF KernelTarget(document).profile = "x86-efi-arm64-trace" THEN "trace"
              ELSE "records"
  /\ UNCHANGED <<menu, selected, picture, booted, traced, destination, inputVars>>

\* Which entry point reads the trace depends on what the caller is built for.
ReadTrace(n) ==
  /\ stage = "trace"
  /\ traced' = [entry |-> n, outcome |-> TraceOutcome(document, n)]
  /\ stage' = IF traced'.outcome = "Ok" THEN "started" ELSE "refused"
  /\ UNCHANGED <<menu, selected, picture, booted, destination, inputVars>>

-----------------------------------------------------------------------------
(* The selected boot *)

ReadRecords ==
  /\ stage = "records"
  /\ stage' = IF FirstError(<<SealCheck(input.sealed, input.selected),
                              SelectedCheck(input.selected), PayloadCheck(input.payload),
                              BootKcCheck(input.bootKc), CompanionsCheck(input.companions)>>) = "Ok"
                THEN "bindings" ELSE "refused"
  /\ UNCHANGED <<menu, selected, picture, booted, traced, destination, inputVars>>

\* The paths that other files of the boot have.
Reserved ==
  <<Value(input.selected, "image-path"), Value(input.payload, "decoded-path"),
    Value(input.bootKc, "signed-path"), Value(input.bootKc, "decoded-path")>>

CheckBindings ==
  /\ stage = "bindings"
  /\ stage' = IF /\ MatchesPath(input.bootKc, input.selected, KernelTarget(document).path)
                 /\ Binds(input.companions, input.selected)
                 /\ DisjointFrom(input.companions, Reserved)
                THEN "copy" ELSE "refused"
  /\ UNCHANGED <<menu, selected, picture, booted, traced, destination, inputVars>>

\* copy_selected_payload()
CopyPayload ==
  LET check == CopyCheck(input.selected, input.signed, input.payload, input.decoded,
                         Len(destination))
  IN  /\ stage = "copy"
      /\ stage' = IF check = "Ok" THEN "started" ELSE "refused"
      /\ destination' = IF check = "Ok" THEN Copied(destination, input.decoded) ELSE destination
      /\ UNCHANGED <<menu, selected, picture, booted, traced, inputVars>>

BootNext ==
  \/ ReadMenu
  \/ Draw
  \/ \E action \in Actions : Press(action)
  \/ ReadKernel
  \/ \E n \in DOMAIN Entries : ReadTrace(n)
  \/ ReadRecords
  \/ CheckBindings
  \/ CopyPayload

BootSpec == BootInit /\ [][BootNext]_bootVars

-----------------------------------------------------------------------------
(* Properties *)

\* The targets of the menu's entries.
MenuTargets == [n \in DOMAIN menu.entries |-> menu.entries[n].target]

\* The two parsers of EFI entries agree: without a picker the menu is refused
\* or accepted exactly as parse_boot_target() does it, with the same target;
\* with one, what both accept is the same single target.
MenuMatchesTarget ==
  LET target == ParseBootTarget(document)
      asked == IF DocumentCheck(document) # "Ok" THEN FALSE
               ELSE LET misc == Lookup(Dictionary(document), "Misc")
                    IN  misc.tag = "dict" /\ (PickerCheck(misc) # "Ok" \/ ShowPicker(misc))
  IN  stage \in {"refused", "kernel", "draw", "started"} /\ picture = <<>> =>
        /\ ~ asked => menu.error = target.error
        /\ menu.error = "Ok" /\ target.error = "Ok" => MenuTargets = target.targets

\* Every picture that is on the screen is sound, for the menu it shows.
PicturesAreSound ==
  stage = "keys" => WindowIsSound(picture, screen.width, screen.height, Len(menu.entries), selected)

\* What Enter boots is what the screen marks: the entry that is started from
\* the picker is the marked one of the last picture, whatever keys came since.
BootsWhatIsShown ==
  booted # {} /\ picture # <<>> =>
    \A n \in DOMAIN picture : picture[n].active <=> picture[n].index \in booted

\* The screen tells the truth: every picture on it is sound for the menu it
\* shows, marks what is selected, and what it marks is what Enter boots.
PickerTellsTheTruth == PicturesAreSound /\ BootsWhatIsShown

\* Each entry point that was added reads all that the earlier ones read: a
\* trace that one of them accepts is accepted by every later one.
CapabilitiesNest ==
  traced.outcome = "Ok" =>
    \A n \in DOMAIN Entries :
      n > traced.entry => TraceOutcome(document, n) = "Ok"

PayloadIsCopied == destination # [n \in 1 .. input.capacity |-> Blank]

\* The destination changes only for a boot whose records, files and kernel
\* path all name one another; it then holds the payload's bytes in front and
\* what it held behind them.
CopiesOnlyTheBound ==
  PayloadIsCopied =>
    /\ input.signed.digest = Value(input.selected, "image-sha256")
    /\ input.signed.digest = Value(input.payload, "signed-sha256")
    /\ input.decoded.digest = Value(input.payload, "decoded-sha256")
    /\ KernelTarget(document).path = Value(input.bootKc, "decoded-path")
    /\ Cardinality({IdentityOf(input.selected), IdentityOf(input.bootKc),
                    IdentityOf(input.companions)}) = 1
    /\ input.decoded.length <= input.capacity
    /\ \A n \in DOMAIN destination :
         destination[n] = IF n <= input.decoded.length THEN <<input.decoded.digest, n>> ELSE Blank

\* The pairs of paths that the code compares are pairs of files when a boot uses
\* them.  A companion has each of its files for itself, on a volume that does
\* not tell cases apart: the other companion, the image, the payload and the
\* boot collection have another.  The collection's own two paths differ as
\* they are written, and so do those of the image and of the payload that is
\* copied.  No other pair is compared: the image or the payload and a file of
\* the collection may be one, and so may these pairs on such a volume.
ComparedPathsDiffer ==
  stage = "copy" \/ PayloadIsCopied =>
    /\ LET paths == CompanionPaths(input.companions) \o Reserved
       IN  \A m \in 1 .. 4, n \in DOMAIN paths : m < n => paths[m].parts # paths[n].parts
    /\ Value(input.bootKc, "signed-path") # Value(input.bootKc, "decoded-path")
    /\ PayloadIsCopied =>
         Value(input.payload, "decoded-path") # Value(input.selected, "image-path")

\* The parts of a boot that are read apart belong together when they are used,
\* by digest, identity and path, and a file has no two roles of a pair that the
\* code compares.
PartsBelongTogether == CopiesOnlyTheBound /\ ComparedPathsDiffer

=============================================================================
