------------------------------- MODULE BootPicker -------------------------------
(***************************************************************************)
(* The boot menu on the screen (src/src/boot_picker.rs): navigate() moves  *)
(* a selection, render() draws a window of the entries around it.  Glyphs, *)
(* colours and the roundness of corners are left out; what is kept of a    *)
(* picture is which entries are on it, where, and which one is marked.     *)
(* Entries count from 0, as in the code.                                   *)
(***************************************************************************)
EXTENDS Integers, Sequences, Checks

Least(a, b) == IF a <= b THEN a ELSE b

\* saturating_sub()
Minus(a, b) == IF a <= b THEN 0 ELSE a - b

-----------------------------------------------------------------------------
(* navigate() *)

Actions == {"Previous", "Next", "First", "Last", "Boot", "Cancel", "None"}

Move(selected, count, action) ==
  CASE action = "Previous" -> IF selected = 0 THEN count - 1 ELSE selected - 1
    [] action = "Next" -> (selected + 1) % count
    [] action = "First" -> 0
    [] action = "Last" -> count - 1
    [] OTHER -> selected

\* A fault: a jump to either end is not told to be a change.
UpdateOfSteps(selected, count, action) ==
  CASE count = 0 \/ selected >= count \/ action = "Cancel" -> "Cancel"
    [] action = "Boot" -> "Boot"
    [] OTHER -> IF action \in {"Previous", "Next"} /\ Move(selected, count, action) # selected
                  THEN "Redraw" ELSE "Unchanged"

\* What the caller is told to do.
Update(selected, count, action) ==
  CASE count = 0 \/ selected >= count \/ action = "Cancel" -> "Cancel"
    [] action = "Boot" -> "Boot"
    [] OTHER -> IF Move(selected, count, action) = selected THEN "Unchanged" ELSE "Redraw"

-----------------------------------------------------------------------------
(* render() *)

\* The checks of a call; an allocation that fails is left out.
ViewCheck(width, height, count, selected) ==
  FirstRefusal(<<
    <<width < 640 \/ height < 480 \/ width > 4096 \/ height > 2160, "Dimensions">>,
    <<count = 0 \/ count > 64 \/ selected >= count, "Selection">> >>)

Pad(width) == IF width >= 900 THEN 56 ELSE 32

Gap == 20

\* How many tiles stand side by side.
Visible(width, count) ==
  Least(IF width >= 1080 THEN 3 ELSE IF width >= 740 THEN 2 ELSE 1, count)

TileWidth(width, count) ==
  LET visible == Visible(width, count)
  IN  Least((width - Pad(width) * 2 - Gap * (visible - 1)) \div visible, 280)

TileHeight(height) == IF height >= 600 THEN 236 ELSE 164

TileTop(height) ==
  IF height >= 600 THEN (height - TileHeight(height)) \div 2 + 32 ELSE 185

\* The title, its second line of seven pixels, and the rule above the footer.
TitleEnd(height) == (IF height >= 600 THEN 142 ELSE 123) + 34 + 7

FooterRule(height) == height - 46 - 20

\* Where the row of tiles starts.
RowStart(width, count) ==
  LET visible == Visible(width, count)
  IN  (width - (visible * TileWidth(width, count) + (visible - 1) * Gap)) \div 2

\* The first entry in the window.
First(width, count, selected) ==
  LET visible == Visible(width, count)
  IN  Least(Minus(selected, visible \div 2), count - visible)

TileLeft(width, count, slot) ==
  RowStart(width, count) + slot * (TileWidth(width, count) + Gap)

\* What is drawn: the tiles from left to right, with the entry of each.
Render(width, height, count, selected) ==
  [n \in 1 .. Visible(width, count) |->
     [index  |-> First(width, count, selected) + n - 1,
      active |-> First(width, count, selected) + n - 1 = selected,
      left   |-> TileLeft(width, count, n - 1),
      right  |-> TileLeft(width, count, n - 1) + TileWidth(width, count),
      top    |-> TileTop(height),
      bottom |-> TileTop(height) + TileHeight(height)]]

-----------------------------------------------------------------------------
(* Properties of a picture *)

\* A picture shows entries that exist, each once and in their order, the
\* selected one among them and it alone marked; its tiles stand apart from one
\* another, between the margins, below the title and above the footer.
WindowIsSound(tiles, width, height, count, selected) ==
  /\ \A n \in DOMAIN tiles :
       /\ tiles[n].index \in 0 .. count - 1
       /\ tiles[n].active <=> tiles[n].index = selected
       /\ Pad(width) <= tiles[n].left /\ tiles[n].right <= width - Pad(width)
       /\ TitleEnd(height) <= tiles[n].top /\ tiles[n].bottom <= FooterRule(height)
  /\ \A m, n \in DOMAIN tiles :
       m < n => /\ tiles[m].index < tiles[n].index
                /\ tiles[m].right + Gap <= tiles[n].left
  /\ \E n \in DOMAIN tiles : tiles[n].active

=============================================================================
