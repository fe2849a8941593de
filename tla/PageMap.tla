-------------------------------- MODULE PageMap --------------------------------
(***************************************************************************)
(* What a set of translation tables under construction promises            *)
(* (src/src/arm64_stage1_tables.rs): the pages that it translates grow by  *)
(* one at a time, a page keeps its translation, and an error gives up the  *)
(* whole set.                                                              *)
(***************************************************************************)
CONSTANTS
  Pages,      \* the virtual pages
  Targets     \* where a page may lie in physical memory

VARIABLE
  translation   \* the physical address of each virtual page that has one

NoPages == [page \in {} |-> page]

Map(page, target) ==
  /\ page \notin DOMAIN translation
  /\ translation' = [p \in DOMAIN translation \cup {page} |->
                       IF p = page THEN target ELSE translation[p]]

Discard == translation' = NoPages

MapInit == translation = NoPages

MapNext == Discard \/ \E page \in Pages, target \in Targets : Map(page, target)

MapSpec == MapInit /\ [][MapNext]_translation

=============================================================================
