--------------------------- MODULE InstalledApps ---------------------------
(***************************************************************************)
(* The tiles of the dashboard: the installed applications in an order that *)
(* drags change and the browser keeps.  The order gets every application   *)
(* it has not seen and never loses one, so that an application which is    *)
(* installed again finds its place; a drop inserts at the index of the     *)
(* tile under the pointer, counted among the tiles shown.                  *)
(***************************************************************************)
EXTENDS Integers, Sequences, FiniteSets, SequencesExt, Lists

CONSTANTS
    Tile,      \* applications
    NoDrag

ASSUME TilesAssumption == IsFiniteSet(Tile) /\ NoDrag \notin Tile

VARIABLES
    installed, \* what the last poll listed
    order,     \* the saved order, of applications no longer listed too
    drag,      \* dragKey: the application dragged last and not dropped
    over       \* dragOverIndex

tilesVars == <<installed, order, drag, over>>

\* Mutant: every poll appends what it lists.
Unfiltered(apps, known) == SetToSeq(apps)

Missing(apps, known) == SetToSeq(apps \ ToSet(known))
sortedApps(apps, o) == Filtered(o, apps)
At(o, a) == CHOOSE i \in DOMAIN o : o[i] = a

TilesInit == installed = {} /\ order = <<>> /\ drag = NoDrag /\ over = -1

\* A poll, and the effect that appends what the order misses.
PollTiles ==
    /\ installed' \in SUBSET Tile
    /\ order' = order \o Missing(installed', order)
    /\ UNCHANGED <<drag, over>>

StartDrag ==
    /\ \E a \in installed : drag' = a
    /\ UNCHANGED <<installed, order, over>>

\* Anything dragged over a tile, an application or not.
DragOver ==
    /\ over' \in 0..Cardinality(installed) - 1
    /\ UNCHANGED <<installed, order, drag>>

\* Array.prototype.splice(i, 0, a), for an index that is not negative.
Splice(o, i, a) == IF i <= Len(o) THEN InsertAt(o, i + 1, a) ELSE Append(o, a)

\* Mutant: the index is the one after the tile.
handleDropAfter ==
    /\ over \in 0..Cardinality(installed) - 1
    /\ over' = -1
    /\ IF drag = NoDrag THEN UNCHANGED order
       ELSE order' = Splice(Filtered(order, Tile \ {drag}), over + 1, drag)
    /\ drag' = NoDrag
    /\ UNCHANGED installed

\* A drop on the tile under the pointer: the application whose drag was not
\* dropped before goes there, even when what is dropped is something else.
handleDrop ==
    /\ over \in 0..Cardinality(installed) - 1
    /\ over' = -1
    /\ IF drag = NoDrag THEN UNCHANGED order
       ELSE order' = Splice(Filtered(order, Tile \ {drag}), over, drag)
    /\ drag' = NoDrag
    /\ UNCHANGED installed

\* readSavedOrder.
ReloadTiles ==
    /\ installed' = {} /\ drag' = NoDrag /\ over' = -1
    /\ UNCHANGED order

TilesNext == PollTiles \/ StartDrag \/ DragOver \/ handleDrop \/ ReloadTiles

TilesSpec == TilesInit /\ [][TilesNext]_tilesVars

-----------------------------------------------------------------------------
\* Every tile has one place.
TilesTypeOK ==
    /\ IsInjective(order)
    /\ installed \subseteq ToSet(order) /\ ToSet(order) \subseteq Tile
    /\ drag \in Tile \union {NoDrag} /\ over \in -1..Cardinality(Tile) - 1

\* handleDrop has moved a tile.
Dropped == over # -1 /\ over' = -1 /\ drag # NoDrag /\ installed' = installed

\* Two applications change places only by a drop of one of them, through
\* polls, removals, new installations and reloads; and when no application of
\* the order is missing from the page the dropped tile lands on the index it
\* was dropped on.
TilesMoveByDrop ==
    [][/\ \A a, b \in ToSet(order) :
             At(order, a) < At(order, b) =>
                 At(order', a) < At(order', b) \/ (Dropped /\ drag \in {a, b})
       /\ Dropped /\ ToSet(order) = installed /\ drag \in installed =>
             sortedApps(installed', order')[over + 1] = drag]_tilesVars

=============================================================================
