------------------------------- MODULE Places -------------------------------
(***************************************************************************)
(* The tree of physical places (api/places.rs, database.rs): facilities,   *)
(* buildings, floors, rooms, each deeper than its parent in the configured *)
(* order of types, and the special places that stand outside the order.    *)
(* Handlers run one at a time here: two moves that overlap each check a    *)
(* tree the other is changing, which is among the hazards listed.          *)
(***************************************************************************)
EXTENDS Integers, FiniteSets

CONSTANTS
    PlaceIds,
    Depths,         \* the indexes of [place].types; a type is its index
    OtherLabel,     \* a type that is not in the list, as special places may have
    PlaceNames,
    MaxPlaceSteps   \* bound on requests

VARIABLES
    places,         \* [PlaceIds -> {} or {[parent, type, name, special]}]
    placesEnabled,  \* [place].enabled
    placeSteps

placeVars == <<places, placesEnabled, placeSteps>>

ASSUME PlacesAssumption == Depths \subseteq Nat /\ OtherLabel \notin Depths

PlaceRows == [parent : {{}} \cup {{p} : p \in PlaceIds}, type : Depths \cup {OtherLabel},
              name : PlaceNames, special : BOOLEAN]
Standing == {p \in PlaceIds : places[p] # {}}
get_place(p) == CHOOSE row \in places[p] : TRUE
list_child_places(p) == {q \in Standing : p \in get_place(q).parent}

\* The parents above a place, to the root: what is in every set that holds its parent
\* and, with a place, the parent of that (the code's walk gives up after 32).
place_ancestors(p) ==
    {q \in PlaceIds : \A S \in SUBSET PlaceIds :
        get_place(p).parent \subseteq S /\ (\A x \in S \cap Standing : get_place(x).parent \subseteq S) => q \in S}

index_of(type) == type \in Depths
\* Ok iff the child's type is deeper than the parent's; both must be known.
validate_parent_child(parentType, childType) ==
    index_of(parentType) /\ index_of(childType) /\ childType > parentType

validate_place_payload(row) ==
    IF row.special THEN row.parent = {}
    ELSE /\ index_of(row.type)
         /\ \A p \in row.parent :
               /\ p \in Standing
               /\ get_place(p).special \/ validate_parent_child(get_place(p).type, row.type)

\* Unique among siblings, roots together.
sibling_name_free(p, row) ==
    \A q \in Standing \ {p} : get_place(q).parent = row.parent => get_place(q).name # row.name

NotItself(p, row) == p \notin row.parent
\* A place goes neither under itself nor under what is below it.
move_allowed(p, row) ==
    /\ p \notin row.parent
    /\ \A q \in row.parent : q \in Standing /\ p \notin place_ancestors(q)

require_enabled == placesEnabled
Asked == placeSteps < MaxPlaceSteps /\ placeSteps' = placeSteps + 1
Store(p, row) == places' = [places EXCEPT ![p] = {row}]

create_place(p, row) ==
    /\ require_enabled /\ p \notin Standing
    /\ validate_place_payload(row)
    /\ row.parent \subseteq Standing /\ sibling_name_free(p, row)
    /\ Store(p, row)
    /\ Asked /\ UNCHANGED placesEnabled

\* A request names some of the fields; the others stay as they are, and what
\* is validated is the row that results.
UPDATABLE == {"parent", "type", "name", "special"}
merged(before, asked, row) ==
    [f \in UPDATABLE |-> IF f \in asked THEN row[f] ELSE before[f]]

validates(before, asked, row) == validate_place_payload(merged(before, asked, row))

update_place(p, asked, row) ==
    /\ require_enabled /\ p \in Standing
    /\ "parent" \in asked => row.parent # {}     \* a null is read as a field that is absent
    /\ LET after == merged(get_place(p), asked, row)
       IN  /\ move_allowed(p, after)
           /\ validates(get_place(p), asked, row)
           /\ sibling_name_free(p, after)
           /\ Store(p, after)
    /\ Asked /\ UNCHANGED placesEnabled

\* Refused while it has children (ON DELETE RESTRICT).
delete_place(p) ==
    /\ p \in Standing /\ list_child_places(p) = {}
    /\ places' = [places EXCEPT ![p] = {}]
    /\ Asked /\ UNCHANGED placesEnabled

SwitchPlaces == Asked /\ placesEnabled' = ~placesEnabled /\ UNCHANGED places

PlacesInit ==
    /\ places = [p \in PlaceIds |-> {}]
    /\ placesEnabled = TRUE /\ placeSteps = 0

PlacesNext ==
    \/ \E p \in PlaceIds, row \in PlaceRows : create_place(p, row)
    \/ \E p \in PlaceIds, asked \in SUBSET UPDATABLE, row \in PlaceRows :
          \* a field that is not asked for has one value, not to be counted twice
          /\ \A f \in UPDATABLE \ asked : p \in Standing /\ row[f] = get_place(p)[f]
          /\ update_place(p, asked, row)
    \/ \E p \in PlaceIds : delete_place(p)
    \/ SwitchPlaces

PlacesSpec == PlacesInit /\ [][PlacesNext]_placeVars

\* Above every place is a root: moves never close a loop, through any number of
\* levels, and no place loses the one it is in.
PlacesFormAForest ==
    \A S \in SUBSET Standing : S # {} =>
        \E p \in S : get_place(p).parent \cap S = {} /\ get_place(p).parent \subseteq Standing

\* A place that is made special, in one request or over several, stands alone,
\* and one that is not has a type of the list.
SpecialPlacesStandAlone ==
    \A p \in Standing :
        IF get_place(p).special THEN get_place(p).parent = {}
        ELSE get_place(p).type # OtherLabel

\* Places stay a tree through any sequence of requests, so that the walks up it end, and a special place stays outside
\* it.
TreesStayTrees == PlacesFormAForest /\ SpecialPlacesStandAlone
=============================================================================
