-------------------------------- MODULE Hnsw --------------------------------
(***************************************************************************)
(* The graph of src/src/r_vector.rs: HnswIndex, and what insert, update,   *)
(* delete and search of VectorDb do with it.  The write lock of            *)
(* AsyncVectorDb makes each of them one step; crashes are in VectorStore.  *)
(*                                                                         *)
(* A vector is a direction in a half plane, given by its angle: the order  *)
(* of cosine distances is the order of the differences of the angles.      *)
(* Equal distances are ordered by id; the code leaves them as its heap has *)
(* them.  Ids are one more than in the code; 0 is NONE.                    *)
(***************************************************************************)
EXTENDS Naturals, Sequences, FiniteSets, SequencesExt, SortedSets

CONSTANTS
    Angles,         \* directions of vectors
    Zero,           \* the all-zero vector of placeholder rows
    M,              \* m: links of a node per upper layer
    M0,             \* m0: links of a node in layer 0
    MaxLevel,       \* max_level
    EfConstruction, \* ef_construction
    Updated,        \* which rows callers update: the entry point, others
    MaxRows,        \* bound: rows
    MaxUpdates      \* bound: updates

ASSUME AnglesAssumption == Angles \subseteq Nat /\ IsFiniteSet(Angles) /\ Angles # {} /\ Zero \notin Angles
ASSUME HnswAssumption ==
    {M, M0, EfConstruction} \subseteq Nat \ {0} /\ {MaxLevel, MaxRows, MaxUpdates} \subseteq Nat
ASSUME UpdatedAssumption == Updated \subseteq {"entry", "other"}

VARIABLES
    rows,           \* vector, level and tombstone of each row
    links,          \* the neighbour lists, per node and layer
    entry,          \* entry_point
    top,            \* max_level of the header
    updates         \* how many updates there were; no code reads it

vars == <<rows, links, entry, top, updates>>

Layers == 0 .. MaxLevel
NoLinks == [l \in Layers |-> <<>>]

Init == rows = <<>> /\ links = <<>> /\ entry = 0 /\ top = 0 /\ updates = 0

(***************************************************************************)
(* Distances, over the vectors vs of the rows                              *)
(***************************************************************************)
Far == 1 + Max(Angles)
Apart(a, b) == IF a > b THEN a - b ELSE b - a
Dist(vs, n, v) == IF vs[n] = Zero THEN Far ELSE Apart(vs[n], v)
Before(vs, v, m, n) ==
    LET dm == Dist(vs, m, v) dn == Dist(vs, n, v) IN dm < dn \/ (dm = dn /\ m < n)
Nearest(vs, v, S) == CHOOSE n \in S : \A m \in S \ {n} : Before(vs, v, n, m)
Farthest(vs, v, S) == CHOOSE n \in S : \A m \in S \ {n} : Before(vs, v, m, n)
Sorted(vs, v, S) == InOrder(S, {mn \in S \X S : Before(vs, v, mn[1], mn[2])})

\* Mutation: the list is not cut.
SelectAll(vs, v, ids, cap) == ids

\* The first loop of select_neighbors_heuristic: the places of those that are no nearer
\* to one already taken than to v.
Spread(vs, v, ids, cap) ==
    LET taken[i \in 0 .. Len(ids)] ==
            IF i = 0 THEN {}
            ELSE LET sel == taken[i - 1] IN
                 IF /\ Cardinality(sel) < cap
                    /\ \A j \in sel : Dist(vs, ids[j], vs[ids[i]]) >= Dist(vs, ids[i], v)
                 THEN sel \cup {i} ELSE sel
    IN  taken[Len(ids)]

\* select_neighbors_heuristic: those, then the nearest of the others, up to the capacity.
SelectNeighbors(vs, v, ids, cap) ==
    LET spread == Spread(vs, v, ids, cap)
        places == Ascending(spread) \o Ascending(DOMAIN ids \ spread)
    IN  IF Len(ids) <= cap THEN ids ELSE [k \in 1 .. cap |-> ids[places[k]]]

Capacity(layer) == IF layer = 0 THEN M0 ELSE M

\* Mutation: a node that is linked already is pushed again.
PushAgain(ids, new) == Append(ids, new)

Push(ids, new) == IF new \in Range(ids) THEN ids ELSE Append(ids, new)

\* The list by distance from v; neighbours that are placeholders by now are dropped.
ByDistance(vs, v, list) ==
    LET real == {i \in DOMAIN list : vs[list[i]] # Zero}
        places == InOrder(real, {ij \in real \X real :
                      \/ Before(vs, v, list[ij[1]], list[ij[2]])
                      \/ list[ij[1]] = list[ij[2]] /\ ij[1] < ij[2]})
    IN  [k \in DOMAIN places |-> list[places[k]]]

\* add_link: the list with the new node, by distance and cut to the capacity.
AddLink(g, vs, id, layer, new) ==
    [g EXCEPT ![id][layer] =
        SelectNeighbors(vs, vs[id], ByDistance(vs, vs[id], Push(g[id][layer], new)), Capacity(layer))]

(***************************************************************************)
(* Walks.  No loop needs more turns than there are rows: a greedy walk     *)
(* comes nearer with each, and search_layer takes no node twice.           *)
(***************************************************************************)
\* A turn of the greedy walk: the first of the nearest neighbours, if it is nearer.
Closer(g, vs, v, layer, skip, ep) ==
    LET list == g[ep][layer]
        dist(i) == Dist(vs, list[i], v)
        nearer == {i \in DOMAIN list :
                      list[i] \notin skip /\ vs[list[i]] # Zero /\ dist(i) < Dist(vs, ep, v)}
        first == CHOOSE i \in nearer :
                     \A j \in nearer : dist(i) < dist(j) \/ (dist(i) = dist(j) /\ i <= j)
    IN  IF nearer = {} THEN ep ELSE list[first]

\* The greedy walk in one layer.
Descend(g, vs, v, layer, skip, ep) ==
    LET at[k \in 0 .. Len(vs)] ==
            IF k = 0 THEN ep ELSE Closer(g, vs, v, layer, skip, at[k - 1])
    IN  at[Len(vs)]

\* ... through the layers from high down to low.
DescendTo(g, vs, v, low, high, skip, ep) ==
    LET at[k \in 0 .. high] ==
            IF k = 0 THEN ep ELSE Descend(g, vs, v, high + 1 - k, skip, at[k - 1])
    IN  IF high < low THEN ep ELSE at[high + 1 - low]

Full(ef, w) == Cardinality(w.res) >= ef
Worst(vs, v, w) == Dist(vs, Farthest(vs, v, w.res), v)

\* A neighbour n in the loop of search_layer: cand are the candidates, res the ef best so far.
Visit(vs, v, ef, dead, w, n) ==
    LET res == IF n \in dead THEN w.res
               ELSE IF ~Full(ef, w) THEN w.res \cup {n}
               ELSE (w.res \cup {n}) \ {Farthest(vs, v, w.res \cup {n})}
    IN  IF n \in w.visited THEN w
        ELSE IF vs[n] = Zero \/ (Full(ef, w) /\ Dist(vs, n, v) >= Worst(vs, v, w))
        THEN [w EXCEPT !.visited = @ \cup {n}]
        ELSE [visited |-> w.visited \cup {n}, cand |-> w.cand \cup {n}, res |-> res]

\* All neighbours of a candidate.
VisitAll(vs, v, ef, dead, w, list) ==
    LET at[i \in 0 .. Len(list)] ==
            IF i = 0 THEN w ELSE Visit(vs, v, ef, dead, at[i - 1], list[i])
    IN  at[Len(list)]

\* A turn of the loop of search_layer: the nearest candidate, unless none is near enough.
Expand(g, vs, v, layer, ef, dead, w) ==
    LET c == Nearest(vs, v, w.cand)
    IN  IF w.cand = {} \/ (Full(ef, w) /\ Dist(vs, c, v) > Worst(vs, v, w)) THEN w
        ELSE VisitAll(vs, v, ef, dead, [w EXCEPT !.cand = @ \ {c}], g[c][layer])

\* A placeholder is only a place to start.
WalkStart(vs, dead, ep) ==
    [visited |-> {ep}, cand |-> {ep}, res |-> IF vs[ep] = Zero THEN {} ELSE {ep} \ dead]

Walk(g, vs, v, layer, ef, dead, ep) ==
    LET at[k \in 0 .. Len(vs)] ==
            IF k = 0 THEN WalkStart(vs, dead, ep) ELSE Expand(g, vs, v, layer, ef, dead, at[k - 1])
    IN  at[Len(vs)].res

\* search_layer: nearest first, without the deleted.
SearchLayer(g, vs, v, layer, ef, dead, ep) == Sorted(vs, v, Walk(g, vs, v, layer, ef, dead, ep))

\* Mutation: the neighbour does not learn of the new node.
OneWay(g, vs, id, layer, n) == AddLink(g, vs, id, layer, n)

BothWays(g, vs, id, layer, n) == AddLink(AddLink(g, vs, id, layer, n), vs, n, layer, id)

LinkAll(g, vs, id, layer, ns) ==
    LET at[i \in 0 .. Len(ns)] ==
            IF i = 0 THEN g ELSE BothWays(at[i - 1], vs, id, layer, ns[i])
    IN  at[Len(ns)]

\* The linking of a node in one layer; the next starts at the nearest found.
LinkLayer(vs, id, layer, dead, x) ==
    LET found == SearchLayer(x.g, vs, vs[id], layer, EfConstruction, dead, x.ep)
    IN  [g |-> LinkAll(x.g, vs, id, layer, SelectNeighbors(vs, vs[id], found, Capacity(layer))),
         ep |-> IF found = <<>> THEN x.ep ELSE found[1]]

\* ... from layer high down to 0.
LinkFrom(g, vs, id, high, dead, ep) ==
    LET at[k \in 0 .. high + 1] ==
            IF k = 0 THEN [g |-> g, ep |-> ep] ELSE LinkLayer(vs, id, high + 1 - k, dead, at[k - 1])
    IN  at[high + 1].g

(***************************************************************************)
(* Operations of VectorDb                                                  *)
(***************************************************************************)
Dead == {n \in DOMAIN rows : rows[n].dead}
Vectors == [n \in DOMAIN rows |-> rows[n].vec]

\* clearing the lists of a node up to its level
Cleared(g, id, level) == [g EXCEPT ![id] = [l \in Layers |-> IF l <= level THEN <<>> ELSE @[l]]]

\* HnswIndex::insert of a row that is already stored, with the level that was drawn.
Link(g, vs, id, level) ==
    IF entry = 0
    THEN links' = Cleared(g, id, level) /\ entry' = id /\ top' = level
    ELSE LET ep == DescendTo(g, vs, vs[id], level + 1, top, {}, entry) IN
         /\ links' = LinkFrom(Cleared(g, id, level), vs, id, Min({level, top}), {}, ep)
         /\ entry' = IF level > top THEN id ELSE entry
         /\ top' = Max({level, top})

\* insert, insert_raw: a placeholder gets a level and no links.
Insert(v, level) ==
    LET id == Len(rows) + 1
        g == Append(links, NoLinks)
    IN  /\ Len(rows) < MaxRows
        /\ rows' = Append(rows, [vec |-> v, level |-> level, dead |-> FALSE])
        /\ IF v = Zero THEN links' = g /\ UNCHANGED <<entry, top>>
           ELSE Link(g, Append(Vectors, v), id, level)
        /\ UNCHANGED updates

\* delete: the node stays in the graph.
Delete(id) ==
    /\ ~rows[id].dead
    /\ rows' = [rows EXCEPT ![id].dead = TRUE]
    /\ UNCHANGED <<links, entry, top, updates>>

\* find_indexable_row
Indexable(vs, id) == {n \in DOMAIN rows \ {id} : ~rows[n].dead /\ vs[n] # Zero}

\* Mutation: the header keeps the old level.
TopOnlyRises(n) == Max({top, rows[n].level})

\* The level of the graph after another entry point was picked.
TopOf(n) == rows[n].level

\* Mutation: an entry point that became a placeholder stays.
StaysEntry(id) == FALSE

LosesEntry(id) == entry = id

\* rebuild_hnsw_node when the row became a placeholder.
Unlink(g, vs, id) ==
    /\ links' = g
    /\ IF ~LosesEntry(id) THEN UNCHANGED <<entry, top>>
       ELSE IF Indexable(vs, id) = {} THEN entry' = 0 /\ top' = 0
       ELSE entry' = Min(Indexable(vs, id)) /\ top' = TopOf(Min(Indexable(vs, id)))

\* rebuild_hnsw_node in a graph that has an entry point.  The deleted are not linked again;
\* the node itself may be found, through its neighbours.
Relink(g, vs, id) ==
    LET start == IF entry # id THEN entry ELSE Min(Indexable(vs, id))
        ep == DescendTo(g, vs, vs[id], 1, top, Dead \cup {id}, start)
    IN  /\ links' = IF entry = id /\ Indexable(vs, id) = {} THEN g
                    ELSE LinkFrom(g, vs, id, rows[id].level, Dead, ep)
        /\ UNCHANGED <<entry, top>>

Update(id, v, level) ==
    LET vs == [Vectors EXCEPT ![id] = v]
        g == Cleared(links, id, rows[id].level)
        drawn == v # Zero /\ entry = 0
    IN  /\ ~rows[id].dead /\ updates < MaxUpdates
        /\ (IF id = entry THEN "entry" ELSE "other") \in Updated
        /\ ~drawn => level = rows[id].level
        /\ rows' = [rows EXCEPT ![id].vec = v, ![id].level = level]
        /\ updates' = updates + 1
        /\ IF v = Zero THEN Unlink(g, vs, id)
           ELSE IF drawn THEN Link(g, vs, id, level)
           ELSE Relink(g, vs, id)

\* VectorDb::search widens ef with the hits asked for and with the rows deleted.
Wide(k, ef) ==
    IF k <= 100 THEN Max({ef, 2 * k}) + Min({32, Cardinality(Dead)})
    ELSE Max({ef, 4 * k}) + Min({64, Cardinality(Dead)})

\* search: the k nearest, nearest first.
Search(v, k, ef) ==
    LET ep == DescendTo(links, Vectors, v, 1, top, Dead, entry)
        found == SearchLayer(links, Vectors, v, 0, Wide(k, ef), Dead, ep)
    IN  IF entry = 0 THEN <<>> ELSE SubSeq(found, 1, Min({k, Len(found)}))

Next ==
    \/ \E v \in Angles \cup {Zero}, level \in Layers : Insert(v, level)
    \/ \E id \in DOMAIN rows : Delete(id)
    \/ \E id \in DOMAIN rows, v \in Angles \cup {Zero}, level \in Layers : Update(id, v, level)

Spec == Init /\ [][Next]_vars

(***************************************************************************)
(* Properties                                                              *)
(***************************************************************************)
Live == {n \in DOMAIN rows : ~rows[n].dead /\ rows[n].vec # Zero}

\* Types; the lists fit their slots in the file.
GraphTypeOK ==
    /\ rows \in Seq([vec : Angles \cup {Zero}, level : Layers, dead : BOOLEAN])
    /\ links \in [DOMAIN rows -> [Layers -> Seq(DOMAIN rows)]]
    /\ \A n \in DOMAIN links : \A l \in Layers : Len(links[n][l]) <= Capacity(l)
    /\ entry \in 0 .. Len(rows) /\ top \in Layers /\ updates \in Nat

\* However rows came, went and turned into placeholders and back, the entry point is a node
\* with a vector and the height of the graph is its level; there is none only if there is
\* nothing to find.
EntryUsable ==
    IF entry = 0 THEN Live = {} ELSE rows[entry].vec # Zero /\ top = rows[entry].level

\* No node is twice in a list, though add_link runs in both directions and over stale
\* lists, and a placeholder has no links of its own (those above its level are not used).
LinksWellFormed ==
    \A n \in DOMAIN links : \A l \in Layers :
        IsInjective(links[n][l]) /\ (rows[n].vec = Zero /\ l <= rows[n].level => links[n][l] = <<>>)

\* What a search for more than there is returns: every live vector.
AllFound == \A v \in Angles : Range(Search(v, Len(rows) + 1, 1)) = Live

\* Without updates and with room in the lists, whatever was deleted in between: the links
\* of deleted nodes still lead to the live ones.
FoundUnlessUpdated == updates = 0 /\ Len(rows) <= M0 + 1 => AllFound

\* After updates of the entry point alone, the only rows updated where Updated is
\* {"entry"}, the graph stays connected.  Claimed for rows that are all live and
\* different, so that no distances are equal.
StaysConnected == Live = DOMAIN rows /\ IsInjective(Vectors) => AllFound
=============================================================================
