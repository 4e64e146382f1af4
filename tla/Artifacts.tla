------------------------------ MODULE Artifacts ------------------------------
(***************************************************************************)
(* What is written of an allocated dictionary: the sections of the EDS     *)
(* file, the lines of the address map and the tables of the Markdown       *)
(* document.  Each is made from the dictionary by code of its own.  Types, *)
(* accesses, provenance and layout are left out: what is kept of an entry  *)
(* is its address and its name.                                            *)
(*                                                                         *)
(* Every artifact is written by loops over objects and their subentries.   *)
(* It is modelled as a function from the places that its loops come to,    *)
(* in the order IsBefore, to what is written there.                        *)
(***************************************************************************)
EXTENDS Dictionary

\* The places of object k, of whose subentries the set E is written: one for
\* the object itself and one for each of E.
Places(k, E) == {<<k, {}>>} \union {<<k, {e}>> : e \in E}

ObjectAt(p) == objects[p[1]]
EntryAt(p) == CHOOSE e \in p[2] : TRUE

\* Objects are visited in the order of the dictionary, each before its
\* subentries, and these in the order of their subindexes.
IsBefore(p, q) ==
    \/ p[1] < q[1]
    \/ p[1] = q[1] /\ \E f \in q[2] : \A e \in p[2] : e.subindex < f.subindex

-----------------------------------------------------------------------------
\* The EDS: [INDEX] and [INDEXsubN], with a subNumber where there are subentries.

Section(index, sub, name, subNumber) ==
    [index |-> index, sub |-> sub, name |-> name, subNumber |-> subNumber]

VariableSection(o) == Section(o.index, None, o.name, None)

\* Mutant of ContainerSection: the count of the object is announced.
SectionWithCount(o) == Section(o.index, None, o.name, o.count)

ContainerSection(o) == Section(o.index, None, o.name, Cardinality(o.entries))

EntrySection(o, e) == Section(o.index, e.subindex, e.name, None)

EdsPlaces ==
    UNION {Places(k, IF objects[k].count = None THEN {} ELSE objects[k].entries) :
              k \in DOMAIN objects}

EdsSections ==
    [p \in EdsPlaces |->
        IF p[2] # {} THEN EntrySection(ObjectAt(p), EntryAt(p))
        ELSE IF ObjectAt(p).count = None THEN VariableSection(ObjectAt(p))
        ELSE ContainerSection(ObjectAt(p))]

\* The section ManufacturerObjects announces the indexes of the sections below it.
AnnouncedIndexes ==
    LET sorted == CHOOSE p \in Bijection(DOMAIN objects, DOMAIN objects) :
                     \A j, k \in DOMAIN p : j < k => objects[p[j]].index <= objects[p[k]].index
    IN  [k \in DOMAIN objects |-> objects[sorted[k]].index]

-----------------------------------------------------------------------------
\* What a reader is shown of an object: the count is not an entry of its own.
ShownEntries(o) == {e \in o.entries : e.role # "count"}

\* The positions of the objects of a category.
ObjectsIn(c) == {k \in DOMAIN objects : objects[k].category = c}

\* The address map: a line per object and shown entry, grouped by category.  A
\* category without objects has a heading and no lines.

Line(index, subindex, name) == [index |-> index, subindex |-> subindex, name |-> name]

CategoryPlaces(c) == UNION {Places(k, ShownEntries(objects[k])) : k \in ObjectsIn(c)}

CategoryLines(c) ==
    [p \in CategoryPlaces(c) |->
        IF p[2] = {} THEN Line(ObjectAt(p).index, 0, ObjectAt(p).name)
        ELSE Line(ObjectAt(p).index, EntryAt(p).subindex, EntryAt(p).name)]

MapLines == [k \in DOMAIN Categories |-> CategoryLines(Categories[k])]

-----------------------------------------------------------------------------
\* The document: per category, each object with its table of shown entries.

ObjectTable(o) ==
    [address |-> <<o.index, 0>>, name |-> o.name,
     rows |-> [e \in ShownEntries(o) |-> [subindex |-> e.subindex, name |-> e.name]]]

DocumentTables ==
    [k \in DOMAIN Categories |-> [j \in ObjectsIn(Categories[k]) |-> ObjectTable(objects[j])]]

-----------------------------------------------------------------------------
\* The lines that the document has in the place of those of the map.
DocumentLines(k) ==
    LET tables == DocumentTables[k] IN
    [p \in UNION {Places(j, DOMAIN tables[j].rows) : j \in DOMAIN tables} |->
        LET t == tables[p[1]] IN
        IF p[2] = {} THEN Line(t.address[1], t.address[2], t.name)
        ELSE Line(t.address[1], t.rows[EntryAt(p)].subindex, t.rows[EntryAt(p)].name)]

\* What the EDS says of the addresses that a reader is shown: an object at
\* subindex 0, its subentries at theirs.
EdsAddresses ==
    {Line(s.index, IF s.sub = None THEN 0 ELSE s.sub, s.name) :
        s \in {s \in Range(EdsSections) : s.sub # 0}}

\* Lexical order of pairs, and an artifact that has its addresses in it: each of
\* them once, and always the smaller one first.
Precedes(a, b) == a[1] < b[1] \/ (a[1] = b[1] /\ a[2] < b[2])

Ascends(addresses) ==
    \A p, q \in DOMAIN addresses :
        \/ p = q
        \/ IsBefore(p, q) /\ Precedes(addresses[p], addresses[q])
        \/ IsBefore(q, p) /\ Precedes(addresses[q], addresses[p])

SectionAddresses ==
    [p \in EdsPlaces |->
        <<EdsSections[p].index, IF EdsSections[p].sub = None THEN -1 ELSE EdsSections[p].sub>>]

LineAddresses(k) ==
    [p \in DOMAIN MapLines[k] |-> <<MapLines[k][p].index, MapLines[k][p].subindex>>]

\* The three artifacts tell the same complete dictionary.  Every definition
\* has its section in the EDS; the sections have different names and come in
\* the order of the addresses; the indexes are announced in that order, one for
\* each definition, and a compound object announces as many subentries as
\* follow.  The map has a line for each of these addresses and no other; under
\* a heading they come in order, each once, and are in the heading's index range;
\* and the document has the same lines in the same places.
ArtifactsListEveryEntry ==
    stage = "done" =>
        /\ \A i \in DOMAIN definitions :
              \E p \in EdsPlaces : /\ EdsSections[p].sub = None
                                   /\ EdsSections[p].name = definitions[i].name
        /\ Ascends(SectionAddresses)
        /\ AnnouncedIndexes = [k \in DOMAIN definitions |-> objects[k].index]
        /\ \A p \in EdsPlaces : EdsSections[p].subNumber # None =>
              EdsSections[p].subNumber =
                  Cardinality({q \in EdsPlaces : /\ EdsSections[q].index = EdsSections[p].index
                                                 /\ EdsSections[q].sub # None})
        /\ UNION {Range(MapLines[k]) : k \in DOMAIN Categories} = EdsAddresses
        /\ \A k \in DOMAIN Categories :
              /\ Ascends(LineAddresses(k))
              /\ \A l \in Range(MapLines[k]) : l.index \in Addresses(CategoryRange[Categories[k]])
              /\ MapLines[k] = DocumentLines(k)
=============================================================================
