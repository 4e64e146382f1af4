----------------------------- MODULE Dictionary -----------------------------
(***************************************************************************)
(* allocate_object_dictionary: the whole allocation of one device.         *)
(*                                                                         *)
(* After the check for duplicate qualified names, one AddressRange pass    *)
(* runs per category; then the objects are built in the order of their     *)
(* indexes, with one more pass for the fields of every record.  All passes *)
(* are the calls of one function that reuses the variables of              *)
(* AddressRange; assignments is what survives from one category to the     *)
(* next.  An error of any pass ends the allocation without a dictionary.   *)
(***************************************************************************)
EXTENDS Placement

CONSTANTS
    Categories,     \* the categories in the order of ObjectCategory
    CategoryRange,  \* [category -> its index range]
    RecordRange,    \* the usable subindices of a record
    MaxLength,      \* the largest array length
    Definitions     \* the sequences of definitions that may be allocated

\* allocator.py:32-35 and model/object.py:17-37: subindex 0 is the count.
ASSUME RangesAssumption ==
    /\ \A i \in DOMAIN Categories : CategoryRange[Categories[i]] \in Ranges
    /\ \A i, j \in DOMAIN Categories :
          i # j => Addresses(CategoryRange[Categories[i]])
                     \intersect Addresses(CategoryRange[Categories[j]]) = {}
    /\ RecordRange \in Ranges /\ RecordRange.lo = 1
    /\ MaxLength \in Nat

ASSUME CategoriesAssumption == Categories \in Seq(Range(Categories))

\* What allocation reads of an object: only a record has fields.
ObjectDefinitions ==
    [name : Nat, category : Range(Categories), explicit : Nat \union {None}, crc : Nat,
     kind : {"variable", "array", "record"}, fields : Seq(Items), length : Int \union {None}]

ASSUME DefinitionsAssumption ==
    \A ds \in Definitions :
        /\ ds \in Seq(ObjectDefinitions)
        /\ \A i \in DOMAIN ds : ds[i].kind # "record" => ds[i].fields = << >>

VARIABLES
    range, items, next, probe, occupied, assigned, phase,   \* the current pass
    definitions,    \* the complete set of application objects, in input order
    stage,          \* where allocate_object_dictionary is
    category,       \* position in Categories
    assignments,    \* name -> [address, source, probe] of all categories so far
    objects,        \* the allocated objects built so far
    error,          \* the allocation error, or None
    diagnostic      \* what diagnose_address last answered, or None

Pass == INSTANCE AddressRange WITH InputRanges <- {}, InputItems <- {}

passVars == <<range, items, next, probe, occupied, assigned, phase>>
ownVars == <<definitions, stage, category, assignments, objects, error, diagnostic>>
vars == <<passVars, ownVars>>

-----------------------------------------------------------------------------
Item(d) == [name |-> d.name, explicit |-> d.explicit, crc |-> d.crc]

\* The positions of the definitions of a category, and those in input order.
Positions(c) == {i \in DOMAIN definitions : definitions[i].category = c}

InOrder(P) ==
    CHOOSE p \in [1..Cardinality(P) -> P] : \A j, k \in DOMAIN p : j < k => p[j] < p[k]

CategoryItems(c) ==
    LET p == InOrder(Positions(c)) IN [k \in DOMAIN p |-> Item(definitions[p[k]])]

\* Objects and record fields share one space of qualified names.
NameOwners ==
    {<<i, 0>> : i \in DOMAIN definitions}
    \union UNION {{<<i, k>> : k \in DOMAIN definitions[i].fields} : i \in DOMAIN definitions}

QualifiedName(o) ==
    IF o[2] = 0 THEN definitions[o[1]].name ELSE definitions[o[1]].fields[o[2]].name

NamesAreUnique ==
    \A o1, o2 \in NameOwners : QualifiedName(o1) = QualifiedName(o2) => o1 = o2

\* The definitions without an allocated object yet, and the one that
\* sorted(...) puts next.
Unbuilt == {i \in DOMAIN definitions :
              \A k \in DOMAIN objects : objects[k].name # definitions[i].name}
IndexOf(i) == assignments[definitions[i].name].address

NextToBuild == CHOOSE i \in Unbuilt : \A j \in Unbuilt : IndexOf(i) <= IndexOf(j)

SubEntry(subindex, name, role) == [subindex |-> subindex, name |-> name, role |-> role]
CountEntry(d) == SubEntry(0, d.name, "count")

Allocated(d, count, entries) ==
    [name |-> d.name, category |-> d.category,
     index |-> assignments[d.name].address, source |-> assignments[d.name].source,
     probe |-> assignments[d.name].probe, count |-> count, entries |-> entries]

-----------------------------------------------------------------------------
Init ==
    /\ definitions \in Definitions
    /\ stage = "checking"
    /\ category = 1
    /\ assignments = << >>
    /\ objects = << >>
    /\ error = None
    /\ diagnostic = None
    /\ Pass!Begin(RecordRange, << >>)

Fail(e) ==
    /\ stage' = "failed"
    /\ error' = e
    /\ UNCHANGED <<passVars, definitions, category, assignments, objects, diagnostic>>

RejectDuplicate ==
    /\ stage = "checking"
    /\ ~NamesAreUnique
    /\ Fail("duplicate_name")

\* Mutant of AcceptNames: duplicates are let through.
AcceptAnyNames ==
    /\ stage = "checking"
    /\ stage' = "categories"
    /\ UNCHANGED <<passVars, definitions, category, assignments, objects, error, diagnostic>>

AcceptNames ==
    /\ stage = "checking"
    /\ NamesAreUnique
    /\ stage' = "categories"
    /\ UNCHANGED <<passVars, definitions, category, assignments, objects, error, diagnostic>>

\* Mutant of StartCategory: the range of the first category for all of them.
StartInFirstRange ==
    /\ stage = "categories"
    /\ category \in DOMAIN Categories
    /\ Pass!Call(CategoryRange[Categories[1]], CategoryItems(Categories[category]))
    /\ stage' = "indexing"
    /\ UNCHANGED <<definitions, category, assignments, objects, error, diagnostic>>

StartCategory ==
    /\ stage = "categories"
    /\ category \in DOMAIN Categories
    /\ Pass!Call(CategoryRange[Categories[category]], CategoryItems(Categories[category]))
    /\ stage' = "indexing"
    /\ UNCHANGED <<definitions, category, assignments, objects, error, diagnostic>>

PassStep ==
    /\ stage \in {"indexing", "fields"}
    /\ Pass!Next
    /\ UNCHANGED ownVars

EndCategory ==
    /\ stage = "indexing"
    /\ phase = "allocated"
    /\ assignments' = [n \in DOMAIN assignments \union DOMAIN assigned |->
                          IF n \in DOMAIN assigned THEN assigned[n] ELSE assignments[n]]
    /\ category' = category + 1
    /\ stage' = "categories"
    /\ UNCHANGED <<passVars, definitions, objects, error, diagnostic>>

FailCategory ==
    /\ stage = "indexing"
    /\ phase \in Pass!Errors
    /\ Fail(<<"index", phase>>)

StartObjects ==
    /\ stage = "categories"
    /\ category \notin DOMAIN Categories
    /\ stage' = "objects"
    /\ UNCHANGED <<passVars, definitions, category, assignments, objects, error, diagnostic>>

Building(kind) ==
    stage = "objects" /\ Unbuilt # {} /\ definitions[NextToBuild].kind = kind

Build(count, entries) ==
    /\ objects' = Append(objects, Allocated(definitions[NextToBuild], count, entries))
    /\ UNCHANGED <<definitions, category, assignments, error, diagnostic>>

BuildVariable ==
    /\ Building("variable")
    /\ Build(None, {})
    /\ UNCHANGED <<passVars, stage>>

\* Mutant of BuildArray: elements are numbered from 0.
BuildArrayFromZero ==
    LET d == definitions[NextToBuild] IN
    /\ Building("array")
    /\ d.length \in 1..MaxLength
    /\ Build(d.length, {CountEntry(d)}
                \union {SubEntry(k - 1, d.name, "array-element") : k \in 1..d.length})
    /\ UNCHANGED <<passVars, stage>>

BuildArray ==
    LET d == definitions[NextToBuild] IN
    /\ Building("array")
    /\ d.length \in 1..MaxLength
    /\ Build(d.length, {CountEntry(d)}
                \union {SubEntry(k, d.name, "array-element") : k \in 1..d.length})
    /\ UNCHANGED <<passVars, stage>>

RejectArrayLength ==
    /\ Building("array")
    /\ definitions[NextToBuild].length \notin 1..MaxLength
    /\ Fail("array_length")

StartRecord ==
    /\ Building("record")
    /\ Pass!Call(RecordRange, definitions[NextToBuild].fields)
    /\ stage' = "fields"
    /\ UNCHANGED <<definitions, category, assignments, objects, error, diagnostic>>

EndRecord ==
    LET d == definitions[NextToBuild] IN
    /\ stage = "fields"
    /\ phase = "allocated"
    /\ Build(Len(d.fields), {CountEntry(d)}
                \union {SubEntry(assigned[n].address, n, "record-field") : n \in DOMAIN assigned})
    /\ stage' = "objects"
    /\ UNCHANGED passVars

FailRecord ==
    /\ stage = "fields"
    /\ phase \in Pass!Errors
    /\ Fail(<<"subindex", phase>>)

ReturnDictionary ==
    /\ stage = "objects"
    /\ Unbuilt = {}
    /\ stage' = "done"
    /\ UNCHANGED <<passVars, definitions, category, assignments, objects, error, diagnostic>>

\* Mutant of DiagnoseObject: the slot of the hash is left out.
DiagnoseWithoutSlot(i) ==
    \E k \in DOMAIN objects :
        LET d == definitions[i]
            r == CategoryRange[d.category]
        IN  /\ stage = "done"
            /\ diagnostic = None
            /\ objects[k].name = d.name
            /\ diagnostic' = [name |-> d.name, range |-> r, initial |-> r.lo,
                              final |-> objects[k].index,
                              probe |-> objects[k].probe,
                              source |-> objects[k].source]
            /\ UNCHANGED <<passVars, definitions, stage, category, assignments, objects, error>>

\* diagnose_address for the object at position i, in the context of the
\* returned dictionary: its hash and what allocation made of it.
DiagnoseObject(i) ==
    \E k \in DOMAIN objects :
        LET d == definitions[i]
            r == CategoryRange[d.category]
        IN  /\ stage = "done"
            /\ diagnostic = None
            /\ objects[k].name = d.name
            /\ diagnostic' = [name |-> d.name, range |-> r,
                              initial |-> r.lo + InitialSlot(r, d),
                              final |-> objects[k].index,
                              probe |-> objects[k].probe,
                              source |-> objects[k].source]
            /\ UNCHANGED <<passVars, definitions, stage, category, assignments, objects, error>>

\* No object of category c has the diagnosed name: a field, or a wrong category.
DiagnoseUnknown(n, c) ==
    /\ stage = "done"
    /\ diagnostic = None
    /\ ~\E k \in DOMAIN objects : objects[k].name = n /\ objects[k].category = c
    /\ diagnostic' = [name |-> n, source |-> "unknown"]
    /\ UNCHANGED <<passVars, definitions, stage, category, assignments, objects, error>>

Next ==
    \/ RejectDuplicate
    \/ AcceptNames
    \/ StartCategory
    \/ PassStep
    \/ EndCategory
    \/ FailCategory
    \/ StartObjects
    \/ BuildVariable
    \/ BuildArray
    \/ RejectArrayLength
    \/ StartRecord
    \/ EndRecord
    \/ FailRecord
    \/ ReturnDictionary
    \/ \E i \in DOMAIN definitions : DiagnoseObject(i)
    \/ \E o \in NameOwners, k \in DOMAIN Categories :
          DiagnoseUnknown(QualifiedName(o), Categories[k])

Spec == Init /\ [][Next]_vars

-----------------------------------------------------------------------------
\* What a finished dictionary promises of the indexes: every category is
\* placed as if it were alone, whatever the other categories and the records
\* contain.
IndexesArePlaced ==
    stage = "done" =>
        \A k \in DOMAIN Categories :
            LET c == Categories[k]
                s == CategoryItems(c)
            IN  IsPlacement(CategoryRange[c], Range(s),
                    [n \in {x.name : x \in Range(s)} |-> assignments[n].address])

\* The same of the subindices: every record is placed as if it were alone,
\* entry 0 is the count of the others, and no two entries share a subindex.
SubindicesArePlaced ==
    stage = "done" =>
        \A k \in DOMAIN objects : \A i \in DOMAIN definitions :
            LET d == definitions[i]
                subs == objects[k].entries
                fields == {e \in subs : e.role # "count"}
            IN  (objects[k].name = d.name /\ d.kind # "variable") =>
                /\ \A e \in subs : e.subindex = 0 <=> e.role = "count"
                /\ \A e, f \in subs : e.subindex = f.subindex => e = f
                /\ objects[k].count = Cardinality(fields)
                /\ d.kind = "record" =>
                      IsPlacement(RecordRange, Range(d.fields),
                          [n \in {e.name : e \in fields} |->
                              (CHOOSE e \in fields : e.name = n).subindex])

\* An allocation fails for what its input says: too many or clashing
\* declarations of one category or of one record.
Crowded(r, s) ==
    \/ Len(s) > Size(r)
    \/ \E i \in DOMAIN s : s[i].explicit # None /\ s[i].explicit \notin Addresses(r)
    \/ \E i, j \in DOMAIN s : i # j /\ s[i].explicit # None /\ s[i].explicit = s[j].explicit

AnyCategoryCrowded ==
    \E k \in DOMAIN Categories :
        Crowded(CategoryRange[Categories[k]], CategoryItems(Categories[k]))

AnyCompoundCrowded ==
    \E i \in DOMAIN definitions :
        \/ Crowded(RecordRange, definitions[i].fields)
        \/ definitions[i].kind = "array" /\ definitions[i].length \notin 1..MaxLength

\* A dictionary is returned if and only if the input has no fault, and an
\* index fault anywhere is reported before any fault inside an object.
FailureIsJustified ==
    /\ stage = "done" => ~AnyCategoryCrowded /\ ~AnyCompoundCrowded /\ NamesAreUnique
    /\ stage = "failed" =>
          \/ error = "duplicate_name" /\ ~NamesAreUnique
          \/ error \in {<<"index", e>> : e \in Pass!Errors} /\ AnyCategoryCrowded
          \/ /\ error = "array_length" \/ error \in {<<"subindex", e>> : e \in Pass!Errors}
             /\ AnyCompoundCrowded /\ ~AnyCategoryCrowded

\* The diagnostic explains the final index: probe steps from the initial index
\* around the category's range lead to it, unless the index was declared.
DiagnosticExplainsIndex ==
    (diagnostic # None /\ diagnostic.source = "automatic") =>
        LET r == diagnostic.range IN
        diagnostic.final = r.lo + ((diagnostic.initial - r.lo + diagnostic.probe) % Size(r))
=============================================================================
