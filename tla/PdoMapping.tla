----------------------------- MODULE PdoMapping -----------------------------
(***************************************************************************)
(* The process data of one device: resolve_pdo_references, which turns the *)
(* symbolic entries of every PDO into qualified names, and then            *)
(* resolve_pdo_mappings, which looks the names up in the allocated         *)
(* dictionary and checks access, type and payload.                         *)
(*                                                                         *)
(* An object is a leaf (a name within its owner, an access and a width)    *)
(* with an index and subentries, which are leaves with a subindex.  The    *)
(* access of a record is "none"; the width of what has no PDO-mappable     *)
(* type is 0.                                                              *)
(***************************************************************************)
EXTENDS Scope, Integers, FiniteSets, Functions, SequencesExt

CONSTANT
    Devices     \* [dependencies, objects, pdos]: resolved and allocated devices

MaxPayload == 64

Names == Seq(STRING)
Accesses == {"ro", "wo", "rw"}
SubEntries ==
    [key : Names, role : {"count", "record-field", "array-element"}, access : Accesses,
     bits : Nat, subindex : Nat]
DictionaryObjects ==
    [owner : Names, key : Names, index : Nat, access : Accesses \union {"none"}, bits : Nat,
     subs : Seq(SubEntries)]

\* ObjectDefinition.__post_init__, allocate_object_dictionary and the parser:
\* only a record has no access, compound objects have no type of their own that
\* a PDO could map, the count has the name of its object, addresses are unique.
ASSUME DevicesAssumption ==
    \A d \in Devices :
        /\ d.objects \in Seq(DictionaryObjects)
        /\ d.pdos \in Seq([owner : DOMAIN d.dependencies, direction : {"tpdo", "rpdo"},
                           mapping : Seq(Names)])
        /\ \A j, k \in DOMAIN d.objects : d.objects[j].index = d.objects[k].index => j = k
        /\ \A o \in Range(d.objects) :
              /\ o.access = "none" => o.subs # << >>
              /\ o.subs # << >> => o.bits = 0
              /\ \A i, j \in DOMAIN o.subs : o.subs[i].subindex = o.subs[j].subindex => i = j
              /\ \A i \in DOMAIN o.subs : o.subs[i].role = "count" => o.subs[i].key = o.key

VARIABLES
    device,     \* the device; its objects are in the order of their indexes
    stage,      \* "references", "entries", "done" or an error
    pdo,        \* position of the PDO that the stage has come to
    references, \* for every PDO, the qualified names resolved so far
    entries     \* for every PDO, [declared, name, index, subindex, bits] encoded so far

vars == <<device, stage, pdo, references, entries>>

Errors == {"unknown", "ambiguous", "container", "write_only", "read_only", "unmappable", "budget"}

Objects == device.objects
Pdos == device.pdos
CurrentPdo == Pdos[pdo]

-----------------------------------------------------------------------------
\* What a reference may name: objects and record fields.
Targets ==
    UNION {{[owner |-> o.owner, key |-> o.key]}
           \union {[owner |-> o.owner, key |-> s.key] :
                      s \in {s \in Range(o.subs) : s.role = "record-field"}} :
              o \in Range(Objects)}

Name(t) == Qualified(t.owner, t.key)

VisibleTargets(p) == {t \in Targets : t.owner \in Visible(device.dependencies, p.owner)}
QualifiedTargets(p) == {Name(t) : t \in VisibleTargets(p)}

\* The visible targets that have the reference as their key.
Candidates(p, reference) == {Name(t) : t \in {t \in VisibleTargets(p) : t.key = reference}}

\* The reference that resolve_pdo_references has come to.
Resolving == stage = "references" /\ pdo \in DOMAIN Pdos
                /\ Len(references[pdo]) < Len(CurrentPdo.mapping)
Reference == CurrentPdo.mapping[Len(references[pdo]) + 1]

LocalName == Qualified(CurrentPdo.owner, Reference)

\* Mutant of IsLocal: a qualified name is preferred to a local one.
IsLocalOnly == LocalName \in QualifiedTargets(CurrentPdo)
                  /\ Reference \notin QualifiedTargets(CurrentPdo)

IsLocal == LocalName \in QualifiedTargets(CurrentPdo)
IsQualified == ~IsLocal /\ Reference \in QualifiedTargets(CurrentPdo)
IsImported == ~IsLocal /\ ~IsQualified

Init ==
    /\ device \in Devices
    /\ stage = "references"
    /\ pdo = 1
    /\ references = [p \in DOMAIN Pdos |-> << >>]
    /\ entries = [p \in DOMAIN Pdos |-> << >>]

Resolve(name) ==
    /\ references' = [references EXCEPT ![pdo] = Append(@, name)]
    /\ UNCHANGED <<device, stage, pdo, entries>>

Fail(error) ==
    /\ stage' = error
    /\ UNCHANGED <<device, pdo, references, entries>>

ResolveLocal ==
    /\ Resolving
    /\ IsLocal
    /\ Resolve(LocalName)

ResolveQualified ==
    /\ Resolving
    /\ IsQualified
    /\ Resolve(Reference)

ResolveImported ==
    /\ Resolving
    /\ IsImported
    /\ \E name \in Candidates(CurrentPdo, Reference) :
          /\ Candidates(CurrentPdo, Reference) = {name}
          /\ Resolve(name)

RejectUnknown ==
    /\ Resolving
    /\ IsImported
    /\ Candidates(CurrentPdo, Reference) = {}
    /\ Fail("unknown")

RejectAmbiguous ==
    /\ Resolving
    /\ IsImported
    /\ Cardinality(Candidates(CurrentPdo, Reference)) > 1
    /\ Fail("ambiguous")

NextPdo ==
    /\ stage = "references"
    /\ pdo \in DOMAIN Pdos
    /\ Len(references[pdo]) = Len(CurrentPdo.mapping)
    /\ pdo' = pdo + 1
    /\ UNCHANGED <<device, stage, references, entries>>

ReturnReferences ==
    /\ stage = "references"
    /\ pdo \notin DOMAIN Pdos
    /\ stage' = "entries"
    /\ pdo' = 1
    /\ UNCHANGED <<device, references, entries>>

-----------------------------------------------------------------------------
\* The object itself before its subentries, all with their subindex.
Leaves(o) ==
    <<[key |-> o.key, role |-> "object", access |-> o.access, bits |-> o.bits, subindex |-> 0]>>
        \o o.subs

Holds(k, name) == \E l \in Range(Leaves(Objects[k])) : Qualified(Objects[k].owner, l.key) = name

\* The first object, by index, that is or has what the name says.
Holder(name) ==
    CHOOSE k \in DOMAIN Objects : Holds(k, name) /\ \A j \in 1..(k - 1) : ~Holds(j, name)

Leaf(name) ==
    LET o == Objects[Holder(name)]
        Named(i) == Qualified(o.owner, Leaves(o)[i].key) = name
    IN  Leaves(o)[CHOOSE i \in DOMAIN Leaves(o) : Named(i) /\ \A j \in 1..(i - 1) : ~Named(j)]

\* The target that _entry_for_reference is called with.
AtEntry == stage = "entries" /\ pdo \in DOMAIN Pdos
              /\ Len(entries[pdo]) < Len(references[pdo])
Target == references[pdo][Len(entries[pdo]) + 1]

IsWrongWay(direction, leaf) ==
    \/ direction = "tpdo" /\ leaf.access = "wo"
    \/ direction = "rpdo" /\ leaf.access = "ro"

RejectContainer ==
    /\ AtEntry
    /\ Leaf(Target).access = "none"
    /\ Fail("container")

RejectWriteOnly ==
    /\ AtEntry
    /\ CurrentPdo.direction = "tpdo"
    /\ IsWrongWay("tpdo", Leaf(Target))
    /\ Fail("write_only")

\* Mutant of RejectReadOnly: the direction is not looked at.
RejectAnyReadOnly ==
    /\ AtEntry
    /\ IsWrongWay("rpdo", Leaf(Target))
    /\ Fail("read_only")

RejectReadOnly ==
    /\ AtEntry
    /\ CurrentPdo.direction = "rpdo"
    /\ IsWrongWay("rpdo", Leaf(Target))
    /\ Fail("read_only")

RejectUnmappable ==
    /\ AtEntry
    /\ Leaf(Target).access # "none"
    /\ ~IsWrongWay(CurrentPdo.direction, Leaf(Target))
    /\ Leaf(Target).bits = 0
    /\ Fail("unmappable")

\* The entry takes the spelling of the PDO's first reference to the target,
\* which need not be the reference it stands for.
Declared(name) == CurrentPdo.mapping[CHOOSE i \in DOMAIN references[pdo] :
                      references[pdo][i] = name /\ \A j \in 1..(i - 1) : references[pdo][j] # name]

EncodeEntry ==
    /\ AtEntry
    /\ Leaf(Target).access # "none"
    /\ ~IsWrongWay(CurrentPdo.direction, Leaf(Target))
    /\ Leaf(Target).bits > 0
    /\ entries' = [entries EXCEPT ![pdo] =
            Append(@, [declared |-> Declared(Target), name |-> Target,
                       index |-> Objects[Holder(Target)].index,
                       subindex |-> Leaf(Target).subindex, bits |-> Leaf(Target).bits])]
    /\ UNCHANGED <<device, stage, pdo, references>>

\* PdoMappingEntry.encoding: the fields of the 32-bit CANopen mapping value.
MappingValue(e) == e.index * 65536 + e.subindex * 256 + e.bits

TotalBits(p) == SumFunction([i \in DOMAIN entries[p] |-> entries[p][i].bits])

Encoded ==
    stage = "entries" /\ pdo \in DOMAIN Pdos /\ Len(entries[pdo]) = Len(references[pdo])

RejectBudget ==
    /\ Encoded
    /\ TotalBits(pdo) > MaxPayload
    /\ Fail("budget")

\* Mutant of AcceptPdo: every entry fits, but not all of them together.
AcceptEntries ==
    /\ Encoded
    /\ \A i \in DOMAIN entries[pdo] : entries[pdo][i].bits <= MaxPayload
    /\ pdo' = pdo + 1
    /\ UNCHANGED <<device, stage, references, entries>>

AcceptPdo ==
    /\ Encoded
    /\ TotalBits(pdo) <= MaxPayload
    /\ pdo' = pdo + 1
    /\ UNCHANGED <<device, stage, references, entries>>

ReturnMappings ==
    /\ stage = "entries"
    /\ pdo \notin DOMAIN Pdos
    /\ stage' = "done"
    /\ UNCHANGED <<device, pdo, references, entries>>

Next ==
    \/ ResolveLocal
    \/ ResolveQualified
    \/ ResolveImported
    \/ RejectUnknown
    \/ RejectAmbiguous
    \/ NextPdo
    \/ ReturnReferences
    \/ RejectContainer
    \/ RejectWriteOnly
    \/ RejectReadOnly
    \/ RejectUnmappable
    \/ EncodeEntry
    \/ RejectBudget
    \/ AcceptPdo
    \/ ReturnMappings

Spec == Init /\ [][Next]_vars

-----------------------------------------------------------------------------
\* The PDO tables of the Markdown document, which are made from the
\* references and the dictionary by a lookup of their own.

\* Where the document finds a name: the positions of an object and of a leaf of
\* it.  The count is no leaf there.
DocumentedAt(name) ==
    {at \in UNION {{k} \X DOMAIN Leaves(Objects[k]) : k \in DOMAIN Objects} :
        LET o == Objects[at[1]]
            leaf == Leaves(o)[at[2]]
        IN  leaf.role # "count" /\ Qualified(o.owner, leaf.key) = name}

\* Mutant of ComesBefore: all objects come before the first subentry.
ObjectsComeFirst(s, t) ==
    \/ s[2] = 1 /\ t[2] # 1
    \/ (s[2] = 1 <=> t[2] = 1) /\ (s[1] < t[1] \/ (s[1] = t[1] /\ s[2] < t[2]))

\* The order in which it compares the leaves with a name.
ComesBefore(s, t) == s[1] < t[1] \/ (s[1] = t[1] /\ s[2] < t[2])

DocumentedLeaf(name) ==
    LET at == CHOOSE s \in DocumentedAt(name) :
                 \A t \in DocumentedAt(name) : s = t \/ ComesBefore(s, t)
    IN  Leaves(Objects[at[1]])[at[2]]

DocumentedRow(p, i) ==
    [declared |-> Pdos[p].mapping[i], name |-> references[p][i],
     bits |-> DocumentedLeaf(references[p][i]).bits]

-----------------------------------------------------------------------------
\* Does the owner itself declare what the reference says?
IsOwn(p, reference) ==
    \E t \in Targets : t.owner = p.owner /\ t.key = reference

\* A reference never leaves the imports of the definition that owns the PDO,
\* however large the device around it is, and no import can take the place of
\* the owner's own declaration.
LookupIsScoped ==
    \A p \in DOMAIN Pdos : \A i \in DOMAIN references[p] :
        LET reference == Pdos[p].mapping[i] IN
        /\ \E t \in Targets :
              /\ Name(t) = references[p][i]
              /\ t.owner \in Visible(device.dependencies, Pdos[p].owner)
        /\ IsOwn(Pdos[p], reference) => references[p][i] = Qualified(Pdos[p].owner, reference)

\* What stands in the dictionary at the address of an entry.
AddressedObject(e) == CHOOSE o \in Range(Objects) : o.index = e.index
AddressedLeaf(e) ==
    LET o == AddressedObject(e)
    IN  IF o.subs = << >> THEN Leaves(o)[1]
        ELSE CHOOSE s \in Range(o.subs) : s.subindex = e.subindex

\* Every PDO of an accepted device can be sent: at each mapped address is a
\* value of the entry's width that may be transferred in the PDO's direction,
\* never the count of a compound object, and together they fit the payload.
MappedAddressesAreTransferable ==
    stage = "done" =>
        \A p \in DOMAIN Pdos :
            /\ Len(entries[p]) = Len(Pdos[p].mapping)
            /\ TotalBits(p) <= MaxPayload
            /\ \A i \in DOMAIN entries[p] :
                  LET leaf == AddressedLeaf(entries[p][i]) IN
                  /\ leaf.role # "count"
                  /\ leaf.bits = entries[p][i].bits /\ leaf.bits > 0
                  /\ ~IsWrongWay(Pdos[p].direction, leaf)

\* A device is refused for a fault of its own: a reference with no visible
\* meaning, or with several and none of them the owner's; a target that
\* cannot be transferred; more bits than a PDO has.
RejectionIsJustified ==
    /\ stage = "unknown" =>
          \A t \in VisibleTargets(CurrentPdo) : t.key # Reference /\ Name(t) # Reference
    /\ stage = "ambiguous" =>
          /\ ~IsOwn(CurrentPdo, Reference)
          /\ \E t, u \in VisibleTargets(CurrentPdo) :
                t.owner # u.owner /\ t.key = Reference /\ u.key = Reference
    /\ stage \in {"container", "write_only", "read_only", "unmappable"} =>
          /\ \E t \in VisibleTargets(CurrentPdo) : Name(t) = Target
          /\ \/ Leaf(Target).bits = 0
             \/ IsWrongWay(CurrentPdo.direction, Leaf(Target))
    /\ stage = "budget" => SumFunction([i \in DOMAIN CurrentPdo.mapping |->
                                          Leaf(references[pdo][i]).bits]) > MaxPayload

\* The document of an accepted device tells what its PDOs carry: a row for each
\* mapping entry, in its order, with its target and its width, though the
\* document looks the target up by itself.  The row has the entry's declared
\* name too, unless an earlier reference of the PDO spells the same target
\* otherwise.
DocumentationMatchesMapping ==
    stage = "done" =>
        \A p \in DOMAIN Pdos : \A i \in DOMAIN Pdos[p].mapping :
            LET row == DocumentedRow(p, i)
                entry == entries[p][i]
            IN  /\ row.name = entry.name
                /\ row.bits = entry.bits
                /\ \/ row.declared = entry.declared
                   \/ \E j \in 1..(i - 1) : DocumentedRow(p, j).declared = entry.declared
                                            /\ references[p][j] = references[p][i]

\* docs/wiki/PDO-Mapping.md:3-4: entries are resolved to deterministic
\* qualified object or record-field identities.
EntriesIdentifyTheirTargets ==
    \A p \in DOMAIN Pdos : \A i \in DOMAIN entries[p] :
        LET e == entries[p][i] IN
        \E o \in Range(Objects) : \E l \in Range(Leaves(o)) :
            /\ l.role \in {"object", "record-field"}
            /\ Qualified(o.owner, l.key) = e.name
            /\ o.index = e.index /\ l.subindex = e.subindex
=============================================================================
