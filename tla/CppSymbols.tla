----------------------------- MODULE CppSymbols -----------------------------
(***************************************************************************)
(* generate_cpp_symbols: the header of enums and typed address tags that   *)
(* is rendered from a graph once _GraphTypeResolver has lowered its types. *)
(*                                                                         *)
(* An enum class is rendered for every declaration with members, at        *)
(* namespace level; a tag for every leaf, in the scope of its module and   *)
(* its record or array.  The generator looks the enum of a tag up again by *)
(* name; the compiler does so once more, by the scopes of the header.      *)
(*                                                                         *)
(* A graph also has its root, and every use has the path of keys that      *)
(* leads to its leaf: <<key>> for a variable, <<key, leaf>> for a record   *)
(* field or an array's items, which are one leaf here.  Uses are in the    *)
(* order in which the header lists them.                                   *)
(***************************************************************************)
EXTENDS TypeResolver

CONSTANT Pascal     \* C++ identifier -> the sequence of its capitalised words

ASSUME PascalAssumption == \A word \in DOMAIN Pascal : Pascal[word] \in Seq(STRING)

Names == Seq(STRING) \ {<< >>}

\* What the parser makes of keys: names have a part at least, types and objects
\* belong to definitions of the graph, and the objects of one definition, and
\* the fields of one record, have different keys.
ASSUME DefinitionsAssumption ==
    \A g \in Graphs :
        /\ DOMAIN g.dependencies \subseteq Names /\ g.root \in DOMAIN g.dependencies
        /\ \A t \in Range(g.types) : t.owner \in DOMAIN g.dependencies /\ t.name \in Names
        /\ \A u \in Range(g.uses) : /\ u.owner \in DOMAIN g.dependencies
                                   /\ u.path \in Seq(Names) /\ Len(u.path) \in {1, 2}
        /\ \A j, k \in DOMAIN g.uses :
              j # k /\ g.uses[j].owner = g.uses[k].owner /\ g.uses[j].path[1] = g.uses[k].path[1]
              => /\ Len(g.uses[j].path) = 2 /\ Len(g.uses[k].path) = 2
                 /\ g.uses[j].path[2] # g.uses[k].path[2]

VARIABLES
    part,       \* "enums", "objects", "rendered", or the error
    at,         \* position in the declarations, then in the uses
    header      \* [enums, tags]: what the header lists so far

symbolVars == <<vars, part, at, header>>

SymbolErrors == {"identifier", "ambiguous_enum"}

-----------------------------------------------------------------------------
\* validate_cpp_identifier and _pascal_case, of names that may be dotted.
IsIdentifier(name) == Len(name) = 1 /\ name[1] \in DOMAIN Pascal
PascalCase(name) == Pascal[name[1]]

IsRoot(namespace) == namespace = graph.root

EnumName(i) ==
    IF IsRoot(Types[i].owner) THEN PascalCase(Types[i].name)
    ELSE PascalCase(Types[i].owner) \o PascalCase(Types[i].name)

\* The part of a qualified name before its first dot.
Owner(use) == <<use.owner[1]>>

NamesOfEnum(i) == {Types[i].name} \union (IF IsRoot(Types[i].owner) THEN {} ELSE {Types[i].owner})
NamesOfTag(use) == Range(use.path) \union (IF IsRoot(Owner(use)) THEN {} ELSE {Owner(use)})

\* Mutant of Scope: the members of records are not in a namespace of their own.
ScopeOfModule(use) == IF IsRoot(Owner(use)) THEN << >> ELSE <<PascalCase(Owner(use))>>

\* The namespaces, within Objects, that enclose the tag of a use.
Scope(use) ==
    (IF IsRoot(Owner(use)) THEN << >> ELSE <<PascalCase(Owner(use))>>)
        \o (IF Len(use.path) = 1 THEN << >> ELSE <<PascalCase(use.path[1])>>)

\* _enum_type_name: the enums that the declared name of a use may stand for,
\* those of its owner if there is exactly one of them.
NamedEnums(use) ==
    {i \in DOMAIN resolved : resolved[i].enum # {} /\
        (Qualified(Types[i].owner, Types[i].name) = use.type \/ Types[i].name = use.type)}

\* Mutants of EnumsOf: the enums of the owner are not preferred, or those of
\* the root are.
EnumsOfAll(use) == NamedEnums(use)
EnumsOfRoot(use) ==
    LET local == {i \in NamedEnums(use) : IsRoot(Types[i].owner)}
    IN  IF Cardinality(local) = 1 THEN local ELSE NamedEnums(use)

EnumsOf(use) ==
    LET local == {i \in NamedEnums(use) : Types[i].owner = Owner(use)}
    IN  IF Cardinality(local) = 1 THEN local ELSE NamedEnums(use)

-----------------------------------------------------------------------------
SymbolsInit ==
    /\ Init
    /\ part = "enums"
    /\ at = 1
    /\ header = [enums |-> << >>, tags |-> << >>]

Resolve ==
    /\ Next
    /\ UNCHANGED <<part, at, header>>

Refuse(error) ==
    /\ part' = error
    /\ UNCHANGED <<vars, at, header>>

AtEnum == stage = "done" /\ part = "enums" /\ at \in DOMAIN Types

SkipAlias ==
    /\ AtEnum
    /\ resolved[at].enum = {}
    /\ at' = at + 1
    /\ UNCHANGED <<vars, part, header>>

RejectEnumName ==
    /\ AtEnum
    /\ resolved[at].enum # {}
    /\ \E name \in NamesOfEnum(at) : ~IsIdentifier(name)
    /\ Refuse("identifier")

RenderEnum ==
    /\ AtEnum
    /\ resolved[at].enum # {}
    /\ \A name \in NamesOfEnum(at) : IsIdentifier(name)
    /\ header' = [header EXCEPT !.enums = Append(@, EnumName(at))]
    /\ at' = at + 1
    /\ UNCHANGED <<vars, part>>

StartObjects ==
    /\ stage = "done"
    /\ part = "enums"
    /\ at \notin DOMAIN Types
    /\ part' = "objects"
    /\ at' = 1
    /\ UNCHANGED <<vars, header>>

AtTag == part = "objects" /\ at \in DOMAIN Uses
HasEnum == lowered[at].enum # {}

RejectTagName ==
    /\ AtTag
    /\ \E name \in NamesOfTag(Uses[at]) : ~IsIdentifier(name)
    /\ Refuse("identifier")

RejectAmbiguousEnum ==
    /\ AtTag
    /\ \A name \in NamesOfTag(Uses[at]) : IsIdentifier(name)
    /\ HasEnum
    /\ Cardinality(EnumsOf(Uses[at])) # 1
    /\ Refuse("ambiguous_enum")

\* The tag [scope, name, enum] of a use: enum holds the declaration that its
\* Type names, or nothing for a primitive.
RenderTag ==
    /\ AtTag
    /\ \A name \in NamesOfTag(Uses[at]) : IsIdentifier(name)
    /\ HasEnum => Cardinality(EnumsOf(Uses[at])) = 1
    /\ header' = [header EXCEPT !.tags = Append(@,
           [scope |-> Scope(Uses[at]),
            name  |-> PascalCase(Uses[at].path[Len(Uses[at].path)]),
            enum  |-> IF HasEnum THEN EnumsOf(Uses[at]) ELSE {}])]
    /\ at' = at + 1
    /\ UNCHANGED <<vars, part>>

ReturnHeader ==
    /\ part = "objects"
    /\ at \notin DOMAIN Uses
    /\ part' = "rendered"
    /\ UNCHANGED <<vars, at, header>>

SymbolsNext ==
    \/ Resolve
    \/ SkipAlias
    \/ RejectEnumName
    \/ RenderEnum
    \/ StartObjects
    \/ RejectTagName
    \/ RejectAmbiguousEnum
    \/ RenderTag
    \/ ReturnHeader

SymbolsSpec == SymbolsInit /\ [][SymbolsNext]_symbolVars /\ WF_symbolVars(SymbolsNext)

-----------------------------------------------------------------------------
HasDottedNames == \E n \in DOMAIN graph.dependencies : Len(n) > 1

\* The second lookup, which knows nothing of imports, gives every tag the enum
\* that the resolver chose by visibility, if no namespace is dotted.
TagsKeepResolvedEnums ==
    ~HasDottedNames =>
        \A k \in DOMAIN header.tags :
            header.tags[k].enum = IF lowered[k].enum = {} THEN {}
                                  ELSE Selected(Uses[k].owner, Uses[k].type)

\* The header of a graph that the resolver accepts is refused only for a name
\* that is no identifier, or for a bare name that the resolver could settle
\* because the other enum of that name is out of the owner's sight, or because
\* its owner is a device with a dotted name, whose own enums are not preferred.
SymbolRefusalIsJustified ==
    /\ part = "identifier" =>
          \/ \E i \in DOMAIN resolved :
                resolved[i].enum # {} /\ \E name \in NamesOfEnum(i) : ~IsIdentifier(name)
          \/ \E u \in Range(Uses) : \E name \in NamesOfTag(u) : ~IsIdentifier(name)
    /\ part = "ambiguous_enum" =>
          \E u \in Range(Uses), i, j \in DOMAIN resolved :
              /\ Selected(u.owner, u.type) = {i}
              /\ i # j /\ Types[j].name = u.type /\ resolved[j].enum # {}
              /\ \/ /\ Types[i].owner # u.owner
                    /\ Types[j].owner \notin Visible(graph.dependencies, u.owner)
                 \/ Types[i].owner = u.owner /\ IsRoot(u.owner) /\ Len(u.owner) > 1

\* Names of one C++ scope that come from different definitions are only as far
\* apart as _pascal_case leaves them.
NamesStayApart ==
    LET names == (DOMAIN graph.dependencies \ {graph.root}) \union UNION {Range(u.path) : u \in Range(Uses)}
    IN  /\ \A m, n \in names : IsIdentifier(m) /\ (PascalCase(m) = PascalCase(n) => m = n)
        /\ \A u \in Range(Uses) : \A n \in Range(u.path) : n \notin DOMAIN graph.dependencies

\* Wherever keys stay apart in the case of C++ types and none is a module's
\* name, no scope of the header declares a name twice, as tags or as a tag and
\* a namespace: modules, records and variables may all reuse each other's keys.
ScopesHaveNoDuplicates ==
    ~HasDottedNames /\ NamesStayApart =>
        \A j, k \in DOMAIN header.tags :
            LET full(t) == Append(t.scope, t.name)
                t == header.tags[j]
                u == header.tags[k]
            IN  /\ j # k => full(t) # full(u)
                /\ ~(Len(full(t)) <= Len(u.scope)
                     /\ SubSeq(u.scope, 1, Len(full(t))) = full(t))

-----------------------------------------------------------------------------
\* What the C++ compiler finds for the name of an enum inside tag k: the tag
\* itself and the tags before it in the scopes around it hide the enum.
IsHidden(k, name) ==
    \E j \in 1..k :
        LET outer == header.tags[j]
            scope == header.tags[k].scope
        IN  /\ outer.name = name
            /\ Len(outer.scope) <= Len(scope)
            /\ SubSeq(scope, 1, Len(outer.scope)) = outer.scope

\* "Its small tag types expose the resolved C++ value type"
\* (generators/cpp.py:253): the name after using Type means the enum.
TagsExposeResolvedTypes ==
    \A k \in DOMAIN header.tags : \A i \in header.tags[k].enum :
        /\ {i} = Selected(Uses[k].owner, Uses[k].type)
        /\ ~IsHidden(k, EnumName(i))
=============================================================================
