------------------------------- MODULE Scope -------------------------------
(***************************************************************************)
(* Qualified names, and what a definition can see of the module graph.     *)
(*                                                                         *)
(* A name is the sequence of the parts between its dots.  A namespace, the *)
(* key of an object and the name of a type are all names: each may contain *)
(* a dot of its own, so that where a qualified name divides into namespace *)
(* and key is not always plain.                                            *)
(***************************************************************************)
EXTENDS Sequences

\* f"{namespace}.{key}"
Qualified(namespace, key) == namespace \o key

\* visible_namespaces: the owner and the modules it imports, directly or not.
\* dependencies maps every namespace of the graph to its direct imports.
Visible(dependencies, owner) ==
    {n \in DOMAIN dependencies :
        \A S \in SUBSET DOMAIN dependencies :
            {owner} \union UNION {dependencies[m] : m \in S} \subseteq S => n \in S}
=============================================================================
