---------------------------- MODULE ObjectGraph ----------------------------
(***************************************************************************)
(* What the garbage-collected heap promises a running program: a graph of  *)
(* objects that only the program's own instructions change.  Collection    *)
(* does not appear.  graph holds the objects reachable from the roots and  *)
(* nothing else, so an identity may be used again once its object is       *)
(* unreachable.                                                            *)
(***************************************************************************)
EXTENDS Naturals, FiniteSets

CONSTANTS
  Root,      \* the slots the embedder enumerates as roots
  Field,     \* the reference fields of an object
  Id,        \* object identities
  Scalars,   \* non-address reference values (an unboxed i31)
  Null

VARIABLES
  root,      \* [Root -> Value]
  graph      \* reachable identity -> [Field -> Value]

Value == Id \cup Scalars \cup {Null}

\* The identities reachable in g from the values r holds: the smallest set
\* that holds the objects among those values and is closed under the fields.
ReachableIds(r, g) ==
  LET Closed == {C \in SUBSET DOMAIN g :
                   /\ {r[x] : x \in Root} \cap DOMAIN g \subseteq C
                   /\ \A i \in C : {g[i][f] : f \in Field} \cap DOMAIN g \subseteq C}
  IN {i \in DOMAIN g : \A C \in Closed : i \in C}

\* The program leaves roots r and objects g; what is unreachable is gone.
Becomes(r, g) ==
  /\ root' = r
  /\ graph' = [i \in ReachableIds(r, g) |-> g[i]]

Init == root = [x \in Root |-> Null] /\ graph = << >>

\* struct.new / array.new: a fresh object with null fields.
New(x) ==
  \E i \in Id \ DOMAIN graph :
    Becomes([root EXCEPT ![x] = i],
            [j \in DOMAIN graph \cup {i} |->
               IF j = i THEN [f \in Field |-> Null] ELSE graph[j]])

\* struct.set / array.set
Store(x, f, y) ==
  /\ root[x] \in Id
  /\ Becomes(root, [graph EXCEPT ![root[x]][f] = root[y]])

\* struct.get / array.get
Load(x, y, f) ==
  /\ root[y] \in Id
  /\ Becomes([root EXCEPT ![x] = graph[root[y]][f]], graph)

\* a slot is overwritten by null, by a scalar or by another slot's value
Assign(x, v) ==
  /\ v \in {Null} \cup Scalars \cup {root[y] : y \in Root}
  /\ Becomes([root EXCEPT ![x] = v], graph)

Next ==
  \E x \in Root :
    \/ New(x)
    \/ \E y \in Root, f \in Field : Store(x, f, y) \/ Load(x, y, f)
    \/ \E v \in Value : Assign(x, v)

Spec == Init /\ [][Next]_<<root, graph>>
=============================================================================
