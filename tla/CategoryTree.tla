---------------------------- MODULE CategoryTree ----------------------------
(***************************************************************************)
(* The categories of the catalogue and their parents.  Every check is made *)
(* before the write and outside any transaction: the two moves that would  *)
(* close a cycle together are each harmless when they are checked.         *)
(***************************************************************************)
EXTENDS Desk

CONSTANTS
  Categories,
  CategoryTypes,  \* kits or tools; a category keeps the type it is created with
  InUse           \* categories some product is in

ASSUME CategoriesAssumption == IsFiniteSet(Categories) /\ None \notin Categories \union CategoryTypes

VARIABLES
  parent,  \* the parent of each category that exists, None for a root
  typeOf,  \* the type of each category, None if there is no such row
  gone     \* the ids of deleted categories, which are not given out again

treeVars == <<parent, typeOf, gone>>

Rows == {c \in Categories : typeOf[c] # None}
Children(c) == {d \in Rows : parent[d] = c}

\* Everything under a category, level by level.
Descendants(c) ==
  LET under[n \in Nat] ==
        IF n = 0 THEN Children(c)
        ELSE under[n - 1] \union {d \in Rows : parent[d] \in under[n - 1]}
  IN under[Cardinality(Categories)]

NoTree ==
  /\ typeOf = [c \in Categories |-> None]
  /\ parent = [c \in Categories |-> None]
  /\ gone = {}

TreeInit ==
  /\ gone = {}
  /\ typeOf \in [Categories -> CategoryTypes \union {None}]
  /\ \E c \in Categories : typeOf[c] = None
  /\ parent = [c \in Categories |-> None]

-----------------------------------------------------------------------------
\* Mutant of ParentIsCompatible: does not look for the parent among the
\* category's own descendants.
ParentIsNotSelf(p, type, self) ==
  p # None => p # self /\ p \in Rows /\ typeOf[p] = type

\* Mutant of ParentIsCompatible: kits may sit under tools.
ParentIsOutside(p, type, self) ==
  p # None =>
    /\ p # self
    /\ p \in Rows
    /\ self # None => p \notin Descendants(self)

\* assertParentIsCompatible: another category of the same tree, and not one
\* from under the category itself.
ParentIsCompatible(p, type, self) ==
  p # None =>
    /\ p # self
    /\ p \in Rows
    /\ typeOf[p] = type
    /\ self # None => p \notin Descendants(self)

CheckCreate(r, c, type, p) ==
  /\ c \notin Rows \union gone
  /\ \A q \in Requests : ~(At(q, "create", "checked") /\ req[q].arg.of = c)
  /\ ParentIsCompatible(p, type, None)
  /\ Begin(r, "create", "tree", [of |-> c, type |-> type, parent |-> p], None)
  /\ UNCHANGED treeVars

\* The foreign key holds an insert or a move to a parent that exists.
CreateCategory(r) ==
  /\ At(r, "create", "checked")
  /\ LET a == req[r].arg IN
     IF a.parent = None \/ a.parent \in Rows
     THEN /\ typeOf' = [typeOf EXCEPT ![a.of] = a.type]
          /\ parent' = [parent EXCEPT ![a.of] = a.parent]
     ELSE UNCHANGED <<typeOf, parent>>
  /\ Ends(r)
  /\ UNCHANGED gone

CheckMove(r, c, p) ==
  /\ c \in Rows
  /\ ParentIsCompatible(p, typeOf[c], c)
  /\ Begin(r, "move", "tree", [of |-> c, type |-> typeOf[c], parent |-> p], None)
  /\ UNCHANGED treeVars

UpdateCategory(r) ==
  /\ At(r, "move", "checked")
  /\ LET a == req[r].arg IN
     IF a.of \in Rows /\ (a.parent = None \/ a.parent \in Rows)
     THEN parent' = [parent EXCEPT ![a.of] = a.parent]
     ELSE UNCHANGED parent
  /\ Ends(r)
  /\ UNCHANGED <<typeOf, gone>>

CheckDelete(r, c) ==
  /\ c \in Rows \ InUse
  /\ Children(c) = {}
  /\ Begin(r, "remove", "tree", c, None)
  /\ UNCHANGED treeVars

\* The foreign keys refuse to delete a category that has got a child or a
\* product since.
DeleteCategory(r) ==
  /\ At(r, "remove", "checked")
  /\ LET c == req[r].arg IN
     IF Children(c) = {} /\ c \notin InUse
     THEN /\ typeOf' = [typeOf EXCEPT ![c] = None]
          /\ parent' = [parent EXCEPT ![c] = None]
          /\ gone' = gone \union {c}
     ELSE UNCHANGED treeVars
  /\ Ends(r)

-----------------------------------------------------------------------------
\* A category and its parent are of one type, and the parent exists, whatever
\* was moved or deleted at the same time.
OneTreePerType ==
  \A c \in Rows : parent[c] # None => parent[c] \in Rows /\ typeOf[parent[c]] = typeOf[c]

\* No category is under itself, as long as no two moves were checked at once.
AcyclicInTurn == "tree" \notin overlapped => \A c \in Rows : c \notin Descendants(c)

\* The tree stays a forest in which every tree is of one type.
TreeInOrder == OneTreePerType /\ AcyclicInTurn

\* "A tree with a cycle cannot be written".
NoCycle == \A c \in Rows : c \notin Descendants(c)
=============================================================================
