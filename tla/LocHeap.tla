------------------------------ MODULE LocHeap ------------------------------
(***************************************************************************)
(* LocHeap: a binary tree of items, the one that ranks highest on top.     *)
(* Only the data of nodes moves, the nodes stay where they are; so a tree  *)
(* is a function from the places of its nodes, each given by the turns     *)
(* that lead to it, to items.  An item is a record with a field due, and   *)
(* what is due sooner ranks higher (LocTimerDelegate::ranks).              *)
(***************************************************************************)
EXTENDS Naturals, Sequences, SequencesExt, FiniteSets

NoNodes == <<>>                     \* mTree is NULL
Top == <<>>                         \* no turns
Left(place) == Append(place, "l")
Right(place) == Append(place, "r")

OutRanks(x, y) == x.due < y.due

Items(tree) == {tree[place] : place \in DOMAIN tree}

Size(tree, place) == Cardinality({p \in DOMAIN tree : IsPrefix(place, p)})

\* Where push puts a node: below the smaller subtree.
NewPlace(tree) ==
    LET below[p \in DOMAIN tree] ==
            IF Left(p) \notin DOMAIN tree THEN Left(p)
            ELSE IF Right(p) \notin DOMAIN tree THEN Right(p)
            ELSE IF Size(tree, Left(p)) <= Size(tree, Right(p)) THEN below[Left(p)]
            ELSE below[Right(p)]
    IN  IF DOMAIN tree = {} THEN Top ELSE below[Top]

\* On the way down, the item is exchanged for each that it outranks.
Push(tree, item) ==
    LET place == NewPlace(tree)
        carried[n \in 0..Len(place)] ==
            IF n = 0 THEN item
            ELSE LET here == tree[SubSeq(place, 1, n - 1)]
                 IN  IF OutRanks(carried[n - 1], here) THEN here ELSE carried[n - 1]
    IN  [p \in DOMAIN tree \cup {place} |->
            IF p = place THEN carried[Len(p)]
            ELSE IF IsPrefix(p, place) /\ OutRanks(carried[Len(p)], tree[p]) THEN carried[Len(p)]
            ELSE tree[p]]

\* Mutant: what is below the item goes with it.
PopWithSubtree(tree, place) == [p \in {q \in DOMAIN tree : ~IsPrefix(place, q)} |-> tree[p]]

\* pop moves the higher ranking child up, down to a leaf, which goes.
PopAt(tree, place) ==
    LET higher(p) == IF Left(p) \notin DOMAIN tree THEN Right(p)
                     ELSE IF Right(p) \notin DOMAIN tree THEN Left(p)
                     ELSE IF OutRanks(tree[Left(p)], tree[Right(p)]) THEN Left(p) ELSE Right(p)
        leafBelow[p \in DOMAIN tree] ==
            IF {Left(p), Right(p)} \cap DOMAIN tree = {} THEN p ELSE leafBelow[higher(p)]
        leaf == leafBelow[place]
    IN  [p \in DOMAIN tree \ {leaf} |->
            IF IsPrefix(place, p) /\ IsStrictPrefix(p, leaf) THEN tree[SubSeq(leaf, 1, Len(p) + 1)]
            ELSE tree[p]]

\* remove looks for the item itself, and not below one that it outranks.
RemoveItem(tree, item) ==
    LET places == {p \in DOMAIN tree :
            /\ tree[p] = item
            /\ \A n \in 0..(Len(p) - 1) : ~OutRanks(item, tree[SubSeq(p, 1, n)])}
    IN  IF places = {} THEN tree ELSE PopAt(tree, CHOOSE p \in places : TRUE)

\* checkNodes
HeapOrdered(tree) ==
    \A p \in DOMAIN tree :
        /\ p # Top => Front(p) \in DOMAIN tree
        /\ p # Top => ~OutRanks(tree[p], tree[Front(p)])
=============================================================================
