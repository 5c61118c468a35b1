-------------------------- MODULE OwnerclanCatalogue --------------------------
(***************************************************************************)
(* What the ownerclan collector walks through, page by page: the list of   *)
(* leaf categories (load_or_refresh_leaf_categories) and, for each, the    *)
(* cursors with which the Seller API hands out its allItems pages.         *)
(*                                                                         *)
(* Categories are their positions in the category list.  A cursor is a     *)
(* number: 0 is "no cursor" (Python's None) and Follow[c][k] is the cursor *)
(* the server returns with the page of category c fetched at cursor k, 0   *)
(* when the page is the category's last.  Cursors are numbered in the      *)
(* order they are first met, so the server goes on by one or repeats a     *)
(* cursor it has already given.                                            *)
(***************************************************************************)
EXTENDS Integers, FiniteSets

CONSTANTS
    NumCategories,  \* length of the category list
    MaxPage,        \* bound: the largest cursor of the catalogue
    Follow          \* the server's cursors, as above

None == 0

Category == 1..NumCategories

Cursor == 0..MaxPage

ASSUME SizeAssumption == NumCategories \in Nat \ {0} /\ MaxPage \in Nat

ASSUME FollowAssumption ==
    /\ Follow \in [Category -> [Cursor -> Cursor]]
    /\ \A c \in Category, k \in Cursor : Follow[c][k] <= k + 1

\* The cursors of category c that following the server reaches; the page
\* fetched at cursor k of category c is <<c, k>>.
CursorsOf(c) == {k \in Cursor : \A j \in 0..(k - 1) : Follow[c][j] = j + 1}

Page == {p \in Category \X Cursor : p[2] \in CursorsOf(p[1])}

\* The server goes round in a circle in category c.
Repeats(c) == \E k \in CursorsOf(c) : Follow[c][k] \in 1..k

\* category-collection-state.json: a category and the cursor to go on from;
\* category 0: there is no file.
NoLegacy == [category |-> 0, after |-> None]

\* _category_start_index: the position of the file's category, or the first.
StartAt(state) == IF state.category \in Category THEN state.category ELSE 1
=============================================================================
