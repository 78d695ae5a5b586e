------------------------------ MODULE MCKeeNav ------------------------------
(* KeeNav with the menu of gtk/menu.txt. *)
EXTENDS KeeNav

CONSTANTS
  AddPage,            \* the page of the menu that no handler opens
  MaxChildren     \* children of a box, which every visit may add to

MenuBack == {NewPage, AddPage, ImportPage}

FromList == {ListPage}

Bounds == \A n \in Page : Len(children[n]) <= MaxChildren
=============================================================================
