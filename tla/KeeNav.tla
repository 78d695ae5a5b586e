------------------------------- MODULE KeeNav -------------------------------
(***************************************************************************)
(* How the window of the application moves between its pages: the menu     *)
(* graph of beamenu, the stack and widgets of gtk/nav.c, and the handlers  *)
(* that push, pop and fill pages (gtk/kee-menu.c, gtk/ui.c,                *)
(* gtk/kee-transport.c, gtk/kee-entry-list.c, gtk/kee-import.c).           *)
(*                                                                         *)
(* The menu is a parameter: the pages at which each of the three exits is  *)
(* set.  A back exit of gtk/menu.txt is inactive or the previous page,     *)
(* never a page by name; the other two only enable a button.               *)
(***************************************************************************)
EXTENDS Integers, Sequences, FiniteSets

CONSTANTS
  Page,                                 \* the nodes of the menu
  ListPage, KeyPage, NewPage, ImportPage, TransportPage,    \* those the handlers name
  BackExit, NewExit, ImportExit,        \* pages at which that exit is set
  DEFAULT                               \* what a back exit that is set holds

KEE_NAV_STACK_SIZE == 8

Button == {"back", "new_entry", "import"}

(* What the box of a page is filled with: what it is built from, or an     *)
(* entry: a form, an imported ledger to confirm, a selected one.           *)
Entry == {"form", "sheet", "selected"}
Child == {"list", "unlock", "scan", "footer", "picture", "continue"} \cup Entry

ASSUME MenuAssumption ==
  /\ IsFiniteSet(Page) /\ Cardinality(Page) <= KEE_NAV_STACK_SIZE
  /\ {ListPage, KeyPage, NewPage, ImportPage, TransportPage} \subseteq Page
  /\ ListPage \notin {KeyPage, NewPage, ImportPage, TransportPage}
  /\ KeyPage \notin {NewPage, ImportPage, TransportPage}
  /\ DEFAULT \notin Page
  /\ ListPage \notin BackExit
  /\ KeyPage \notin BackExit \cup NewExit \cup ImportExit

VARIABLES
  widgets,      \* the pages whose entry in widgets[] is set
  stack,        \* stack[], static and never cleared
  stack_crsr,
  beamenu_now,
  visible,      \* the visible child of the GtkStack
  enabled,      \* the buttons of the header that are enabled
  children,     \* children[n]: the children of the box of page n
  accept,       \* the action import_data_accept is enabled
  scanning,     \* a camera is on whose first code has not come yet
  picked        \* an entry of the list is selected, and in full mode

navVars == <<widgets, stack, stack_crsr, beamenu_now>>
importVars == <<accept, scanning>>
vars == <<widgets, stack, stack_crsr, beamenu_now, visible, enabled, children, accept, scanning, picked>>

TypeOK ==
  /\ widgets \in SUBSET Page
  /\ stack \in [0 .. KEE_NAV_STACK_SIZE - 1 -> Page]
  /\ stack_crsr \in 0 .. KEE_NAV_STACK_SIZE
  /\ beamenu_now \in Page \cup {DEFAULT}
  /\ visible \in Page
  /\ enabled \in SUBSET Button
  /\ children \in [Page -> Seq(Child)]
  /\ accept \in BOOLEAN
  /\ scanning \in BOOLEAN
  /\ picked \in BOOLEAN

-----------------------------------------------------------------------------
\* For the mutation check: the button back does not depend on the menu.
header_back(n) ==
  {"back"} \cup {b \in Button : b = "new_entry" /\ n \in NewExit}
           \cup {b \in Button : b = "import" /\ n \in ImportExit}

\* For the mutation check: only the list takes the import button away.
header_import(n) ==
  {b \in Button :
     \/ b = "back" /\ n \in BackExit
     \/ b = "new_entry" /\ n \in NewExit
     \/ b = "import" /\ n # ListPage}

(* kee_menu_header_update *)
header(n) ==
  {b \in Button :
     \/ b = "back" /\ n \in BackExit
     \/ b = "new_entry" /\ n \in NewExit
     \/ b = "import" /\ n \in ImportExit}

\* For the mutation check: a page that is open already is opened again.
kee_nav_set_again(n) ==
  /\ widgets' = widgets \cup {n}
  /\ beamenu_now' = n
  /\ stack' = [stack EXCEPT ![stack_crsr] = n]
  /\ stack_crsr' = stack_crsr + 1

(* A page that is open already is refused, silently. *)
kee_nav_set(n) ==
  IF n \in widgets
  THEN UNCHANGED navVars
  ELSE /\ widgets' = widgets \cup {n}
       /\ beamenu_now' = n
       /\ stack' = [stack EXCEPT ![stack_crsr] = n]
       /\ stack_crsr' = stack_crsr + 1

(* ... and shown all the same. *)
kee_menu_next(n) ==
  /\ kee_nav_set(n)
  /\ visible' = n
  /\ enabled' = header(beamenu_now')

(* What is put in a box first removes its first child. *)
without_first(box) == IF box = <<>> THEN box ELSE Tail(box)

\* For the mutation check: the box that is filled is that of the bottom page.
filled_bottom(w) ==
  [children EXCEPT ![stack[0]] = Append(without_first(@), w)]

(* kee_menu_set: on the current page, whatever page is shown. *)
filled(w) ==
  [children EXCEPT ![beamenu_now'] = Append(without_first(@), w)]

(* kee_nav_back finds a page to go back to. *)
back_ok(force) ==
  /\ stack_crsr >= 2
  /\ beamenu_now \in BackExit \/ force

\* For the mutation check: the page that is left keeps its widget.
popped_kept == widgets

\* For the mutation check: the page that is returned to loses its widget.
popped_next == widgets \ {stack[stack_crsr - 2]}

popped == widgets \ {stack[stack_crsr - 1]}

(* When it finds none, the exit may have been used already: the current    *)
(* node is then no page, and no widget is there to be shown.               *)
kee_menu_prev(force) ==
  /\ IF back_ok(force)
     THEN /\ widgets' = popped
          /\ stack_crsr' = stack_crsr - 1
          /\ beamenu_now' = stack[stack_crsr - 2]
          /\ visible' = stack[stack_crsr - 2]
     ELSE /\ beamenu_now' = IF stack_crsr > 0 /\ beamenu_now \in BackExit
                            THEN DEFAULT ELSE beamenu_now
          /\ UNCHANGED <<widgets, stack_crsr, visible>>
  /\ enabled' = header(beamenu_now')
  /\ UNCHANGED stack

-----------------------------------------------------------------------------
(* ui_build: the list, and the key page on top of it. *)
Init ==
  /\ widgets = {ListPage, KeyPage}
  /\ stack = [i \in 0 .. KEE_NAV_STACK_SIZE - 1 |-> IF i = 1 THEN KeyPage ELSE ListPage]
  /\ stack_crsr = 2
  /\ beamenu_now = KeyPage
  /\ visible = KeyPage
  /\ enabled = header(KeyPage)
  /\ children = [n \in Page |->
       IF n = ListPage THEN <<"list">>
       ELSE IF n = KeyPage THEN <<"unlock">>
       ELSE IF n = ImportPage THEN <<"scan", "footer">> ELSE <<>>]
  /\ accept = FALSE
  /\ scanning = FALSE
  /\ picked = FALSE

Shows(w) == \E i \in DOMAIN children[visible] : children[visible][i] = w

(* The right passphrase: ui_handle_unlock forces the way back. *)
Unlock ==
  /\ Shows("unlock")
  /\ kee_menu_prev(TRUE)
  /\ UNCHANGED <<children, accept, scanning, picked>>

GoBack ==
  /\ "back" \in enabled
  /\ kee_menu_prev(FALSE)
  /\ UNCHANGED <<children, accept, scanning, picked>>

OpenImport ==
  /\ "import" \in enabled
  /\ kee_menu_next(ImportPage)
  /\ UNCHANGED <<children, accept, scanning, picked>>

NewEntry ==
  /\ "new_entry" \in enabled
  /\ kee_menu_next(NewPage)
  /\ children' = filled("form")
  /\ UNCHANGED <<accept, scanning, picked>>

(* kee_entry_list_handle_select.  An entry that is selected once more is   *)
(* in full mode already: the page is shown with what it has in it.         *)
Select(again) ==
  /\ Shows("list")
  /\ again => picked
  /\ kee_menu_next(NewPage)
  /\ children' = IF again THEN children ELSE filled("selected")
  /\ picked' = TRUE
  /\ UNCHANGED importVars

(* "add" or "confirm": the transport of the entry is drawn and shown. *)
Render ==
  /\ Shows("form") \/ Shows("sheet")
  /\ kee_menu_next(TransportPage)
  /\ children' = [children EXCEPT ![TransportPage] =
       Append(Append(without_first(@), "picture"), "continue")]
  /\ UNCHANGED <<accept, scanning, picked>>

(* kee_transport_handle_continue: on to the import if the page below the   *)
(* top of the stack is that of a new entry.                                *)
Continue ==
  /\ Shows("continue")
  /\ stack_crsr >= 2 /\ stack[stack_crsr - 2] = NewPage
  /\ kee_menu_next(ImportPage)
  /\ UNCHANGED <<children, accept, scanning, picked>>

(* A camera is chosen. *)
Scan ==
  /\ Shows("scan")
  /\ scanning' = TRUE
  /\ UNCHANGED <<widgets, stack, stack_crsr, beamenu_now, visible, enabled, children, accept, picked>>

(* What an accepted import does to the window: a ledger to confirm is      *)
(* shown, anything else leaves it as it is.                                *)
accepted(response) ==
  IF response
  THEN kee_menu_next(NewPage) /\ children' = filled("sheet")
  ELSE UNCHANGED <<widgets, stack, stack_crsr, beamenu_now, visible, enabled, children>>

(* The first code of a scan is accepted at once, on whatever page.  The    *)
(* watch of the bus ends with it.                                          *)
Code(response) ==
  /\ scanning
  /\ scanning' = FALSE
  /\ accept' = TRUE
  /\ accepted(response)
  /\ UNCHANGED picked

(* The import button under the text. *)
Accept(response) ==
  /\ Shows("scan")
  /\ accept
  /\ accepted(response)
  /\ UNCHANGED <<accept, scanning, picked>>

Next ==
  \/ Unlock \/ GoBack \/ OpenImport \/ NewEntry \/ Render \/ Continue \/ Scan
  \/ \E b \in BOOLEAN : Select(b) \/ Code(b) \/ Accept(b)

Spec == Init /\ [][Next]_vars

-----------------------------------------------------------------------------
(* nav.c keeps one picture of where the user is in three places: the stack *)
(* has no page twice, exactly its pages have a widget, and the current     *)
(* node of the menu is its top.  kee_nav_set pushes without looking at the *)
(* size of the stack, and kee_nav_get indexes widgets[] by that node.      *)
OnStack == {stack[i] : i \in 0 .. stack_crsr - 1}

NavConsistent ==
  /\ \A i, j \in 0 .. stack_crsr - 1 : stack[i] = stack[j] => i = j
  /\ widgets = OnStack
  /\ stack_crsr > 0 /\ beamenu_now = stack[stack_crsr - 1]

(* The page that is shown is open, although kee_menu_next shows pages that *)
(* kee_nav_set refused and kee_menu_prev closes pages that are not shown.  *)
VisibleIsOpen == visible \in widgets

(* Whenever a way back is offered there is a page to go back to: the       *)
(* result of kee_nav_back, which kee_menu_prev shows unchecked, is no NULL.*)
BackLeads ==
  /\ "back" \in enabled => back_ok(FALSE)
  /\ Shows("unlock") => back_ok(TRUE)

(* Until the key is unlocked the key page is what is shown, with no button *)
(* to leave it and no import that could come in from behind.               *)
Locked ==
  KeyPage \in widgets => visible = KeyPage /\ enabled = {} /\ ~scanning /\ ~accept

(* The key page does not come back, and an entry that is put on "the       *)
(* current page" never takes the place of the list.                        *)
ListStays == [][KeyPage \notin widgets => KeyPage \notin widgets' /\ children'[ListPage] = children[ListPage]]_vars
=============================================================================
