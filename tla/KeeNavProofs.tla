---------------------------- MODULE KeeNavProofs ----------------------------
(***************************************************************************)
(* Proofs about KeeNav, for any menu that satisfies MenuAssumption.        *)
(***************************************************************************)
EXTENDS KeeNav, FiniteSetTheorems, TLAPS

(* What a box of a page other than the list and the key may hold.          *)
Other == Child \ {"list", "unlock"}

BoxesInv ==
  /\ children \in [Page -> Seq(Child)]
  /\ children[ListPage] = <<"list">>
  /\ children[KeyPage] = <<"unlock">>
  /\ \A n \in Page \ {ListPage, KeyPage} : children[n] \in Seq(Other)

(* While the key page is open it is the second of two pages.               *)
KeyInv ==
  KeyPage \in widgets =>
    /\ stack_crsr = 2
    /\ visible = KeyPage
    /\ ~scanning /\ ~accept

(* The stack, what follows from it for the header and the page shown.      *)
StackInv ==
  /\ widgets \in SUBSET Page
  /\ stack \in [0 .. KEE_NAV_STACK_SIZE - 1 -> Page]
  /\ stack_crsr \in 0 .. KEE_NAV_STACK_SIZE
  /\ beamenu_now \in Page
  /\ NavConsistent
  /\ stack[0] = ListPage
  /\ Cardinality(widgets) = stack_crsr
  /\ visible \in widgets
  /\ enabled = header(beamenu_now)

FlagsType == accept \in BOOLEAN /\ scanning \in BOOLEAN /\ picked \in BOOLEAN

NavInv == StackInv /\ KeyInv /\ BoxesInv /\ FlagsType

LEMMA NavInvType == NavInv => TypeOK
BY DEF NavInv, StackInv, BoxesInv, FlagsType, TypeOK, header

-----------------------------------------------------------------------------
(* A box whose first child made room for another one. *)
LEMMA BoxType ==
  ASSUME NEW S, NEW box \in Seq(S), NEW w \in S
  PROVE  Append(without_first(box), w) \in Seq(S)
BY DEF without_first

(* The pages that are open are so few that one more fits on the stack. *)
LEMMA PageFits ==
  ASSUME NavInv, NEW n \in Page, n \notin widgets
  PROVE  /\ stack_crsr < KEE_NAV_STACK_SIZE
         /\ Cardinality(widgets \cup {n}) = stack_crsr + 1
<1>1. IsFiniteSet(Page) /\ Cardinality(Page) \in Nat /\ Cardinality(Page) <= KEE_NAV_STACK_SIZE
  BY MenuAssumption, FS_CardinalityType
<1>2. widgets \subseteq Page /\ widgets \cup {n} \subseteq Page
  BY DEF NavInv, StackInv
<1>3. IsFiniteSet(widgets)
  BY <1>1, <1>2, FS_Subset
<1>4. Cardinality(widgets \cup {n}) = Cardinality(widgets) + 1
  BY <1>3, FS_AddElement
<1>5. Cardinality(widgets \cup {n}) <= Cardinality(Page)
  BY <1>1, <1>2, FS_Subset
<1> QED
  BY <1>1, <1>4, <1>5 DEF NavInv, StackInv, KEE_NAV_STACK_SIZE

(* What kee_menu_next keeps, once the key page is closed. *)
LEMMA NextKeeps ==
  ASSUME NavInv, KeyPage \notin widgets,
         NEW n \in {NewPage, ImportPage, TransportPage}, kee_menu_next(n)
  PROVE  /\ StackInv'
         /\ beamenu_now' \in Page \ {ListPage, KeyPage}
         /\ KeyPage \notin widgets'
<1>0. n \in Page /\ n # ListPage /\ n # KeyPage /\ ListPage # KeyPage
  BY MenuAssumption
<1>1. visible' = n /\ enabled' = header(beamenu_now') /\ kee_nav_set(n)
  BY DEF kee_menu_next
<1> USE DEF KEE_NAV_STACK_SIZE
<1>2. CASE n \in widgets
  <2>1. UNCHANGED navVars
    BY <1>1, <1>2 DEF kee_nav_set
  <2>2. PICK i \in 0 .. stack_crsr - 1 : stack[i] = n
    BY <1>2 DEF NavInv, StackInv, NavConsistent, OnStack
  <2>3. i # 0 /\ stack_crsr - 1 # 0
    BY <1>0, <2>2 DEF NavInv, StackInv
  <2>4. stack[stack_crsr - 1] # ListPage
    BY <2>3 DEF NavInv, StackInv, NavConsistent
  <2>5. beamenu_now \in Page
    <3>1. stack_crsr - 1 \in 0 .. KEE_NAV_STACK_SIZE - 1
      BY DEF NavInv, StackInv, NavConsistent
    <3>2. beamenu_now = stack[stack_crsr - 1]
      BY DEF NavInv, StackInv, NavConsistent
    <3> QED
      BY <3>1, <3>2 DEF NavInv, StackInv
  <2>6. beamenu_now \in Page \ {ListPage, KeyPage}
    <3>1. stack_crsr - 1 \in 0 .. KEE_NAV_STACK_SIZE - 1 /\ stack_crsr - 1 \in 0 .. stack_crsr - 1
      BY DEF NavInv, StackInv, NavConsistent
    <3>2. stack[stack_crsr - 1] \in widgets
      BY <3>1 DEF NavInv, StackInv, NavConsistent, OnStack
    <3> QED
      BY <2>4, <2>5, <3>2 DEF NavInv, StackInv, NavConsistent
  <2>7. NavConsistent'
    BY <2>1 DEF NavInv, StackInv, NavConsistent, OnStack, navVars
  <2> QED
    BY <1>1, <1>2, <2>1, <2>6, <2>7 DEF NavInv, StackInv, navVars
<1>3. CASE n \notin widgets
  <2>1. /\ widgets' = widgets \cup {n}
        /\ beamenu_now' = n
        /\ stack' = [stack EXCEPT ![stack_crsr] = n]
        /\ stack_crsr' = stack_crsr + 1
    BY <1>1, <1>3 DEF kee_nav_set
  <2>2. stack_crsr < KEE_NAV_STACK_SIZE /\ Cardinality(widgets') = stack_crsr'
    BY <1>0, <1>3, <2>1, PageFits
  <2>3. stack_crsr \in 1 .. KEE_NAV_STACK_SIZE - 1
    BY <2>2 DEF NavInv, StackInv, NavConsistent
  <2>4. stack'[stack_crsr] = n /\ \A i \in 0 .. stack_crsr - 1 : stack'[i] = stack[i]
    BY <2>1, <2>3 DEF NavInv, StackInv
  <2>5. \A i \in 0 .. stack_crsr - 1 : stack[i] # n
    BY <1>3 DEF NavInv, StackInv, NavConsistent, OnStack
  <2>6. \A i, j \in 0 .. stack_crsr' - 1 : stack'[i] = stack'[j] => i = j
    BY <2>1, <2>3, <2>4, <2>5 DEF NavInv, StackInv, NavConsistent
  <2>7. widgets' = OnStack'
    <3>1. 0 .. stack_crsr' - 1 = (0 .. stack_crsr - 1) \cup {stack_crsr}
      BY <2>1, <2>3
    <3>2. OnStack' = OnStack \cup {n}
      BY <2>4, <3>1 DEF OnStack
    <3> QED
      BY <2>1, <3>2 DEF NavInv, StackInv, NavConsistent
  <2>8. NavConsistent'
    BY <2>1, <2>3, <2>4, <2>6, <2>7 DEF NavConsistent
  <2>9. stack'[0] = ListPage
    BY <2>3, <2>4 DEF NavInv, StackInv
  <2>10. /\ widgets' \in SUBSET Page
         /\ stack' \in [0 .. KEE_NAV_STACK_SIZE - 1 -> Page]
         /\ stack_crsr' \in 0 .. KEE_NAV_STACK_SIZE
    BY <1>0, <2>1, <2>3 DEF NavInv, StackInv
  <2>11. beamenu_now' \in Page \ {ListPage, KeyPage} /\ KeyPage \notin widgets'
    BY <1>0, <2>1
  <2> QED
    BY <1>1, <2>1, <2>2, <2>8, <2>9, <2>10, <2>11 DEF StackInv
<1> QED
  BY <1>2, <1>3

(* What a way back that is found keeps. *)
LEMMA PrevKeeps ==
  ASSUME NavInv, NEW force \in BOOLEAN, back_ok(force), kee_menu_prev(force)
  PROVE  StackInv' /\ KeyPage \notin widgets'
<1> USE DEF KEE_NAV_STACK_SIZE
<1> DEFINE top == stack[stack_crsr - 1]
<1>1. /\ widgets' = widgets \ {top}
      /\ stack_crsr' = stack_crsr - 1
      /\ beamenu_now' = stack[stack_crsr - 2]
      /\ visible' = stack[stack_crsr - 2]
      /\ enabled' = header(beamenu_now')
      /\ stack' = stack
  BY DEF kee_menu_prev, popped
<1>2. stack_crsr \in 2 .. KEE_NAV_STACK_SIZE
  BY DEF NavInv, StackInv, back_ok
<1>3. top \in widgets /\ \A i \in 0 .. stack_crsr - 2 : stack[i] # top
  BY <1>2 DEF NavInv, StackInv, NavConsistent, OnStack
<1>4. widgets' = OnStack'
  <2>1. 0 .. stack_crsr - 1 = (0 .. stack_crsr - 2) \cup {stack_crsr - 1}
    BY <1>2
  <2>2. OnStack = {stack[i] : i \in 0 .. stack_crsr - 2} \cup {top}
    BY <2>1 DEF OnStack
  <2>3. OnStack' = {stack[i] : i \in 0 .. stack_crsr - 2}
    <3>1. stack_crsr' - 1 = stack_crsr - 2
      BY <1>1, <1>2
    <3> QED
      BY <1>1, <3>1 DEF OnStack
  <2>4. widgets = OnStack
    BY DEF NavInv, StackInv, NavConsistent
  <2> QED
    BY <1>1, <1>3, <2>2, <2>3, <2>4
<1>5. NavConsistent'
  BY <1>1, <1>2, <1>4 DEF NavInv, StackInv, NavConsistent
<1>6. Cardinality(widgets') = stack_crsr'
  <2>1. IsFiniteSet(widgets)
    BY MenuAssumption, FS_Subset DEF NavInv, StackInv
  <2>2. Cardinality(widgets') = Cardinality(widgets) - 1
    BY <1>1, <1>3, <2>1, FS_RemoveElement
  <2> QED
    BY <1>1, <2>2 DEF NavInv, StackInv
<1>7. visible' \in widgets'
  BY <1>1, <1>2, <1>4 DEF OnStack
<1>8. KeyPage \notin widgets'
  <2>1. SUFFICES ASSUME KeyPage \in widgets PROVE KeyPage = top
    BY <1>1
  <2>2. stack_crsr = 2 /\ KeyPage \in OnStack
    BY <2>1 DEF NavInv, StackInv, KeyInv, NavConsistent
  <2>3. PICK i \in 0 .. 1 : stack[i] = KeyPage
    BY <2>2 DEF OnStack
  <2>4. i # 0
    BY <2>3, MenuAssumption DEF NavInv, StackInv
  <2> QED
    BY <2>2, <2>3, <2>4
<1>9. /\ widgets' \in SUBSET Page
      /\ stack' \in [0 .. KEE_NAV_STACK_SIZE - 1 -> Page]
      /\ stack_crsr' \in 0 .. KEE_NAV_STACK_SIZE
  BY <1>1, <1>2 DEF NavInv, StackInv
<1>10. beamenu_now' \in Page
  BY <1>1, <1>2 DEF NavInv, StackInv
<1>11. stack'[0] = ListPage
  BY <1>1 DEF NavInv, StackInv
<1> QED
  BY <1>1, <1>5, <1>6, <1>7, <1>8, <1>9, <1>10, <1>11 DEF StackInv

-----------------------------------------------------------------------------
(* The key page and nothing else shows what unlocks. *)
LEMMA OnlyKeyUnlocks ==
  ASSUME NavInv
  PROVE  /\ Shows("unlock") => visible = KeyPage
         /\ \A w \in Child \ {"unlock"} : Shows(w) => visible # KeyPage
<1>1. visible \in Page
  BY DEF NavInv, StackInv
<1>2. ASSUME Shows("unlock"), visible # KeyPage PROVE FALSE
  <2>1. PICK i \in DOMAIN children[visible] : children[visible][i] = "unlock"
    BY <1>2 DEF Shows
  <2>2. visible # ListPage
    BY <2>1 DEF NavInv, BoxesInv
  <2>3. children[visible] \in Seq(Other)
    BY <1>1, <1>2, <2>2 DEF NavInv, BoxesInv
  <2>4. children[visible][i] \in Other
    BY <2>3
  <2> QED
    BY <2>1, <2>4 DEF Other
<1>3. ASSUME NEW w \in Child \ {"unlock"}, Shows(w), visible = KeyPage PROVE FALSE
  BY <1>3 DEF Shows, NavInv, BoxesInv
<1> QED
  BY <1>2, <1>3

(* While the key page is open it is current, with no button enabled.       *)
LEMMA KeyIsCurrent ==
  ASSUME NavInv, KeyPage \in widgets
  PROVE  beamenu_now = KeyPage /\ enabled = {}
<1>1. stack_crsr = 2 /\ KeyPage \in OnStack
  BY DEF NavInv, KeyInv, StackInv, NavConsistent
<1>2. PICK i \in 0 .. 1 : stack[i] = KeyPage
  BY <1>1 DEF OnStack
<1>3. i = 1
  BY <1>2, MenuAssumption DEF NavInv, StackInv
<1>4. beamenu_now = KeyPage
  BY <1>1, <1>2, <1>3 DEF NavInv, StackInv, NavConsistent
<1>5. header(KeyPage) = {}
  BY MenuAssumption DEF header
<1> QED
  BY <1>4, <1>5 DEF NavInv, StackInv

LEMMA Open ==
  ASSUME NavInv
  PROVE  /\ visible # KeyPage \/ enabled # {} \/ scanning \/ accept => KeyPage \notin widgets
         /\ ImportPage \in Page /\ NewPage \in Page /\ TransportPage \in Page
BY KeyIsCurrent, MenuAssumption DEF NavInv, KeyInv

(* The header offers the way back only where there is one. *)
LEMMA BackIsOk ==
  ASSUME NavInv, "back" \in enabled
  PROVE  back_ok(FALSE)
<1>1. beamenu_now \in BackExit
  BY DEF NavInv, StackInv, header
<1>2. stack_crsr # 1
  BY <1>1, MenuAssumption DEF NavInv, StackInv, NavConsistent
<1> QED
  BY <1>1, <1>2 DEF back_ok, NavInv, StackInv, NavConsistent

LEMMA UnlockIsOk ==
  ASSUME NavInv, Shows("unlock")
  PROVE  back_ok(TRUE)
<1>1. KeyPage \in widgets
  BY OnlyKeyUnlocks DEF NavInv, StackInv
<1> QED
  BY <1>1 DEF back_ok, NavInv, KeyInv

(* What is put on a page other than the list and the key leaves the boxes  *)
(* as they should be.                                                      *)
LEMMA FilledBoxes ==
  ASSUME NavInv, NEW w \in Entry, beamenu_now' \in Page \ {ListPage, KeyPage},
         children' = filled(w)
  PROVE  BoxesInv'
<1> DEFINE n == beamenu_now'
           box == Append(without_first(children[n]), w)
<1>1. n \in Page \ {ListPage, KeyPage} /\ children' = [children EXCEPT ![n] = box]
  BY DEF filled
<1>2. w \in Child /\ w \in Other
  BY DEF Entry, Child, Other
<1>3. children[n] \in Seq(Child) /\ children[n] \in Seq(Other)
  BY <1>1 DEF NavInv, BoxesInv
<1>4. box \in Seq(Child) /\ box \in Seq(Other)
  BY <1>2, <1>3, BoxType
<1> HIDE DEF n, box
<1> QED
  BY <1>1, <1>4 DEF NavInv, BoxesInv

(* NavInv of the next state from its parts, once the key page is closed.   *)
LEMMA Assembled ==
  ASSUME StackInv', KeyPage \notin widgets', BoxesInv', FlagsType'
  PROVE  NavInv'
BY DEF NavInv, KeyInv

-----------------------------------------------------------------------------
LEMMA InitNav ==
  ASSUME Init
  PROVE  NavInv
<1>0. ListPage \in Page /\ KeyPage \in Page /\ ListPage # KeyPage
  BY MenuAssumption
<1>1. stack \in [0 .. KEE_NAV_STACK_SIZE - 1 -> Page] /\ stack[0] = ListPage /\ stack[1] = KeyPage
  BY <1>0 DEF Init, KEE_NAV_STACK_SIZE
<1>2. NavConsistent
  <2>1. stack_crsr = 2 /\ 0 .. stack_crsr - 1 = {0, 1}
    BY DEF Init
  <2>2. OnStack = {ListPage, KeyPage}
    BY <1>1, <2>1 DEF OnStack
  <2> QED
    BY <1>0, <1>1, <2>1, <2>2 DEF Init, NavConsistent
<1>3. Cardinality(widgets) = 2
  <2>1. IsFiniteSet({ListPage}) /\ Cardinality({ListPage}) = 1
    BY FS_Singleton
  <2>2. Cardinality({ListPage} \cup {KeyPage}) = 2
    BY <1>0, <2>1, FS_AddElement
  <2>3. widgets = {ListPage} \cup {KeyPage}
    BY DEF Init
  <2> QED
    BY <2>2, <2>3
<1>4. StackInv
  BY <1>0, <1>1, <1>2, <1>3 DEF Init, StackInv, KEE_NAV_STACK_SIZE
<1>5. BoxesInv
  <2>1. /\ children[ListPage] = <<"list">> /\ children[KeyPage] = <<"unlock">>
        /\ \A n \in Page \ {ListPage, KeyPage} :
             children[n] = <<"scan", "footer">> \/ children[n] = <<>>
    BY <1>0 DEF Init
  <2>2. <<"list">> \in Seq(Child) /\ <<"unlock">> \in Seq(Child)
    BY DEF Child
  <2>3. <<"scan", "footer">> \in Seq(Child) /\ <<"scan", "footer">> \in Seq(Other)
    BY DEF Child, Other
  <2>4. <<>> \in Seq(Child) /\ <<>> \in Seq(Other)
    OBVIOUS
  <2>5. \A n \in Page : children[n] \in Seq(Child)
    BY <2>1, <2>2, <2>3, <2>4
  <2>6. children \in [Page -> Seq(Child)]
    BY <2>5 DEF Init
  <2> QED
    BY <2>1, <2>3, <2>4, <2>6 DEF BoxesInv
<1>6. KeyInv /\ FlagsType
  BY DEF Init, KeyInv, FlagsType
<1> QED
  BY <1>4, <1>5, <1>6 DEF NavInv

(* Every step of the window leaves the key page closed; the first one     *)
(* closes it.                                                              *)
LEMMA UnlockKeeps ==
  ASSUME NavInv, Unlock
  PROVE  NavInv' /\ KeyPage \notin widgets'
<1>1. back_ok(TRUE) /\ kee_menu_prev(TRUE)
  BY UnlockIsOk DEF Unlock
<1>2. StackInv' /\ KeyPage \notin widgets'
  BY <1>1, PrevKeeps
<1>3. BoxesInv' /\ FlagsType'
  BY DEF Unlock, NavInv, BoxesInv, FlagsType
<1> QED
  BY <1>2, <1>3, Assembled

LEMMA GoBackKeeps ==
  ASSUME NavInv, GoBack
  PROVE  NavInv' /\ KeyPage \notin widgets'
<1>1. back_ok(FALSE) /\ kee_menu_prev(FALSE)
  BY BackIsOk DEF GoBack
<1>2. StackInv' /\ KeyPage \notin widgets'
  BY <1>1, PrevKeeps
<1>3. BoxesInv' /\ FlagsType'
  BY DEF GoBack, NavInv, BoxesInv, FlagsType
<1> QED
  BY <1>2, <1>3, Assembled

LEMMA OpenImportKeeps ==
  ASSUME NavInv, OpenImport
  PROVE  NavInv' /\ KeyPage \notin widgets'
<1>1. KeyPage \notin widgets /\ kee_menu_next(ImportPage)
  BY Open DEF OpenImport
<1>2. StackInv' /\ KeyPage \notin widgets'
  BY <1>1, NextKeeps
<1>3. BoxesInv' /\ FlagsType'
  BY DEF OpenImport, NavInv, BoxesInv, FlagsType
<1> QED
  BY <1>2, <1>3, Assembled

LEMMA NewEntryKeeps ==
  ASSUME NavInv, NewEntry
  PROVE  NavInv' /\ KeyPage \notin widgets'
<1>1. KeyPage \notin widgets /\ kee_menu_next(NewPage)
  BY Open DEF NewEntry
<1>2. StackInv' /\ beamenu_now' \in Page \ {ListPage, KeyPage} /\ KeyPage \notin widgets'
  BY <1>1, NextKeeps
<1>3. BoxesInv'
  BY <1>2, FilledBoxes DEF NewEntry, Entry
<1>4. FlagsType'
  BY DEF NewEntry, NavInv, FlagsType
<1> QED
  BY <1>2, <1>3, <1>4, Assembled

LEMMA SelectKeeps ==
  ASSUME NavInv, NEW again \in BOOLEAN, Select(again)
  PROVE  NavInv' /\ KeyPage \notin widgets'
<1>1. KeyPage \notin widgets /\ kee_menu_next(NewPage)
  BY OnlyKeyUnlocks, Open DEF Select, Child
<1>2. StackInv' /\ beamenu_now' \in Page \ {ListPage, KeyPage} /\ KeyPage \notin widgets'
  BY <1>1, NextKeeps
<1>3. BoxesInv'
  <2>1. CASE again
    BY <2>1 DEF Select, NavInv, BoxesInv
  <2>2. CASE ~again
    BY <1>2, <2>2, FilledBoxes DEF Select, Entry
  <2> QED
    BY <2>1, <2>2
<1>4. FlagsType'
  BY DEF Select, importVars, NavInv, FlagsType
<1> QED
  BY <1>2, <1>3, <1>4, Assembled

LEMMA RenderKeeps ==
  ASSUME NavInv, Render
  PROVE  NavInv' /\ KeyPage \notin widgets'
<1>1. KeyPage \notin widgets /\ kee_menu_next(TransportPage)
  BY OnlyKeyUnlocks, Open DEF Render, Child, Entry
<1>2. StackInv' /\ KeyPage \notin widgets'
  BY <1>1, NextKeeps
<1>3. BoxesInv'
  <2> DEFINE box == Append(without_first(children[TransportPage]), "picture")
  <2>1. TransportPage \in Page \ {ListPage, KeyPage}
    BY MenuAssumption
  <2>2. children[TransportPage] \in Seq(Child) /\ children[TransportPage] \in Seq(Other)
    BY <2>1 DEF NavInv, BoxesInv
  <2>3. {"picture", "continue"} \subseteq Child /\ {"picture", "continue"} \subseteq Other
    BY DEF Child, Other
  <2>4. box \in Seq(Child) /\ box \in Seq(Other)
    BY <2>2, <2>3, BoxType
  <2>5. children' = [children EXCEPT ![TransportPage] = Append(box, "continue")]
    BY DEF Render
  <2> HIDE DEF box
  <2>6. Append(box, "continue") \in Seq(Child) /\ Append(box, "continue") \in Seq(Other)
    BY <2>3, <2>4
  <2> QED
    BY <2>1, <2>5, <2>6 DEF NavInv, BoxesInv
<1>4. FlagsType'
  BY DEF Render, NavInv, FlagsType
<1> QED
  BY <1>2, <1>3, <1>4, Assembled

LEMMA ContinueKeeps ==
  ASSUME NavInv, Continue
  PROVE  NavInv' /\ KeyPage \notin widgets'
<1>1. KeyPage \notin widgets /\ kee_menu_next(ImportPage)
  BY OnlyKeyUnlocks, Open DEF Continue, Child
<1>2. StackInv' /\ KeyPage \notin widgets'
  BY <1>1, NextKeeps
<1>3. BoxesInv' /\ FlagsType'
  BY DEF Continue, NavInv, BoxesInv, FlagsType
<1> QED
  BY <1>2, <1>3, Assembled

LEMMA ScanKeeps ==
  ASSUME NavInv, Scan
  PROVE  NavInv' /\ KeyPage \notin widgets'
<1>1. KeyPage \notin widgets
  BY OnlyKeyUnlocks, Open DEF Scan, Child
<1>2. StackInv' /\ KeyPage \notin widgets'
  BY <1>1 DEF Scan, NavInv, StackInv, NavConsistent, OnStack
<1>3. BoxesInv' /\ FlagsType'
  BY DEF Scan, NavInv, BoxesInv, FlagsType
<1> QED
  BY <1>2, <1>3, Assembled

(* An import that is accepted on whatever page. *)
LEMMA AcceptedKeeps ==
  ASSUME NavInv, KeyPage \notin widgets, NEW response \in BOOLEAN, accepted(response)
  PROVE  StackInv' /\ KeyPage \notin widgets' /\ BoxesInv'
<1>1. CASE response
  <2>1. kee_menu_next(NewPage) /\ children' = filled("sheet")
    BY <1>1 DEF accepted
  <2>2. StackInv' /\ beamenu_now' \in Page \ {ListPage, KeyPage} /\ KeyPage \notin widgets'
    BY <2>1, NextKeeps
  <2> QED
    BY <2>1, <2>2, FilledBoxes DEF Entry
<1>2. CASE ~response
  <2>1. UNCHANGED <<widgets, stack, stack_crsr, beamenu_now, visible, enabled, children>>
    BY <1>2 DEF accepted
  <2> QED
    BY <2>1 DEF NavInv, StackInv, NavConsistent, OnStack, BoxesInv
<1> QED
  BY <1>1, <1>2

LEMMA CodeKeeps ==
  ASSUME NavInv, NEW response \in BOOLEAN, Code(response)
  PROVE  NavInv' /\ KeyPage \notin widgets'
<1>1. KeyPage \notin widgets /\ accepted(response)
  BY Open DEF Code
<1>2. FlagsType'
  BY DEF Code, NavInv, FlagsType
<1> QED
  BY <1>1, <1>2, AcceptedKeeps, Assembled

LEMMA AcceptKeeps ==
  ASSUME NavInv, NEW response \in BOOLEAN, Accept(response)
  PROVE  NavInv' /\ KeyPage \notin widgets'
<1>1. KeyPage \notin widgets /\ accepted(response)
  BY Open DEF Accept
<1>2. FlagsType'
  BY DEF Accept, NavInv, FlagsType
<1> QED
  BY <1>1, <1>2, AcceptedKeeps, Assembled

LEMMA StutterKeeps ==
  ASSUME NavInv, UNCHANGED vars
  PROVE  NavInv'
BY DEF vars, NavInv, StackInv, NavConsistent, OnStack, KeyInv, BoxesInv, FlagsType

LEMMA StepKeeps ==
  ASSUME NavInv, [Next]_vars
  PROVE  NavInv' /\ (KeyPage \notin widgets => KeyPage \notin widgets')
<1>1. CASE Next
  BY <1>1, UnlockKeeps, GoBackKeeps, OpenImportKeeps, NewEntryKeeps, SelectKeeps,
     RenderKeeps, ContinueKeeps, ScanKeeps, CodeKeeps, AcceptKeeps DEF Next
<1>2. CASE UNCHANGED vars
  BY <1>2, StutterKeeps DEF vars
<1> QED
  BY <1>1, <1>2

-----------------------------------------------------------------------------
(* The strengthened invariant of navigation: one picture of where the user *)
(* is, no more pages than places, and a key page that is left only by      *)
(* unlocking.                                                              *)
THEOREM Invariance == Spec => []NavInv
<1>1. Init => NavInv
  BY InitNav
<1>2. NavInv /\ [Next]_vars => NavInv'
  BY StepKeeps
<1> QED
  BY <1>1, <1>2, PTL DEF Spec

(* Every variable keeps its type: in particular stack_crsr never exceeds   *)
(* KEE_NAV_STACK_SIZE, which kee_nav_set does not look at.                 *)
THEOREM TypeCorrect == Spec => []TypeOK
BY Invariance, NavInvType, PTL

(* Stack, widgets and current node agree (kee_nav_set, kee_nav_back).      *)
THEOREM NavigationSafe == Spec => []NavConsistent
<1>1. NavInv => NavConsistent
  BY DEF NavInv, StackInv
<1> QED
  BY <1>1, Invariance, PTL

(* The page that is shown is an open one (kee_menu_next, kee_menu_prev).   *)
THEOREM VisibleSafe == Spec => []VisibleIsOpen
<1>1. NavInv => VisibleIsOpen
  BY DEF NavInv, StackInv, VisibleIsOpen
<1> QED
  BY <1>1, Invariance, PTL

(* kee_nav_back returns a widget whenever a handler can call it.           *)
THEOREM BackSafe == Spec => []BackLeads
<1>1. NavInv => BackLeads
  BY BackIsOk, UnlockIsOk DEF BackLeads
<1> QED
  BY <1>1, Invariance, PTL

(* No page but the key page before the key is unlocked (ui_build,          *)
(* ui_handle_unlock).                                                      *)
THEOREM LockedSafe == Spec => []Locked
<1>1. NavInv => Locked
  BY KeyIsCurrent DEF NavInv, KeyInv, Locked
<1> QED
  BY <1>1, Invariance, PTL

(* No step after the unlocking reopens the key page or replaces the list   *)
(* (kee_menu_set on the current page).                                     *)
THEOREM ListSafe == Spec => ListStays
<1>1. NavInv /\ NavInv' /\ [Next]_vars
        => [KeyPage \notin widgets
              => KeyPage \notin widgets' /\ children'[ListPage] = children[ListPage]]_vars
  <2> SUFFICES ASSUME NavInv, NavInv', [Next]_vars, KeyPage \notin widgets
               PROVE  KeyPage \notin widgets' /\ children'[ListPage] = children[ListPage]
    OBVIOUS
  <2>1. children'[ListPage] = children[ListPage]
    BY DEF NavInv, BoxesInv
  <2> QED
    BY <2>1, StepKeeps
<1> QED
  BY <1>1, Invariance, PTL DEF Spec, ListStays
=============================================================================
