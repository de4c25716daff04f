------------------------ MODULE PartitionMenu_proofs ------------------------
(***************************************************************************)
(* Proofs about process_partition() for every card size: the sizes on the *)
(* screen always fit the card, and partsdc.sh only ever runs with a vfat  *)
(* partition and sizes that fit.                                           *)
(*                                                                         *)
(* LayoutFits alone is not inductive: it says nothing before the menu      *)
(* starts and after it ends, and RepartitionFits needs to know that the    *)
(* sizes handed over are the ones on the screen and that the confirm step *)
(* is only reached with vfat > 0.  IInv says so.                           *)
(***************************************************************************)
EXTENDS PartitionMenu, TLAPS

\* get_sdcard_size() returns a byte count.
LEMMA CardSizes == CardBytes \subseteq Nat
BY PartitionAssumption, SMT

(* The three sizes are non-negative and sum to at most the card.           *)
Fits ==
    /\ mbvf >= 0 /\ mbex >= 0 /\ mbsw >= 0
    /\ mbvf + mbex + mbsw <= mbsd

IInv ==
    /\ TypeOK
    /\ Fits
    /\ pc = "confirm" => mbvf > 0
    /\ partsdc # NoRun =>
          /\ pc = "done" /\ mbvf > 0
          /\ partsdc = [vfat |-> mbvf, ext |-> mbex, swap |-> mbsw]

\* The clamps of a resize give a size between 0 and what is left.
LEMMA ClampRange ==
    ASSUME NEW x \in Int, NEW hi \in Nat
    PROVE  Clamp(x, hi) \in 0..hi
BY DEF Clamp

\* ui_menu_select() keeps the highlight on an item.
LEMMA MenuSelectRange ==
    ASSUME NEW s \in Int
    PROVE  MenuSelect(s) \in 0..2
BY DEF MenuSelect

\* A key press in the menu leaves the display flag a Boolean.
LEMMA PressType ==
    ASSUME NEW a, visible \in BOOLEAN, Press(a)
    PROVE  pc = "menu" /\ visible' \in BOOLEAN
BY DEF Press, Shown

-----------------------------------------------------------------------------
LEMMA InitIInv == Init => IInv
BY DEF Init, IInv, TypeOK, Fits, NoRun

LEMMA NextIInv == IInv /\ [Next]_vars => IInv'
<1>. SUFFICES ASSUME IInv, [Next]_vars PROVE IInv'
     OBVIOUS
<1>. USE DEF IInv, TypeOK, Fits
<1>1. CASE Start
      <2>1. PICK size \in CardBytes :
               IF size = 0
                  THEN pc' = "done" /\ UNCHANGED <<mbsd, mbvf, mbex, mbsw>>
                  ELSE LET sd == size \div 1048576
                       IN  /\ mbsd' = sd
                           /\ mbvf' = (sd * 70) \div 100
                           /\ mbex' = sd - (sd * 70) \div 100
                           /\ mbsw' = 0
                           /\ pc' = "menu"
            BY <1>1 DEF Start
      <2>2. size \in Nat
            BY CardSizes
      <2>3. partsdc = NoRun
            BY <1>1 DEF Start
      <2>. QED  BY <1>1, <2>1, <2>2, <2>3 DEF Start, NoRun
<1>2. CASE Highlight
      <2>1. selected' \in 0..2
            BY <1>2, MenuSelectRange DEF Highlight
      <2>2. pc = "menu" /\ visible' \in BOOLEAN
            BY <1>2, PressType DEF Highlight
      <2>. QED  BY <1>2, <2>1, <2>2 DEF Highlight
<1>3. CASE Ignored
      BY <1>3, PressType DEF Ignored
<1>4. CASE Back
      BY <1>4, PressType DEF Back
<1>5. CASE SelectItem
      BY <1>5, PressType DEF SelectItem
<1>6. CASE Adjust
      <2>1. pc = "menu" /\ visible' \in BOOLEAN /\ UNCHANGED <<pc, mbsd, selected, partsdc>>
            BY <1>6, PressType DEF Adjust
      <2>2. PICK s \in {-1, 1} : Resize(s)
            BY <1>6 DEF Adjust
      <2>3. selected \in 0..2 /\ mbsd \in Nat /\ {mbvf, mbex, mbsw} \subseteq Int
            OBVIOUS
      <2>4. /\ mbvf' \in Int /\ mbex' \in Int /\ mbsw' \in Int
            /\ mbvf' >= 0 /\ mbex' >= 0 /\ mbsw' >= 0
            /\ mbvf' + mbex' + mbsw' <= mbsd
            <3>1. CASE selected = 0
                  <4>1. mbvf' = Clamp(mbvf + s * 128, mbsd - mbex - mbsw) /\ UNCHANGED <<mbex, mbsw>>
                        BY <2>2, <3>1 DEF Resize
                  <4>2. mbvf' \in 0..(mbsd - mbex - mbsw)
                        BY <4>1, <2>3, ClampRange
                  <4>. QED  BY <4>1, <4>2
            <3>2. CASE selected = 1
                  <4>1. mbex' = Clamp(mbex + s * 128, mbsd - mbvf - mbsw) /\ UNCHANGED <<mbvf, mbsw>>
                        BY <2>2, <3>2 DEF Resize
                  <4>2. mbex' \in 0..(mbsd - mbvf - mbsw)
                        BY <4>1, <2>3, ClampRange
                  <4>. QED  BY <4>1, <4>2
            <3>3. CASE selected = 2
                  <4>1. mbsw' = Clamp(mbsw + s * 16, mbsd - mbex - mbvf) /\ UNCHANGED <<mbvf, mbex>>
                        BY <2>2, <3>3 DEF Resize
                  <4>2. mbsw' \in 0..(mbsd - mbex - mbvf)
                        BY <4>1, <2>3, ClampRange
                  <4>. QED  BY <4>1, <4>2
            <3>. QED  BY <2>3, <3>1, <3>2, <3>3
      <2>5. partsdc = NoRun
            BY <2>1
      <2>. QED  BY <2>1, <2>4, <2>5
<1>7. CASE Confirm
      <2>1. PICK key \in Keys :
               /\ partsdc' = IF key \in ConfirmKeys
                                THEN [vfat |-> mbvf, ext |-> mbex, swap |-> mbsw]
                                ELSE partsdc
               /\ visible' = Shown(key, visible)
            BY <1>7 DEF Confirm
      <2>2. partsdc = NoRun /\ mbvf > 0
            BY <1>7 DEF Confirm
      <2>. QED  BY <1>7, <2>1, <2>2 DEF Confirm, Shown, NoRun
<1>8. CASE UNCHANGED vars
      BY <1>8 DEF vars
<1>. QED  BY <1>1, <1>2, <1>3, <1>4, <1>5, <1>6, <1>7, <1>8 DEF Next

(* Every variable of the partition menu keeps its type in every reachable *)
(* state of process_partition(), for every card size.                     *)
THEOREM TypeCorrect == Spec => []TypeOK
<1>1. IInv => TypeOK
      BY DEF IInv
<1>. QED  BY <1>1, InitIInv, NextIInv, PTL DEF Spec

(* The sizes on the screen never go negative nor past the card, through   *)
(* any sequence of resizes of process_partition(), for every card size.   *)
THEOREM LayoutFitsHolds == Spec => []LayoutFits
<1>1. IInv => LayoutFits
      BY DEF IInv, Fits, LayoutFits
<1>. QED  BY <1>1, InitIInv, NextIInv, PTL DEF Spec

(* process_partition() runs partsdc.sh only with vfat > 0 and sizes that  *)
(* fit the card, for every card size.                                     *)
THEOREM RepartitionFitsHolds == Spec => []RepartitionFits
<1>1. IInv => RepartitionFits
      BY DEF IInv, Fits, RepartitionFits
<1>. QED  BY <1>1, InitIInv, NextIInv, PTL DEF Spec

=============================================================================
