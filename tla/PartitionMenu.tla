--------------------------- MODULE PartitionMenu ---------------------------
(***************************************************************************)
(* process_partition() of recovery.c, with device_handle_key() of          *)
(* recovery_ui.c: the menu that splits the sdcard into vfat, ext3 and swap *)
(* before /sbin/partsdc.sh repartitions it.  The user moves the highlight  *)
(* and grows or shrinks the highlighted partition with LEFT/RIGHT (128 MB, *)
(* 16 MB for swap), each change clamped to what the other two leave of the *)
(* card; SELECT asks for a second key and then runs the script with the    *)
(* three sizes.  HOME toggles the text display, and while the text is      *)
(* hidden device_handle_key() ignores every key.                           *)
(***************************************************************************)
EXTENDS Integers

CONSTANTS
    CardBytes   \* get_sdcard_size() results: the card size in bytes, 0 if not ready

(* mbsd*70 is computed in a 32-bit int: the sizes stay below the overflow. *)
ASSUME PartitionAssumption ==
    /\ CardBytes \subseteq Nat
    /\ \A b \in CardBytes : b \div 1048576 <= 2147483647 \div 70

Keys == {"DOWN", "UP", "ENTER", "CENTER", "MOUSE", "F21", "BACK", "POWER",
         "LEFT", "SEND", "VOLUMEDOWN", "RIGHT", "END", "VOLUMEUP", "HOME"}

(* The keys that confirm the repartitioning once SELECT was pressed.       *)
ConfirmKeys == {"CENTER", "ENTER", "MOUSE", "F21"}

(* device_handle_key(): the menu action of a key while the text shows.     *)
Bindings ==
    [DOWN |-> "HIGHLIGHT_DOWN", UP |-> "HIGHLIGHT_UP",
     ENTER |-> "SELECT_ITEM", CENTER |-> "SELECT_ITEM", MOUSE |-> "SELECT_ITEM", F21 |-> "SELECT_ITEM",
     BACK |-> "SELECT_BACK", POWER |-> "SELECT_BACK",
     LEFT |-> "SELECT_LEFT", SEND |-> "SELECT_LEFT", VOLUMEDOWN |-> "SELECT_LEFT",
     RIGHT |-> "SELECT_RIGHT", END |-> "SELECT_RIGHT", VOLUMEUP |-> "SELECT_RIGHT"]

device_handle_key(key, visible) ==
    IF visible /\ key \in DOMAIN Bindings THEN Bindings[key] ELSE "NO_ACTION"

(* device_toggle_display(): the input thread flips the text display on     *)
(* HOME, and queues the key as well.                                       *)
Shown(key, visible) == IF key = "HOME" THEN ~visible ELSE visible

MenuSelectUnclamped(sel) == sel

(* ui_menu_select() (ui.c): the highlight stays on one of the three items. *)
MenuSelect(sel) == IF sel < 0 THEN 0 ELSE IF sel > 2 THEN 2 ELSE sel

NoRun == [vfat |-> -1, ext |-> -1, swap |-> -1]

VARIABLES
    pc,         \* "start", "menu", "confirm" or "done"
    mbsd,       \* card size in MB
    mbvf, mbex, mbsw,   \* the vfat, ext3 and swap sizes shown
    selected,   \* the highlighted item
    visible,    \* ui_text_visible()
    partsdc     \* the sizes handed to /sbin/partsdc.sh, NoRun before

vars == <<pc, mbsd, mbvf, mbex, mbsw, selected, visible, partsdc>>

TypeOK ==
    /\ pc \in {"start", "menu", "confirm", "done"}
    /\ mbsd \in Nat
    /\ {mbvf, mbex, mbsw} \subseteq Int
    /\ selected \in 0..2
    /\ visible \in BOOLEAN
    /\ partsdc \in [vfat : Int, ext : Int, swap : Int]

Init ==
    /\ pc = "start"
    /\ mbsd = 0 /\ mbvf = 0 /\ mbex = 0 /\ mbsw = 0
    /\ selected = 0
    /\ visible \in BOOLEAN
    /\ partsdc = NoRun

(* get_sdcard_size(); 0 means "SD卡未就绪" and return.  Otherwise the      *)
(* card size in MB, 70% of it for vfat, the rest for ext3, no swap.        *)
Start ==
    /\ pc = "start"
    /\ \E size \in CardBytes :
          IF size = 0
             THEN pc' = "done" /\ UNCHANGED <<mbsd, mbvf, mbex, mbsw>>
             ELSE LET sd == size \div 1048576
                  IN  /\ mbsd' = sd
                      /\ mbvf' = (sd * 70) \div 100
                      /\ mbex' = sd - (sd * 70) \div 100
                      /\ mbsw' = 0
                      /\ pc' = "menu"
    /\ UNCHANGED <<selected, visible, partsdc>>

(* One key press in the menu loop, with the menu action it maps to.        *)
Press(action) ==
    /\ pc = "menu"
    /\ \E key \in Keys :
          /\ device_handle_key(key, visible) = action
          /\ visible' = Shown(key, visible)

(* HIGHLIGHT_UP / HIGHLIGHT_DOWN: --selected or ++selected, then clamped.  *)
Highlight ==
    /\ \/ Press("HIGHLIGHT_UP") /\ selected' = MenuSelect(selected - 1)
       \/ Press("HIGHLIGHT_DOWN") /\ selected' = MenuSelect(selected + 1)
    /\ UNCHANGED <<pc, mbsd, mbvf, mbex, mbsw, partsdc>>

(* A key that maps to NO_ACTION: HOME, which flips the text display, or    *)
(* any key while the text is hidden.                                       *)
Ignored ==
    /\ Press("NO_ACTION")
    /\ UNCHANGED <<pc, mbsd, mbvf, mbex, mbsw, selected, partsdc>>

(* SELECT_BACK leaves the loop and the menu without repartitioning.        *)
Back ==
    /\ Press("SELECT_BACK")
    /\ pc' = "done"
    /\ UNCHANGED <<mbsd, mbvf, mbex, mbsw, selected, partsdc>>

SelectItemUnchecked ==
    /\ Press("SELECT_ITEM")
    /\ pc' = "confirm"
    /\ UNCHANGED <<mbsd, mbvf, mbex, mbsw, selected, partsdc>>

(* SELECT_ITEM: refused with "必须存在vfat分区" while vfat is 0, otherwise  *)
(* ask for confirmation.                                                   *)
SelectItem ==
    /\ Press("SELECT_ITEM")
    /\ pc' = IF mbvf = 0 THEN "menu" ELSE "confirm"
    /\ UNCHANGED <<mbsd, mbvf, mbex, mbsw, selected, partsdc>>

(* The bounds the code applies after each step: below 0 becomes 0, then   *)
(* above what the other two partitions leave becomes that.                 *)
Clamp(x, hi) == LET y == IF x < 0 THEN 0 ELSE x IN IF y > hi THEN hi ELSE y

ResizeSwapCap(sign) ==
    \/ /\ selected = 0
       /\ mbvf' = Clamp(mbvf + sign * 128, mbsd - mbex - mbsw)
       /\ UNCHANGED <<mbex, mbsw>>
    \/ /\ selected = 1
       /\ mbex' = Clamp(mbex + sign * 128, mbsd - mbvf - mbsw)
       /\ UNCHANGED <<mbvf, mbsw>>
    \/ /\ selected = 2
       /\ mbsw' = Clamp(mbsw + sign * 16, mbsd - mbvf)
       /\ UNCHANGED <<mbvf, mbex>>

(* SELECT_LEFT / SELECT_RIGHT on the highlighted partition.                *)
Resize(sign) ==
    \/ /\ selected = 0
       /\ mbvf' = Clamp(mbvf + sign * 128, mbsd - mbex - mbsw)
       /\ UNCHANGED <<mbex, mbsw>>
    \/ /\ selected = 1
       /\ mbex' = Clamp(mbex + sign * 128, mbsd - mbvf - mbsw)
       /\ UNCHANGED <<mbvf, mbsw>>
    \/ /\ selected = 2
       /\ mbsw' = Clamp(mbsw + sign * 16, mbsd - mbex - mbvf)
       /\ UNCHANGED <<mbvf, mbex>>

Adjust ==
    /\ \/ Press("SELECT_LEFT") /\ Resize(-1)
       \/ Press("SELECT_RIGHT") /\ Resize(1)
    /\ UNCHANGED <<pc, mbsd, selected, partsdc>>

(* "再次按下以确认": the next key, read raw, runs partsdc.sh -v -e -s with  *)
(* the three sizes if it is a confirm key; any other key cancels.          *)
Confirm ==
    /\ pc = "confirm"
    /\ \E key \in Keys :
          /\ partsdc' = IF key \in ConfirmKeys
                           THEN [vfat |-> mbvf, ext |-> mbex, swap |-> mbsw]
                           ELSE partsdc
          /\ visible' = Shown(key, visible)
    /\ pc' = "done"
    /\ UNCHANGED <<mbsd, mbvf, mbex, mbsw, selected>>

Next == Start \/ Highlight \/ Ignored \/ Back \/ SelectItem \/ Adjust \/ Confirm

Spec == Init /\ [][Next]_vars

-----------------------------------------------------------------------------
(* The layout on screen always fits the card: no partition is negative and *)
(* together they never take more than the card ("未分配" never goes below *)
(* 0), however the user walks the highlight and the sizes.                 *)
LayoutFits ==
    pc \in {"menu", "confirm"} =>
        /\ mbvf >= 0 /\ mbex >= 0 /\ mbsw >= 0
        /\ mbvf + mbex + mbsw <= mbsd

(* partsdc.sh is only ever run with a vfat partition and sizes that fit   *)
(* the card.                                                               *)
RepartitionFits ==
    partsdc # NoRun =>
        /\ partsdc.vfat > 0 /\ partsdc.ext >= 0 /\ partsdc.swap >= 0
        /\ partsdc.vfat + partsdc.ext + partsdc.swap <= mbsd

=============================================================================
