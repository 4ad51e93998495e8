------------------------------ MODULE InputMenu ------------------------------
(* The two input components: a menu with its window on the options, and a  *)
(* one-line textbox.  A rule of the whole library: an operation that       *)
(* changes what is to be seen says so, and render() draws what is due.     *)
EXTENDS Integers, Sequences, SequencesExt

CONSTANT NoKey          \* a cleared keystroke

Arrows == {"up", "down"}
Unset == -1

(* A menu without options: no choice, and a view range never set.          *)
EmptyMenu == [options |-> << >>, choice |-> Unset, top |-> Unset, made |-> FALSE,
              key |-> NoKey, description |-> ""]

clear_options(menu) ==
    IF menu.options = << >> THEN menu
    ELSE [menu EXCEPT !.options = << >>, !.choice = Unset, !.top = Unset]

add_option(menu, option) ==
    [menu EXCEPT !.options = Append(@, option),
                 !.choice = IF menu.options = << >> THEN 0 ELSE @,
                 !.top = IF menu.options = << >> THEN 0 ELSE @]

set_description(menu, text) == [menu EXCEPT !.description = text]

(* The upper limit is tested for the choice there was, not for the new one.*)
set_current_selection(menu, n) ==
    IF menu.options = << >> THEN [menu EXCEPT !.choice = Unset, !.top = Unset]
    ELSE [menu EXCEPT !.choice = IF n < 0 THEN 0
                                 ELSE IF @ >= Len(menu.options) THEN Len(menu.options) - 1
                                 ELSE n]

InRange(menu) == menu.choice \in 0..Len(menu.options) - 1

get_current_selection(menu, enabled) == IF enabled /\ InRange(menu) THEN menu.choice ELSE Unset

-----------------------------------------------------------------------------
(* render()                                                                *)

(* Fault: The view range is moved down a line late.                        *)
FaultViewTop(top, choice, lines) ==
    IF choice < top THEN choice
    ELSE IF choice - top <= lines THEN top
    ELSE choice - lines + 1

(* The first line to show, so that the choice is one of the lines shown.   *)
ViewTop(top, choice, lines) ==
    IF choice < top THEN choice
    ELSE IF choice - top < lines THEN top
    ELSE choice - lines + 1

(* What drawing changes of the menu itself.                                *)
Settled(menu, lines) ==
    IF lines <= 0 \/ menu.options = << >> THEN menu
    ELSE LET choice == IF menu.choice = Unset THEN 0
                       ELSE IF menu.choice >= Len(menu.options) THEN Len(menu.options) - 1
                       ELSE menu.choice
             top == IF menu.top = Unset THEN 0 ELSE menu.top
         IN  [menu EXCEPT !.choice = choice, !.top = ViewTop(top, choice, lines)]

(* The row of the scrollbar's position, if there is a scrollbar.           *)
ScrollbarRow(top, total, lines, focused) ==
    IF focused /\ total > lines THEN (top * (lines - 1)) \div (total - lines) ELSE Unset

(* A settled menu as it is drawn.                                          *)
Picture(menu, lines, focused) ==
    LET total == Len(menu.options)
        shown == IF lines <= 0 THEN {} ELSE menu.top..menu.top + lines - 1
    IN  [description |-> menu.description, focused |-> focused,
         rows |-> [line \in shown \intersect 0..total - 1 |->
                     [option |-> menu.options[line + 1],
                      highlighted |-> focused /\ line = menu.choice]],
         scrollbar |-> ScrollbarRow(menu.top, total, lines, focused)]

-----------------------------------------------------------------------------
(* The textbox: its buffer, and whether Enter has ended an input.          *)

EmptyBox == [text |-> << >>, entered |-> FALSE]

type_character(box, c, size) ==
    IF Len(box.text) < size THEN [box EXCEPT !.text = Append(@, c)] ELSE box

type_backspace(box) == IF box.text = << >> THEN box ELSE [box EXCEPT !.text = Front(@)]

BoxPicture(box, focused) == [text |-> box.text, focused |-> focused]

-----------------------------------------------------------------------------
(* The progress bar with a percentage, of which the label takes its part.  *)

PercentLabel == 7       \* the width of "%6.2f%%"
NoLimitLabel == 4       \* of "inf."

(* The columns to fill and to leave empty; a single empty one is not drawn.*)
BarPicture(bar, width) ==
    LET label == IF bar.max # 0 THEN PercentLabel ELSE NoLimitLabel
        columns == width - label - 2
        filled == IF bar.max = 0 \/ bar.value <= 0 THEN 0
                  ELSE IF bar.value > bar.max THEN columns
                  ELSE (bar.value * columns) \div bar.max
        empty == columns - filled
    IN  [filled |-> filled, empty |-> IF empty > 1 THEN empty ELSE 0, label |-> label]

=============================================================================
