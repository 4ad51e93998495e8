------------------------------- MODULE Console -------------------------------
(* The controller's user interface.  The input thread takes keys and gives *)
(* them to the component in focus, the GUI thread shows one screen at a    *)
(* time and waits for decisions, the render thread draws what is due, and  *)
(* any thread prints on the console.  A thread's state is the list of the  *)
(* statements it has still to run; a statement under a lock is one step,   *)
(* and what the code does without a lock takes a step for each access.     *)
EXTENDS GuiPad, InputMenu, FiniteSets

CONSTANTS
    Printers,             \* threads that print on the console
    Texts,                \* what they print
    Workloads,            \* see WorkloadOk
    Width, Height,        \* of the console
    Lines,                \* option lines of a list's menu
    BufferSize,           \* of the textbox
    BarWidth,             \* of a meter
    Threshold,            \* loglevel_threshold
    Nobody

Lists == {"flow_menu", "port_menu", "arp_menu", "cam_menu"}
Menus == Lists \union {"menu", "experimental_menu"}
Textbox == "experimental_textbox"
Inputs == <<"flow_menu", "port_menu", "arp_menu", "cam_menu", "menu",
            "experimental_menu", Textbox>>
InputSet == ToSet(Inputs)
Sequence(c) == CHOOSE n \in DOMAIN Inputs: Inputs[n] = c

Focus == INSTANCE GuiFocus

(* A workload: the option of the main menu that is highlighted at first,   *)
(* the keys that are typed, whether the switch connects, the flows it      *)
(* starts with, how often they change, the lengths that the other lists    *)
(* may have, what the meters may show, and how many texts are printed.     *)
WorkloadOk(w) ==
    /\ w.from \in 0..6
    /\ w.connects \in BOOLEAN
    /\ \A n \in ToSet(w.lengths): n \in Nat
    /\ {w.changes, w.prints} \subseteq Nat

VARIABLES
    workload,
    todo,                 \* per thread: the statements before it
    enabled, has_focus,   \* per input component
    current_focus_component, current_focus_value,
    menus, box,
    needs_redraw,         \* per input component
    pictures,             \* per input component: what was drawn last
    bar, bar_due, bar_picture,  \* a meter of the summary, its needs_redraw, what was drawn
    visible,              \* the components with active_state.visible
    ready,                \* the switch is ready and the main loop runs
    screen,               \* current_screen
    answer, typed,        \* what wait_for_decision/key() and wait_for_input() returned
    listing,              \* the flows that the flow screen lists
    measured,             \* the screens whose measurement_timer runs
    criteria_pending, automatic,
    keys, flows, changes, \* inputs: the keys to come, the switch's flows
    overlapped,           \* history: two changes of focus have been under way at once
    console, committed, printed, outputs, log_file

focus_vars == <<enabled, has_focus, current_focus_component, current_focus_value, overlapped>>
bar_vars == <<bar, bar_due, bar_picture>>
drawing_vars == <<menus, box, needs_redraw, pictures, bar_vars>>
gui_vars == <<visible, ready, screen, answer, typed, listing, measured, criteria_pending,
              automatic>>
input_vars == <<keys, flows, changes>>
console_vars == <<console, committed, printed, outputs, log_file>>
vars == <<workload, todo, focus_vars, drawing_vars, gui_vars, input_vars, console_vars>>

Threads == {"gui", "input"} \union Printers

-----------------------------------------------------------------------------
(* Statements.                                                             *)

On(op, c) == [op |-> op, c |-> c]
SetEnable(c, status) == [op |-> "set_enable", c |-> c, status |-> status]
Show(components, status) == [op |-> "show", components |-> components, status |-> status]
AddOption(c, option) == [op |-> "add_option", c |-> c, option |-> option]
Do(op) == [op |-> op]

Runs(t, op) == todo[t] # << >> /\ todo[t][1].op = op
Statement(t) == todo[t][1]

(* The thread goes on with these statements, and then with the rest.       *)
Then(t, statements) == todo' = [todo EXCEPT ![t] = statements \o Tail(@)]
Continue(t) == Then(t, << >>)
ThenIf(t, condition, statements) == Then(t, IF condition THEN statements ELSE << >>)

Redraw(components) == needs_redraw' = [c \in InputSet |-> c \in components \/ needs_redraw[c]]
RedrawIf(c, changed) == Redraw(IF changed THEN {c} ELSE {})

-----------------------------------------------------------------------------
(* Focus.  The controller decides under its lock; the component that loses *)
(* the focus and the one that gains it are told afterwards.                *)

SetEnabled(t) ==
    /\ Runs(t, "set_enable")
    /\ LET s == Statement(t)
       IN  /\ enabled' = [enabled EXCEPT ![s.c] = s.status]
           /\ Then(t, <<[op |-> "arbitrate", for |-> IF s.status THEN "enable" ELSE "disable",
                         c |-> s.c]>>)
    /\ UNCHANGED <<workload, has_focus, current_focus_component, current_focus_value,
                   overlapped, drawing_vars, gui_vars, input_vars, console_vars>>

Holds(c) == current_focus_component = c /\ current_focus_value = Sequence(c)

(* Does this call ask for another component than the one in focus?         *)
Repicks(s) ==
    \/ s.for \in {"disable", "relinquish"} /\ Holds(s.c)
    \/ s.for = "focus"

(* set_focus() has nothing to do for a component that holds the focus, and *)
(* otherwise puts it in the place of the one arbitration found.            *)
Wanted(s, found) == IF s.for = "focus" /\ enabled[s.c] THEN s.c ELSE found

ChangesFocus(t) == \E n \in DOMAIN todo[t]: todo[t][n].op \in {"blur", "assign", "on_focus"}

Arbitrate(t) ==
    /\ Runs(t, "arbitrate")
    /\ LET s == Statement(t)
           v == Focus!arbitrate_focus(enabled, current_focus_component, current_focus_value,
                                      Repicks(s))
           next == Wanted(s, v.focus)
       IN  IF s.for = "focus" /\ Holds(s.c) /\ enabled[s.c]
           THEN /\ Continue(t)
                /\ UNCHANGED <<current_focus_component, current_focus_value, overlapped>>
           ELSE /\ current_focus_component' = v.current
                /\ current_focus_value' = v.value
                /\ Then(t, (IF v.blur = Nobody THEN << >> ELSE <<On("blur", v.blur)>>)
                           \o (IF next = Nobody THEN << >>
                               ELSE <<On("assign", next), On("on_focus", next)>>))
                /\ overlapped' = (overlapped \/ \E u \in Threads \ {t}: ChangesFocus(u))
    /\ UNCHANGED <<workload, enabled, has_focus, drawing_vars, gui_vars, input_vars,
                   console_vars>>

(* on_blur() and on_focus() of either input component.                     *)
Told(t, op, focused) ==
    /\ Runs(t, op)
    /\ LET c == Statement(t).c
       IN  /\ has_focus' = [has_focus EXCEPT ![c] = focused]
           /\ Redraw({c})
    /\ Continue(t)
    /\ UNCHANGED <<workload, enabled, current_focus_component, current_focus_value, overlapped,
                   menus, box, pictures, bar_vars, gui_vars, input_vars, console_vars>>

OnBlur(t) == Told(t, "blur", FALSE)
OnFocus(t) == Told(t, "on_focus", TRUE)

AssignFocus(t) ==
    /\ Runs(t, "assign")
    /\ current_focus_component' = Statement(t).c
    /\ current_focus_value' = Sequence(Statement(t).c)
    /\ Continue(t)
    /\ UNCHANGED <<workload, enabled, has_focus, overlapped, drawing_vars, gui_vars,
                   input_vars, console_vars>>

-----------------------------------------------------------------------------
(* The input thread.                                                       *)

(* getch(), and get_focus_component() before the key is delivered.         *)
TakeKey ==
    /\ todo["input"] = << >> /\ keys # << >>
    /\ keys' = Tail(keys)
    /\ todo' = [todo EXCEPT !["input"] =
                    <<[op |-> "arbitrate", for |-> "get", c |-> Nobody],
                      [op |-> "deliver", key |-> keys[1]]>>]
    /\ UNCHANGED <<workload, focus_vars, drawing_vars, gui_vars, flows, changes, console_vars>>

Relinquish(c) == [op |-> "arbitrate", for |-> "relinquish", c |-> c]
Press(c, key) == [op |-> "press", c |-> c, key |-> key]

(* input_menu::process_keypress().  A tab moves the focus and then counts  *)
(* as a key like any other.                                                *)
MenuKey(c, key) ==
    LET moved == set_current_selection(menus[c], menus[c].choice + (IF key = "up" THEN -1 ELSE 1))
    IN  IF key \in Arrows
        THEN /\ Continue("input")
             /\ menus' = [menus EXCEPT ![c] = moved]
             /\ RedrawIf(c, moved.choice # menus[c].choice)
             /\ UNCHANGED box
        ELSE /\ Then("input", IF key = "tab" THEN <<Relinquish(c), Press(c, key)>>
                              ELSE IF menus[c].options = << >> THEN << >>
                              ELSE <<Press(c, key)>>)
             /\ UNCHANGED <<menus, box, needs_redraw>>

(* input_textbox::process_keypress().  The input thread draws the textbox. *)
BoxKey(key) ==
    LET after == IF key = "backspace" THEN type_backspace(box)
                 ELSE type_character(box, key, BufferSize)
    IN  /\ UNCHANGED menus
        /\ IF key = "tab"
           THEN Then("input", <<Relinquish(Textbox)>>) /\ UNCHANGED <<box, needs_redraw>>
           ELSE IF key = "enter"
           THEN Then("input", <<SetEnable(Textbox, FALSE), Do("enter")>>)
                /\ UNCHANGED <<box, needs_redraw>>
           ELSE IF key \in Arrows \union {"delete"} \/ after = box
           THEN Continue("input") /\ UNCHANGED <<box, needs_redraw>>
           ELSE Then("input", <<On("draw", Textbox)>>) /\ box' = after /\ Redraw({Textbox})

Deliver ==
    /\ Runs("input", "deliver")
    /\ LET key == Statement("input").key
           c == current_focus_component
       IN  IF c = Nobody THEN Continue("input") /\ UNCHANGED <<menus, box, needs_redraw>>
           ELSE IF c = Textbox THEN BoxKey(key)
           ELSE MenuKey(c, key)
    /\ UNCHANGED <<workload, focus_vars, pictures, bar_vars, gui_vars, input_vars,
                   console_vars>>

(* A key is kept for whoever waits on the menu, unless one is kept already.*)
PressKey ==
    /\ Runs("input", "press")
    /\ LET s == Statement("input")
       IN  /\ ThenIf("input", ~menus[s.c].made,
                     <<[op |-> "write_key", c |-> s.c, key |-> s.key]>>)
           /\ menus' = [menus EXCEPT ![s.c].made = TRUE]
    /\ UNCHANGED <<workload, focus_vars, box, needs_redraw, pictures, bar_vars, gui_vars,
                   input_vars, console_vars>>

WriteKey ==
    /\ Runs("input", "write_key")
    /\ menus' = [menus EXCEPT ![Statement("input").c].key = Statement("input").key]
    /\ Continue("input")
    /\ UNCHANGED <<workload, focus_vars, box, needs_redraw, pictures, bar_vars, gui_vars,
                   input_vars, console_vars>>

EnterText ==
    /\ Runs("input", "enter")
    /\ box' = [box EXCEPT !.entered = TRUE]
    /\ Continue("input")
    /\ UNCHANGED <<workload, focus_vars, menus, needs_redraw, pictures, bar_vars, gui_vars,
                   input_vars, console_vars>>

-----------------------------------------------------------------------------
(* The GUI thread: waiting for a key, a decision or a line.                *)

Wait(c, for) == [op |-> "wait", c |-> c, for |-> for]
Test(c, for, last) == [op |-> "test", c |-> c, for |-> for, last |-> last]

NoAnswer == [choice |-> Unset, key |-> NoKey]
NoLine == [ok |-> FALSE, text |-> << >>]

Waiting(t) ==
    /\ Runs(t, "wait")
    /\ LET s == Statement(t)
       IN  Then(t, (IF enabled[s.c] THEN << >> ELSE <<SetEnable(s.c, TRUE)>>)
                   \o <<Test(s.c, s.for, FALSE)>>)
    /\ UNCHANGED <<workload, focus_vars, drawing_vars, gui_vars, input_vars, console_vars>>

Answered(c, for) == menus[c].made /\ (for = "decision" => menus[c].key = "enter")

(* The test before the wait and the one after it.  Only wait_for_decision()*)
(* forgets an old key in between.                                          *)
TestAnswer(t) ==
    /\ Runs(t, "test")
    /\ LET s == Statement(t)
           forget == IF s.for = "decision" THEN <<On("reset_made", s.c), On("reset_key", s.c)>>
                     ELSE << >>
       IN  IF Answered(s.c, s.for)
           THEN /\ Then(t, <<SetEnable(s.c, FALSE), On("reset_made", s.c), On("take", s.c)>>)
                /\ UNCHANGED answer
           ELSE /\ ThenIf(t, ~s.last, forget \o <<Test(s.c, s.for, TRUE)>>)
                /\ answer' = NoAnswer
    /\ UNCHANGED <<workload, focus_vars, drawing_vars, visible, ready, screen, typed, listing,
                   measured, criteria_pending, automatic, input_vars, console_vars>>

ResetMade(t) ==
    /\ Runs(t, "reset_made")
    /\ menus' = [menus EXCEPT ![Statement(t).c].made = FALSE]
    /\ Continue(t)
    /\ UNCHANGED <<workload, focus_vars, box, needs_redraw, pictures, bar_vars, gui_vars,
                   input_vars, console_vars>>

ResetKey(t) ==
    /\ Runs(t, "reset_key")
    /\ menus' = [menus EXCEPT ![Statement(t).c].key = NoKey]
    /\ Continue(t)
    /\ UNCHANGED <<workload, focus_vars, box, needs_redraw, pictures, bar_vars, gui_vars,
                   input_vars, console_vars>>

TakeAnswer(t) ==
    /\ Runs(t, "take")
    /\ LET menu == menus[Statement(t).c]
       IN  answer' = [choice |-> menu.choice, key |-> menu.key]
    /\ Continue(t)
    /\ UNCHANGED <<workload, focus_vars, drawing_vars, visible, ready, screen, typed, listing,
                   measured, criteria_pending, automatic, input_vars, console_vars>>

(* wait_for_input(): a line that was entered before is taken and stays in  *)
(* the buffer; one that is entered during the wait is taken out of it.     *)
WaitForInput ==
    /\ Runs("gui", "wait_for_input")
    /\ IF box.entered
       THEN /\ Then("gui", <<SetEnable(Textbox, FALSE), Do("take_line")>>)
            /\ UNCHANGED <<box, typed>>
       ELSE /\ Then("gui", <<Do("end_input")>>)
            /\ typed' = NoLine
            /\ UNCHANGED box
    /\ UNCHANGED <<workload, focus_vars, menus, needs_redraw, pictures, bar_vars, visible,
                   ready, screen, answer, listing, measured, criteria_pending, automatic,
                   input_vars, console_vars>>

TakeLine ==
    /\ Runs("gui", "take_line")
    /\ box' = [box EXCEPT !.entered = FALSE]
    /\ typed' = [ok |-> TRUE, text |-> box.text]
    /\ Continue("gui")
    /\ UNCHANGED <<workload, focus_vars, menus, needs_redraw, pictures, bar_vars, visible,
                   ready, screen, answer, listing, measured, criteria_pending, automatic,
                   input_vars, console_vars>>

WokenByLine ==
    /\ Runs("gui", "end_input") /\ box.entered /\ ~typed.ok
    /\ typed' = [ok |-> TRUE, text |-> box.text]
    /\ box' = [box EXCEPT !.text = << >>]
    /\ UNCHANGED <<workload, todo, focus_vars, menus, needs_redraw, pictures, bar_vars,
                   visible, ready, screen, answer, listing, measured, criteria_pending,
                   automatic, input_vars, console_vars>>

(* The test after the wait, whatever ended it.                             *)
EndInput ==
    /\ Runs("gui", "end_input")
    /\ box' = [box EXCEPT !.entered = FALSE]
    /\ ThenIf("gui", box.entered, <<SetEnable(Textbox, FALSE)>>)
    /\ UNCHANGED <<workload, focus_vars, menus, needs_redraw, pictures, bar_vars, gui_vars,
                   input_vars, console_vars>>

-----------------------------------------------------------------------------
(* The GUI thread: operations on a component.                              *)

(* An operation of the thread that changes one menu.                       *)
ChangeMenu(t, op, changed, redraw) ==
    /\ Runs(t, op)
    /\ menus' = [menus EXCEPT ![Statement(t).c] = changed]
    /\ RedrawIf(Statement(t).c, redraw)
    /\ Continue(t)
    /\ UNCHANGED <<workload, focus_vars, box, pictures, bar_vars, gui_vars, input_vars,
                   console_vars>>

ClearOptions ==
    Runs("gui", "clear_options") /\
    LET menu == menus[Statement("gui").c]
    IN  ChangeMenu("gui", "clear_options", clear_options(menu), menu.options # << >>)

AddAnOption ==
    Runs("gui", "add_option") /\
    LET s == Statement("gui")
    IN  ChangeMenu("gui", "add_option", add_option(menus[s.c], s.option), TRUE)

Select ==
    Runs("gui", "select") /\
    LET menu == menus[Statement("gui").c]
        selected == set_current_selection(menu, Statement("gui").to)
    IN  ChangeMenu("gui", "select", selected, selected.choice # menu.choice)

(* The description says whether rules are added automatically.             *)
DescribeMenu ==
    Runs("gui", "describe") /\
    LET menu == menus["experimental_menu"]
        text == IF automatic THEN "ON" ELSE "OFF"
    IN  ChangeMenu("gui", "describe", set_description(menu, text), menu.description # text)

(* set_visible() and the commit that makes it take effect.                 *)
ShowOrHide ==
    /\ Runs("gui", "show")
    /\ LET s == Statement("gui")
       IN  visible' = IF s.status THEN visible \union s.components ELSE visible \ s.components
    /\ Continue("gui")
    /\ UNCHANGED <<workload, focus_vars, drawing_vars, ready, screen, answer, typed, listing,
                   measured, criteria_pending, automatic, input_vars, console_vars>>

-----------------------------------------------------------------------------
(* The GUI thread: the screens.                                            *)

Background(c) == c \o "_background"
SummaryParts == {"summary", "cpu_utilization", "l2_utilization", "acl_utilization"}
ExperimentalParts == {"experimental_background", "experimental_rule_instructions"}

ListOf(n) == CASE n = 1 -> "flow_menu" [] n = 2 -> "port_menu" [] n = 3 -> "arp_menu"
               [] n = 4 -> "cam_menu"

(* The components that belong to one screen.                               *)
PartsOf(n) ==
    IF n = 0 THEN SummaryParts
    ELSE IF n \in 1..4 THEN {Background(ListOf(n)), ListOf(n)}
    ELSE IF n = 6 THEN ExperimentalParts \union {"experimental_menu", Textbox}
    ELSE {}

Reveal(c) == <<Show({Background(c)}, TRUE), SetEnable(c, TRUE), Show({c}, TRUE)>>
Rebuild(c, options) == [op |-> "rebuild", c |-> c, options |-> options]

(* hide_*_screen()                                                         *)
Hide(n) ==
    IF n = 0 THEN <<Show(SummaryParts, FALSE)>>
    ELSE IF n \in 1..4
    THEN <<Show({Background(ListOf(n))}, FALSE), SetEnable(ListOf(n), FALSE),
           Show({ListOf(n)}, FALSE)>>
    ELSE IF n = 6
    THEN <<Show({"experimental_background"}, FALSE), SetEnable("experimental_menu", FALSE),
           Show({"experimental_menu", "experimental_rule_instructions"}, FALSE),
           SetEnable(Textbox, FALSE), Show({Textbox}, FALSE)>>
    ELSE << >>

(* do_experimental_screen()                                                *)
ExperimentalScreen ==
    <<On("describe", "experimental_menu"), Show({"experimental_background"}, TRUE),
      SetEnable("experimental_menu", TRUE), Show({"experimental_menu"}, TRUE),
      Wait("experimental_menu", "decision"), Do("set_automatic"),
      On("describe", "experimental_menu"),
      Show({"experimental_rule_instructions"}, TRUE), SetEnable(Textbox, TRUE),
      Show({Textbox}, TRUE), Do("wait_for_input"), Do("use_line")>>

DoScreen(n) ==
    IF n = 0 THEN <<Do("measure"), Show(SummaryParts, TRUE)>>
    ELSE IF n = 1 THEN <<Do("list_flows")>>
    ELSE IF n \in 2..4 THEN <<Do(<<"list_flows", "list_ports", "list_arp", "list_cam">>[n])>>
    ELSE IF n = 6 THEN ExperimentalScreen
    ELSE << >>

(* The summary is refreshed until the switch is ready.                     *)
Standby ==
    /\ ~ready /\ todo["gui"] = << >>
    /\ todo' = [todo EXCEPT !["gui"] = <<Show({"summary"}, TRUE)>>]
    /\ UNCHANGED <<workload, focus_vars, drawing_vars, gui_vars, input_vars, console_vars>>

Ready ==
    /\ ~ready /\ todo["gui"] = << >> /\ "summary" \in visible /\ workload.connects
    /\ ready' = TRUE
    /\ todo' = [todo EXCEPT !["gui"] =
                    <<SetEnable("menu", TRUE), Show({"menu"}, TRUE),
                      [op |-> "arbitrate", for |-> "focus", c |-> "menu"]>>]
    /\ UNCHANGED <<workload, focus_vars, drawing_vars, visible, screen, answer, typed, listing,
                   measured, criteria_pending, automatic, input_vars, console_vars>>

(* One turn of the main loop of gui_entrypoint().                          *)
Turn ==
    /\ ready /\ todo["gui"] = << >>
    /\ todo' = [todo EXCEPT !["gui"] =
                    <<SetEnable("menu", TRUE), Show({"menu"}, TRUE), Wait("menu", "decision"),
                      Do("choose")>>]
    /\ UNCHANGED <<workload, focus_vars, drawing_vars, gui_vars, input_vars, console_vars>>

Choose ==
    /\ Runs("gui", "choose")
    /\ screen' = IF answer = NoAnswer THEN screen ELSE answer.choice
    /\ Then("gui", (IF answer = NoAnswer THEN << >> ELSE Hide(screen)) \o DoScreen(screen'))
    /\ UNCHANGED <<workload, focus_vars, drawing_vars, visible, ready, answer, typed, listing,
                   measured, criteria_pending, automatic, input_vars, console_vars>>

(* do_flow_screen().  A measurement that is less than two seconds old ends *)
(* the function; what the menu returns is an index of the list it gave.    *)
NoFlows == "no flows active."

ListFlows ==
    /\ Runs("gui", "list_flows")
    /\ \/ /\ 1 \in measured
          /\ Continue("gui")
          /\ UNCHANGED <<listing, measured>>
       \/ /\ measured' = measured \union {1}
          /\ listing' = flows
          /\ Then("gui", (IF flows = << >>
                          THEN <<On("clear_options", "flow_menu"), AddOption("flow_menu", NoFlows),
                                 Wait("flow_menu", "key")>>
                          ELSE <<Rebuild("flow_menu", flows), Wait("flow_menu", "key"),
                                 Do("delete_flow")>>)
                         \o Reveal("flow_menu"))
    /\ UNCHANGED <<workload, focus_vars, drawing_vars, visible, ready, screen, answer, typed,
                   criteria_pending, automatic, input_vars, console_vars>>

(* The old selection is read before the options are cleared.               *)
RebuildList ==
    /\ Runs("gui", "rebuild")
    /\ LET s == Statement("gui")
           old == get_current_selection(menus[s.c], enabled[s.c])
       IN  Then("gui", <<On("clear_options", s.c)>>
                       \o [n \in DOMAIN s.options |-> AddOption(s.c, s.options[n])]
                       \o <<[op |-> "select", c |-> s.c, to |-> IF old < 0 THEN 0 ELSE old]>>)
    /\ UNCHANGED <<workload, focus_vars, drawing_vars, gui_vars, input_vars, console_vars>>

Without(list, gone) == SelectSeq(list, LAMBDA flow: flow # gone)

(* An index beyond the list reads beyond the vector.                       *)
DeleteFlow ==
    /\ Runs("gui", "delete_flow")
    /\ LET picked == answer.choice + 1
       IN  IF answer = NoAnswer \/ answer.key # "delete" THEN UNCHANGED flows
           ELSE IF picked \in DOMAIN listing THEN flows' = Without(flows, listing[picked])
           ELSE \E gone \in ToSet(flows) \union {NoFlows}: flows' = Without(flows, gone)
    /\ Continue("gui")
    /\ UNCHANGED <<workload, focus_vars, drawing_vars, gui_vars, keys, changes, console_vars>>

(* The other lists show what another service holds.                        *)
ListAgain(c) ==
    \E n \in ToSet(workload.lengths):
        Then("gui", <<Rebuild(c, [i \in 1..n |-> ToString(i)])>> \o Reveal(c))

(* do_port_screen(): at most every two seconds.                            *)
ListPorts ==
    /\ Runs("gui", "list_ports")
    /\ \/ 2 \in measured /\ Continue("gui") /\ UNCHANGED measured
       \/ ListAgain("port_menu") /\ measured' = measured \union {2}
    /\ UNCHANGED <<workload, focus_vars, drawing_vars, visible, ready, screen, answer, typed,
                   listing, criteria_pending, automatic, input_vars, console_vars>>

(* do_arp_screen()                                                         *)
ListArp ==
    /\ Runs("gui", "list_arp")
    /\ ListAgain("arp_menu")
    /\ UNCHANGED <<workload, focus_vars, drawing_vars, gui_vars, input_vars, console_vars>>

(* do_cam_screen()                                                         *)
ListCam ==
    /\ Runs("gui", "list_cam")
    /\ ListAgain("cam_menu")
    /\ UNCHANGED <<workload, focus_vars, drawing_vars, gui_vars, input_vars, console_vars>>

(* do_summary_screen() of a switch that is ready, for one of its meters.   *)
Measure ==
    /\ Runs("gui", "measure")
    /\ \E value \in workload.loads:
           /\ bar' = [bar EXCEPT !.value = value]
           /\ bar_due' = (bar_due \/ value # bar.value)
    /\ Continue("gui")
    /\ UNCHANGED <<workload, focus_vars, menus, box, needs_redraw, pictures, bar_picture,
                   gui_vars, input_vars, console_vars>>

SetAutomatic ==
    /\ Runs("gui", "set_automatic")
    /\ automatic' = IF answer.choice = 0 THEN TRUE
                    ELSE IF answer.choice = 1 THEN FALSE ELSE automatic
    /\ Continue("gui")
    /\ UNCHANGED <<workload, focus_vars, drawing_vars, visible, ready, screen, answer, typed,
                   listing, measured, criteria_pending, input_vars, console_vars>>

(* A line is a criteria, and then the actions of a flow; either may be     *)
(* refused.                                                                *)
UseLine ==
    /\ Runs("gui", "use_line")
    /\ \E accepted \in BOOLEAN:
           /\ ThenIf("gui", typed.ok /\ criteria_pending /\ accepted,
                     <<[op |-> "arbitrate", for |-> "focus", c |-> Textbox]>>)
           /\ criteria_pending' = IF ~typed.ok THEN criteria_pending
                                  ELSE ~criteria_pending \/ ~accepted
    /\ UNCHANGED <<workload, focus_vars, drawing_vars, visible, ready, screen, answer, typed,
                   listing, measured, automatic, input_vars, console_vars>>

-----------------------------------------------------------------------------
(* The render thread, and the input thread for the textbox.  The order in  *)
(* which a pass draws the components is left open.                         *)

LinesOf(c) == IF c \in Lists THEN Lines ELSE Len(menus[c].options)

Drawn(c) ==
    IF ~needs_redraw[c] THEN UNCHANGED <<menus, needs_redraw, pictures>>
    ELSE /\ needs_redraw' = [needs_redraw EXCEPT ![c] = FALSE]
         /\ IF c = Textbox
            THEN /\ pictures' = [pictures EXCEPT ![c] = BoxPicture(box, has_focus[c])]
                 /\ UNCHANGED menus
            ELSE LET menu == Settled(menus[c], LinesOf(c))
                 IN  /\ menus' = [menus EXCEPT ![c] = menu]
                     /\ pictures' = [pictures EXCEPT ![c] = Picture(menu, LinesOf(c), has_focus[c])]

Render(c) ==
    /\ needs_redraw[c]
    /\ Drawn(c)
    /\ UNCHANGED <<workload, todo, focus_vars, box, bar_vars, gui_vars, input_vars,
                   console_vars>>

RenderBar ==
    /\ bar_due /\ bar_due' = FALSE
    /\ bar_picture' = BarPicture(bar, BarWidth)
    /\ UNCHANGED <<workload, todo, focus_vars, menus, box, needs_redraw, pictures, bar,
                   gui_vars, input_vars, console_vars>>

DrawBox ==
    /\ Runs("input", "draw")
    /\ Drawn(Textbox)
    /\ Continue("input")
    /\ UNCHANGED <<workload, focus_vars, box, bar_vars, gui_vars, input_vars, console_vars>>

-----------------------------------------------------------------------------
(* The rest of the program: flows come and go, and threads print.          *)

ChangeFlows ==
    /\ changes < workload.changes
    /\ changes' = changes + 1
    /\ \/ flows # << >> /\ flows' = Tail(flows)
       \/ flows' = Append(flows, "new" \o ToString(changes))
    /\ UNCHANGED <<workload, todo, focus_vars, drawing_vars, gui_vars, keys, console_vars>>

(* output::printf() prints and then logs; output::log() with a level logs  *)
(* and then prints what reaches the threshold.                             *)
Levels == <<"VERBOSE", "INFO", "WARNING", "CRITICAL", "ERROR", "BUG">>
Shown(level) == \E n, m \in DOMAIN Levels:
                    Levels[n] = Threshold /\ Levels[m] = level /\ n <= m

ToConsole(text) == <<[op |-> "print", text |-> text], Do("commit")>>
ToLog(text) == [op |-> "log", text |-> text]

(* log() ends a line that does not end itself.                             *)
AsLine(text) == IF text # << >> /\ Last(text) = "\n" THEN text ELSE Append(text, "\n")

Output(p) ==
    /\ todo[p] = << >> /\ outputs < workload.prints
    /\ outputs' = outputs + 1
    /\ \E text \in Texts: \E call \in {"printf", "VERBOSE", Threshold}:
           todo' = [todo EXCEPT ![p] =
                        IF call = "printf" THEN Append(ToConsole(text), ToLog(AsLine(text)))
                        ELSE <<ToLog(text)>> \o (IF Shown(call) THEN ToConsole(text) ELSE << >>)]
    /\ UNCHANGED <<workload, focus_vars, drawing_vars, gui_vars, input_vars, console, committed,
                   printed, log_file>>

PrintOn(p) ==
    /\ Runs(p, "print")
    /\ LET text == Statement(p).text
       IN  /\ console' = multiline_print(console, text)
           /\ printed' = Append(printed, text)
    /\ Continue(p)
    /\ UNCHANGED <<workload, focus_vars, drawing_vars, gui_vars, input_vars, committed, outputs,
                   log_file>>

CommitOutput(p) ==
    /\ Runs(p, "commit")
    /\ committed' = console.cells
    /\ Continue(p)
    /\ UNCHANGED <<workload, focus_vars, drawing_vars, gui_vars, input_vars, console, printed,
                   outputs, log_file>>

WriteLog(p) ==
    /\ Runs(p, "log")
    /\ log_file' = Append(log_file, Statement(p).text)
    /\ Continue(p)
    /\ UNCHANGED <<workload, focus_vars, drawing_vars, gui_vars, input_vars, console, committed,
                   printed, outputs>>

-----------------------------------------------------------------------------

Screens == <<"summary stats", "flow table", "switch ports", "arp table", "cam table",
             "switch control", "experimental">>

Filled(options) == FoldLeft(add_option, EmptyMenu, options)

(* What ironstack_gui::init() leaves, drawn once.                          *)
Init ==
    /\ workload \in Workloads
    /\ todo = [t \in Threads |-> << >>]
    /\ enabled = [c \in InputSet |-> c = "menu"]
    /\ has_focus = [c \in InputSet |-> c = "menu"]
    /\ current_focus_component = "menu" /\ current_focus_value = Sequence("menu")
    /\ overlapped = FALSE
    /\ menus = [c \in Menus |->
                  IF c = "menu" THEN set_current_selection(Filled(Screens), workload.from)
                  ELSE IF c = "experimental_menu" THEN Filled(<<"enable", "disable">>)
                  ELSE EmptyMenu]
    /\ box = EmptyBox
    /\ needs_redraw = [c \in InputSet |-> FALSE]
    /\ pictures = [c \in InputSet |-> IF c = Textbox THEN BoxPicture(EmptyBox, FALSE)
                                      ELSE Picture(menus[c], LinesOf(c), c = "menu")]
    /\ bar = [value |-> 0, max |-> 100]
    /\ bar_due = FALSE /\ bar_picture = BarPicture(bar, BarWidth)
    /\ visible = {}
    /\ ready = FALSE /\ screen = 0
    /\ answer = NoAnswer /\ typed = NoLine
    /\ listing = << >> /\ measured = {}
    /\ criteria_pending = TRUE /\ automatic = TRUE
    /\ keys = workload.keys /\ flows = workload.flows /\ changes = 0
    /\ console = Pad(Width, Height) /\ committed = console.cells /\ printed = << >>
    /\ outputs = 0 /\ log_file = << >>

Change(t) == SetEnabled(t) \/ Arbitrate(t) \/ OnBlur(t) \/ OnFocus(t) \/ AssignFocus(t)

Input == TakeKey \/ Deliver \/ PressKey \/ WriteKey \/ EnterText \/ DrawBox

Answering(t) == Waiting(t) \/ TestAnswer(t) \/ ResetMade(t) \/ ResetKey(t) \/ TakeAnswer(t)

Lining == WaitForInput \/ TakeLine \/ WokenByLine \/ EndInput

Filling == ClearOptions \/ AddAnOption \/ Select \/ DescribeMenu \/ ShowOrHide

Showing ==
    \/ Standby \/ Ready \/ Turn \/ Choose \/ Measure
    \/ ListFlows \/ RebuildList \/ DeleteFlow \/ ListPorts \/ ListArp \/ ListCam
    \/ SetAutomatic \/ UseLine

Next ==
    \/ \E t \in {"gui", "input"}: Change(t)
    \/ Input \/ Answering("gui") \/ Lining \/ Filling \/ Showing
    \/ RenderBar \/ \E c \in InputSet: Render(c)
    \/ ChangeFlows
    \/ \E p \in Printers: Output(p) \/ PrintOn(p) \/ CommitOutput(p) \/ WriteLog(p)

Spec == Init /\ [][Next]_vars

-----------------------------------------------------------------------------
(* Properties.                                                             *)

(* What is drawn of a menu is what the menu is, unless it is due to be     *)
(* drawn (no change of either thread is lost between needs_redraw and      *)
(* render()).  A menu in focus that shows options highlights one of them,  *)
(* and its scrollbar is at the bottom just when the last option is shown,  *)
(* however the list was rebuilt in the meantime (input_menu.cpp).  A meter *)
(* fits its width with its label and is full just at its maximum           *)
(* (progress_bar.cpp).                                                     *)
HighlightShown ==
    /\ \A c \in Menus:
        LET picture == pictures[c]
            lines == Cardinality(DOMAIN picture.rows)
        IN  /\ needs_redraw[c] \/ picture = Picture(menus[c], LinesOf(c), has_focus[c])
            /\ picture.focused /\ lines > 0 =>
                   Cardinality({n \in DOMAIN picture.rows: picture.rows[n].highlighted}) = 1
            /\ picture.scrollbar # Unset /\ ~needs_redraw[c] =>
                   (picture.scrollbar = lines - 1
                      <=> Len(menus[c].options) - 1 \in DOMAIN picture.rows)
    /\ LET taken == bar_picture.filled + bar_picture.label + 2
       IN  /\ taken + bar_picture.empty <= BarWidth
           /\ ~bar_due => (taken = BarWidth <=> bar.value >= bar.max)

Quiet == \A t \in Threads: \A n \in DOMAIN todo[t]:
             todo[t][n].op \notin {"set_enable", "arbitrate", "blur", "assign", "on_focus"}

(* Unless two changes of focus were under way at once, keys go to a        *)
(* component that is enabled, if there is one, and it alone is told that   *)
(* it has the focus (arbitrate_focus_unsafe and its callers).              *)
FocusIsExclusive ==
    Quiet /\ ~overlapped =>
        /\ {c \in InputSet: has_focus[c]} = {current_focus_component} \ {Nobody}
        /\ IF \E c \in InputSet: enabled[c]
           THEN current_focus_component # Nobody /\ enabled[current_focus_component]
           ELSE current_focus_component = Nobody

(* The console shows the end of what all threads printed on it, in the     *)
(* order they printed, and when no thread is between its print and its     *)
(* commit_output() that is also what the controller draws.  Then the log   *)
(* has an entry for every call of output::printf() and output::log().      *)
ConsoleShowsTail ==
    /\ console.cells = Tail_of(FlattenSeq(printed), Width, Height)
    /\ (\A p \in Printers: todo[p] = << >>) =>
           committed = console.cells /\ Len(log_file) = outputs

=============================================================================
