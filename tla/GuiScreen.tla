------------------------------ MODULE GuiScreen ------------------------------
(***************************************************************************)
(* gui_component and the render thread of gui_controller.  A component is  *)
(* changed in its pending half and committed to its active half: the       *)
(* attributes and the output separately, by any thread.  The render thread *)
(* takes the registered components in the order of their depth, and copies *)
(* what each has committed, aligned and clipped, onto the screen.  Colours *)
(* are left out; needs_redraw is for the classes of module Console.        *)
(***************************************************************************)
EXTENDS Integers, Sequences, SequencesExt, FiniteSets, GuiPad

CONSTANTS
    Panes,          \* the components, in the order of their construction
    ScreenSize,     \* <<columns, lines>> of the terminal
    FirstSize,      \* the dimensions the components are given at first
    Prints,         \* what threads print: [at |-> a position, or << >>, text |-> text]
    Programs,       \* what the program may do: records [edits |-> its changes, each a
                    \* [to |-> field, value |-> v], files |-> what load() may read, line
                    \* by line, registered |-> the components on the screen at first,
                    \* calls |-> a bound on its calls other than commits]
    Writers,        \* threads that print through the controller
    NoPane          \* a weak pointer to no component

PaneSet == ToSet(Panes)
Names(f) == [c \in PaneSet |-> f]

VARIABLES
    panes,          \* per component: both states, both pads, both cursors
    display_components,
    print_mappings, default_output, writing, leaving,
    pass,           \* the render thread: where it is, what is left to draw, what it has staged
    terminal,       \* what the terminal shows
    shut,           \* "no"; shutdown() has been called; the render thread has ended
    program, calls, \* what the program does, and how many calls it made
    steady,         \* history: no commit or registration since the pass began
    settled         \* history: nor since the pass began that the terminal shows

print_vars == <<print_mappings, default_output, writing, leaving>>
render_vars == <<pass, terminal, shut>>
program_vars == <<program, calls>>
seen_vars == <<steady, settled>>
screen_vars == <<panes, display_components, print_vars, render_vars, program_vars, seen_vars>>

-----------------------------------------------------------------------------
(* A component *)

gui_metadata(z) ==
    [visible |-> TRUE, origin |-> <<0, 0>>, z_position |-> z,
     alignment |-> <<"TOP", "LEFT">>, dimensions |-> <<0, 0>>]
\* The cursor's position is the pad's, see GuiPad.
gui_draw_state == [cursor_visible |-> FALSE]

\* The constructor: depths are given in the order of construction.
gui_component(z) ==
    [pending_state |-> gui_metadata(z), active_state |-> gui_metadata(z),
     pending_draw_state |-> gui_draw_state, active_draw_state |-> gui_draw_state,
     pending_pad |-> Pad(0, 0), active_pad |-> Pad(0, 0)]

\* set_visible(), set_origin(), set_z_position() and set_alignment().
SetAttribute(p, field, value) == [p EXCEPT !.pending_state[field] = value]

clear_pad(p) == [p EXCEPT !.pending_pad = Pad(@.width, @.height)]

\* Other dimensions take another, empty pad.
set_dimensions(p, size) ==
    IF p.pending_state.dimensions = size THEN p
    ELSE [p EXCEPT !.pending_state.dimensions = size, !.pending_pad = Pad(size[1], size[2])]

Clamped(n, size) == IF n < 0 THEN 0 ELSE IF n >= size THEN size - 1 ELSE n
set_cursor(p, at) ==
    [p EXCEPT !.pending_pad.x = Clamped(at[1], p.pending_state.dimensions[1]),
              !.pending_pad.y = Clamped(at[2], p.pending_state.dimensions[2])]
set_cursor_visible(p, status) == [p EXCEPT !.pending_draw_state.cursor_visible = status]

\* printf() and printfc(), where the cursor is or at a location.
PrintedOn(p, print) ==
    LET there == IF print.at = <<>> THEN p ELSE set_cursor(p, print.at)
    IN  [there EXCEPT !.pending_pad = multiline_print(@, print.text)]

Edited(p, e) ==
    IF e.to = "dimensions" THEN set_dimensions(p, e.value)
    ELSE IF e.to = "cursor" THEN set_cursor(p, e.value)
    ELSE IF e.to = "cursor_visible" THEN set_cursor_visible(p, e.value)
    ELSE IF e.to = "clear" THEN clear_pad(p)
    ELSE IF e.to = "text" THEN PrintedOn(p, e.value)
    ELSE SetAttribute(p, e.to, e.value)

\* load(): a line has a key and a value, or a comment in front of what is
\* left out; a second = in a line refuses the file.  The last value counts.
Settings(file) == SelectSeq(file, LAMBDA line : line.key # "" /\ line.signs = 1)
Refuses(file) == \E i \in DOMAIN file : file[i].signs > 1
LoadOrder == <<"visible", "origin", "z_position", "alignment", "dimensions">>
LastValue(file, key) ==
    LET set == SelectSeq(Settings(file), LAMBDA line : line.key = key)
    IN  IF set = <<>> THEN <<>> ELSE <<[to |-> key, value |-> Last(set).value]>>
\* load_parser(): each setting that is there, in this order.
Loaded(p, file) ==
    FoldLeft(Edited, p, FlattenSeq([i \in DOMAIN LoadOrder |-> LastValue(file, LoadOrder[i])]))

\* The front keeps its size until its output is committed.
commit_attributes_unsafe(p) ==
    [p EXCEPT !.active_state = [p.pending_state EXCEPT !.dimensions = p.active_state.dimensions]]

\* copywin() onto a pad of the same size, and the cursor on top.
commit_output_unsafe(p) ==
    [p EXCEPT !.active_state.dimensions = p.pending_state.dimensions,
              !.active_pad = p.pending_pad, !.active_draw_state = p.pending_draw_state]

commit_all_unsafe(p) == commit_output_unsafe(commit_attributes_unsafe(p))

-----------------------------------------------------------------------------
(* The program's threads *)

Called == calls < program.calls /\ calls' = calls + 1 /\ UNCHANGED program

Edit(c, p) ==
    /\ Called
    /\ panes' = [panes EXCEPT ![c] = p]
    /\ UNCHANGED <<display_components, print_vars, render_vars, seen_vars>>

SetPending(c) == \E i \in DOMAIN program.edits : Edit(c, Edited(panes[c], program.edits[i]))
LoadFile(c) ==
    \E i \in DOMAIN program.files :
        LET file == program.files[i] IN
        Edit(c, IF Refuses(file) THEN panes[c] ELSE Loaded(panes[c], file))

Commit(c, p) ==
    /\ panes' = [panes EXCEPT ![c] = p]
    /\ steady' = FALSE /\ settled' = FALSE
    /\ UNCHANGED <<display_components, print_mappings, default_output, leaving, render_vars,
                   program_vars>>

commit_attributes(c) == Commit(c, commit_attributes_unsafe(panes[c])) /\ UNCHANGED writing
commit_output(c) == Commit(c, commit_output_unsafe(panes[c])) /\ UNCHANGED writing
commit_all(c) == Commit(c, commit_all_unsafe(panes[c])) /\ UNCHANGED writing

associate_thread(t, c) ==
    /\ print_mappings' = [print_mappings EXCEPT ![t] = c]
    /\ Called
    /\ UNCHANGED <<panes, display_components, default_output, writing, leaving, render_vars,
                   seen_vars>>
associate_default(c) ==
    /\ default_output' = c
    /\ Called
    /\ UNCHANGED <<panes, display_components, print_mappings, writing, leaving, render_vars,
                   seen_vars>>

\* printf(): the component is looked up, printed on and committed, each under
\* its own lock.
LookUp(t) ==
    LET c == IF print_mappings[t] # NoPane THEN print_mappings[t] ELSE default_output IN
    /\ writing[t] = <<>> /\ c # NoPane
    /\ writing' = [writing EXCEPT ![t] = <<"print", c>>]
    /\ Called
    /\ UNCHANGED <<panes, display_components, print_mappings, default_output, leaving, render_vars,
                   seen_vars>>
PrintTo(t) ==
    /\ writing[t] # <<>> /\ writing[t][1] = "print"
    /\ writing' = [writing EXCEPT ![t][1] = "commit"]
    /\ \E print \in Prints : panes' = [panes EXCEPT ![writing[t][2]] = PrintedOn(@, print)]
    /\ UNCHANGED <<display_components, print_mappings, default_output, leaving, render_vars,
                   program_vars, seen_vars>>
CommitPrint(t) ==
    /\ writing[t] # <<>> /\ writing[t][1] = "commit"
    /\ writing' = [writing EXCEPT ![t] = <<>>]
    /\ Commit(writing[t][2], commit_output_unsafe(panes[writing[t][2]]))

-----------------------------------------------------------------------------
(* The controller *)

\* The render thread holds controller_lock but while it waits.
Unlocked == pass.at = "waiting"

Registered(c) == c \in ToSet(display_components)
register_gui_component(c) ==
    /\ Unlocked
    /\ display_components' = IF Registered(c) THEN display_components
                             ELSE Append(display_components, c)
    /\ steady' = FALSE /\ settled' = FALSE
    /\ Called
    /\ UNCHANGED <<panes, print_vars, render_vars>>

\* Unregistering takes the component off the screen, and then, under the other
\* lock, from the threads that print on it.
unregister_gui_component(c) ==
    /\ Unlocked /\ Registered(c) /\ leaving = NoPane
    /\ display_components' = SelectSeq(display_components, LAMBDA d : d # c)
    /\ leaving' = c
    /\ steady' = FALSE /\ settled' = FALSE
    /\ Called
    /\ UNCHANGED <<panes, print_mappings, default_output, writing, render_vars>>
forget_mappings ==
    /\ leaving # NoPane
    /\ print_mappings' = [t \in Writers |-> IF print_mappings[t] = leaving THEN NoPane
                                                                           ELSE print_mappings[t]]
    /\ default_output' = IF default_output = leaving THEN NoPane ELSE default_output
    /\ leaving' = NoPane
    /\ UNCHANGED <<panes, display_components, writing, render_vars, program_vars, seen_vars>>

ShutScreen ==
    /\ shut = "no" /\ shut' = "asked"
    /\ Called
    /\ UNCHANGED <<panes, display_components, print_vars, pass, terminal, seen_vars>>

Place == {<<x, y>> : x \in 0 .. ScreenSize[1] - 1, y \in 0 .. ScreenSize[2] - 1}
Dark == [at \in Place |-> <<>>]

\* Where the component's first cell goes.
Aligned(state) ==
    LET w == state.dimensions[1]  h == state.dimensions[2]
        column == state.alignment[2]  line == state.alignment[1]
    IN  <<state.origin[1]
            - (IF column = "LEFT" THEN 0 ELSE IF column = "CENTER" THEN w \div 2 ELSE w),
          state.origin[2]
            - (IF line = "TOP" THEN 0 ELSE IF line = "MIDDLE" THEN h \div 2 ELSE h)>>

\* pnoutrefresh(): cells of a pad from pmin on, to the screen from smin to smax;
\* what is before the screen's first cell counts as the first.
Within(pad, at) == at[1] \in 0 .. pad.width - 1 /\ at[2] \in 0 .. pad.height - 1
Cell(c, at) ==
    LET pad == panes[c].active_pad
    IN  <<c, pad.cells[at[2]][at[1]],
          panes[c].active_draw_state.cursor_visible /\ at = <<pad.x, pad.y>> >>
Copied(cells, c, pmin, smin, smax) ==
    LET first == [d \in 1 .. 2 |-> IF smin[d] < 0 THEN 0 ELSE smin[d]]
        source(at) == <<pmin[1] + at[1] - first[1], pmin[2] + at[2] - first[2]>>
        copied(at) == /\ \A d \in 1 .. 2 : at[d] \in first[d] .. smax[d]
                      /\ Within(panes[c].active_pad, source(at))
    IN  [at \in Place |-> IF copied(at) THEN Cell(c, source(at)) ELSE cells[at]]

\* What is not visible, or not on the screen, is left out; the rest is clipped.
Overlaid(cells, c) ==
    LET state == panes[c].active_state
        size == state.dimensions
        origin == Aligned(state)
        clip == [d \in 1 .. 2 |-> IF origin[d] >= 0 THEN 0 ELSE - origin[d]]
        left == [d \in 1 .. 2 |-> IF size[d] - clip[d] + origin[d] >= ScreenSize[d]
                                  THEN ScreenSize[d] - origin[d] ELSE size[d] - clip[d]]
        outside == \E d \in 1 .. 2 : origin[d] + size[d] <= 0 \/ origin[d] >= ScreenSize[d]
    IN  IF ~ state.visible \/ outside THEN cells
        ELSE Copied(cells, c, clip, origin,
                    [d \in 1 .. 2 |-> origin[d] + left[d] - 1])

\* Woken by refresh() or by its timer, the thread starts a pass.
BeginPass ==
    /\ pass.at = "waiting" /\ shut = "no"
    /\ pass' = [at |-> "sorting", left |-> display_components, cells |-> Dark]
    /\ steady' = TRUE
    /\ UNCHANGED <<panes, display_components, print_vars, terminal, shut, program_vars, settled>>
EndRender ==
    /\ pass.at = "waiting" /\ shut = "asked" /\ shut' = "ended"
    /\ UNCHANGED <<panes, display_components, print_vars, pass, terminal, program_vars, seen_vars>>

\* Fault: the nearest component first.
FaultBackToFront(seq) ==
    LET z(i) == panes[seq[i]].active_state.z_position
        order == SetToSortSeq(DOMAIN seq, LAMBDA i, j : z(i) < z(j) \/ (z(i) = z(j) /\ i < j))
    IN  [i \in DOMAIN seq |-> seq[order[i]]]
\* Components of one depth stay in the order of their registration.
BackToFront(seq) ==
    LET z(i) == panes[seq[i]].active_state.z_position
        order == SetToSortSeq(DOMAIN seq, LAMBDA i, j : z(i) > z(j) \/ (z(i) = z(j) /\ i < j))
    IN  [i \in DOMAIN seq |-> seq[order[i]]]
SortPass ==
    /\ pass.at = "sorting"
    /\ pass' = [pass EXCEPT !.at = "drawing", !.left = BackToFront(@)]
    /\ UNCHANGED <<panes, display_components, print_vars, terminal, shut, program_vars, seen_vars>>

DrawNext ==
    /\ pass.at = "drawing" /\ pass.left # <<>>
    /\ pass' = [pass EXCEPT !.left = Tail(@), !.cells = Overlaid(@, Head(pass.left))]
    /\ UNCHANGED <<panes, display_components, print_vars, terminal, shut, program_vars, seen_vars>>

\* doupdate()
EndPass ==
    /\ pass.at = "drawing" /\ pass.left = <<>>
    /\ terminal' = pass.cells
    /\ pass' = [at |-> "waiting", left |-> <<>>, cells |-> Dark]
    /\ settled' = steady
    /\ UNCHANGED <<panes, display_components, print_vars, shut, program_vars, steady>>

\* Constructed, given their dimensions and committed, as ironstack_gui does.
ScreenInit ==
    /\ panes = [c \in PaneSet |->
                  LET z == CHOOSE i \in DOMAIN Panes : Panes[i] = c IN
                  commit_all_unsafe(set_dimensions(gui_component(z), FirstSize))]
    /\ program \in Programs
    /\ display_components = program.registered
    /\ print_mappings = [t \in Writers |-> NoPane] /\ default_output = NoPane
    /\ writing = [t \in Writers |-> <<>>] /\ leaving = NoPane
    /\ pass = [at |-> "waiting", left |-> <<>>, cells |-> Dark]
    /\ terminal = Dark
    /\ shut = "no" /\ calls = 0 /\ steady = FALSE /\ settled = FALSE

ScreenNext ==
    \/ \E c \in PaneSet :
          \/ SetPending(c) \/ LoadFile(c)
          \/ commit_attributes(c) \/ commit_output(c) \/ commit_all(c)
          \/ register_gui_component(c) \/ unregister_gui_component(c)
          \/ associate_default(c)
          \/ \E t \in Writers : associate_thread(t, c)
    \/ \E t \in Writers : LookUp(t) \/ PrintTo(t) \/ CommitPrint(t)
    \/ forget_mappings \/ ShutScreen
    \/ BeginPass \/ EndRender \/ SortPass \/ DrawNext \/ EndPass

-----------------------------------------------------------------------------
(* Properties *)

\* Each pad has the size its half says, and its cursor is on it.
FrontsFit ==
    \A c \in PaneSet :
        LET p == panes[c]
            fits(pad, state) == /\ <<pad.width, pad.height>> = state.dimensions
                                /\ Within(pad, <<pad.x, pad.y>>)
        IN  fits(p.active_pad, p.active_state) /\ fits(p.pending_pad, p.pending_state)

Covers(c, at) ==
    LET state == panes[c].active_state IN
    state.visible /\ \A d \in 1 .. 2 : at[d] - Aligned(state)[d] \in 0 .. state.dimensions[d] - 1

Overhangs(c) == \E d \in 1 .. 2 : Aligned(panes[c].active_state)[d] < 0

\* Of the components that cover a cell the nearest, and of several at the same
\* depth the one registered last.
Nearest(covering) ==
    LET index(c) == CHOOSE i \in DOMAIN display_components : display_components[i] = c
        z(c) == panes[c].active_state.z_position
    IN  CHOOSE c \in covering :
          \A d \in covering \ {c} : z(c) < z(d) \/ (z(c) = z(d) /\ index(c) > index(d))

\* Once a pass has run during which nothing was committed, the terminal shows,
\* cell by cell, what the nearest visible component there has committed, and
\* nothing that is still pending, whatever threads changed, resized, printed
\* and committed before (gui_component's two halves, render_entrypoint).
\* Components that hang over the left or the top edge are excepted: their
\* clipping loses cells at the other end.
ScreenShowsCommitted ==
    /\ FrontsFit
    /\ settled =>
        \A at \in Place :
            LET covering == {c \in ToSet(display_components) : Covers(c, at)}
                top == Nearest(covering)
                place == Aligned(panes[top].active_state)
            IN  IF covering = {} THEN terminal[at] = <<>>
                ELSE (\A c \in covering : ~ Overhangs(c)) =>
                       terminal[at] = Cell(top, <<at[1] - place[1], at[2] - place[2]>>)
=============================================================================
