------------------------------ MODULE MCConsole ------------------------------
(* Sessions for TLC.  In each, keys are typed at any time: before a screen *)
(* is drawn, while it is being rebuilt, or while the thread waits.  In the *)
(* last, the program calls components and the controller directly.         *)
EXTENDS Console, GuiScreen

Session(from, typing, listed) ==
    [connects |-> TRUE, from |-> from, keys |-> typing, flows |-> listed, changes |-> 0,
     lengths |-> <<0, 3>>, loads |-> {0}, prints |-> 0]

Still == [Session(0, << >>, << >>) EXCEPT !.connects = FALSE]

MCWorkloads == {
    Still,
    (* the flow screen: move down its list and delete, also as it changes *)
    Session(1, <<"enter", "down", "down", "delete">>, <<"f1", "f2", "f3">>),
    [Session(1, <<"enter", "down", "delete">>, <<"f1", "f2">>) EXCEPT !.changes = 1],
    (* a list of another service, and on to the next screen *)
    Session(2, <<"enter", "down", "tab", "enter">>, << >>),
    Session(3, <<"enter">>, << >>), Session(4, <<"enter">>, << >>),
    (* the experimental screen: a decision, or a line *)
    Session(6, <<"enter", "down", "enter">>, << >>),
    Session(6, <<"enter", "tab", "a", "enter">>, << >>),
    (* the summary *)
    [Session(0, << >>, << >>) EXCEPT !.loads = {0, 30, 100, 101}],
    (* printing *)
    [Session(0, << >>, << >>) EXCEPT !.connects = FALSE, !.prints = 3]}

MCTexts == {<<"a", "b", "\n">>, <<"c", "\t">>, <<"d", "BS", "e", "f", "g", "h">>}

MCPanes == <<"back", "front">>
MCScreenSize == <<3, 2>>
MCFirstSize == <<2, 1>>
MCPrint(at) == [at |-> at, text |-> <<"a", "\n", "b">>]
MCPrints == {MCPrint(<< >>), MCPrint(<<0, 0>>)}
Setting(field, value) == [to |-> field, value |-> value]
Line(key, value) == [key |-> key, value |-> value, signs |-> 1]
NoProgram == [edits |-> << >>, files |-> << >>, registered |-> << >>, calls |-> 0]
MCPrograms == {
    (* two components are changed, loaded and committed *)
    [edits |-> <<Setting("visible", FALSE), Setting("origin", <<1, 0>>), Setting("z_position", 1),
                 Setting("alignment", <<"BOTTOM", "RIGHT">>), Setting("dimensions", <<1, 2>>),
                 Setting("cursor", <<5, 1>>), Setting("cursor_visible", TRUE), Setting("clear", 0),
                 Setting("text", MCPrint(<<1, 0>>))>>,
     files |-> << <<Line("origin", <<2, 1>>), Line("alignment", <<"MIDDLE", "CENTER">>), Line("", 0)>>,
                  <<Line("dimensions", <<2, 2>>), [Line("visible", FALSE) EXCEPT !.signs = 2]>> >>,
     registered |-> MCPanes, calls |-> 2],
    (* they come, go, change places, are printed on, and the controller is shut *)
    [edits |-> <<Setting("z_position", 0), Setting("z_position", 1)>>, files |-> << >>,
     registered |-> <<"back">>, calls |-> 4],
    NoProgram}

MCInit == Init /\ ScreenInit /\ (workload # Still <=> program = NoProgram)
MCNext ==
    \/ workload # Still /\ Next /\ UNCHANGED screen_vars
    \/ workload = Still /\ ScreenNext /\ UNCHANGED vars
MCSpec == MCInit /\ [][MCNext]_<<vars, screen_vars>>

=============================================================================
