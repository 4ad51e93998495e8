------------------------------- MODULE GuiPad -------------------------------
(* The text pad of a gui_component: a grid of cells and the position at    *)
(* which the next character goes.  A pad is printed on, and committed as a *)
(* whole to the copy that the controller draws.                            *)
EXTENDS Integers, Sequences, SequencesExt

Blank == " "
TabWidth == 8

(* A new pad, and what clear_pad_unsafe() leaves of one.                   *)
Pad(width, height) ==
    [width |-> width, height |-> height, x |-> 0, y |-> 0,
     cells |-> [y \in 0..height - 1 |-> [x \in 0..width - 1 |-> Blank]]]

(* Blanks from column first to column last of the cursor's line.           *)
Blanked(pad, first, last) ==
    [pad EXCEPT !.cells[pad.y] =
        [x \in DOMAIN @ |-> IF x \in first..last THEN Blank ELSE @[x]]]

pad_to_eol(pad) == Blanked(pad, pad.x, pad.width - 1)

(* Fault: The lines move up and the last one keeps its text.               *)
FaultScroll(pad) ==
    [pad EXCEPT !.cells = [y \in DOMAIN @ |-> @[IF y = pad.height - 1 THEN y ELSE y + 1]]]

scroll(pad) ==
    [pad EXCEPT !.cells = [y \in DOMAIN @ |->
        IF y < pad.height - 1 THEN @[y + 1] ELSE [x \in 0..pad.width - 1 |-> Blank]]]

NewLine(pad) ==
    IF pad.y + 1 < pad.height THEN [pad EXCEPT !.x = 0, !.y = @ + 1]
    ELSE [scroll(pad) EXCEPT !.x = 0]

Backspace(pad) ==
    IF pad.x > 0 THEN [pad EXCEPT !.x = @ - 1]
    ELSE IF pad.y > 0 THEN [pad EXCEPT !.x = pad.width - 1, !.y = @ - 1]
    ELSE pad

Tab(pad) ==
    IF pad.x + TabWidth >= pad.width THEN pad_to_eol([pad EXCEPT !.x = pad.width - 1])
    ELSE [Blanked(pad, pad.x, pad.x + TabWidth - 1) EXCEPT !.x = @ + TabWidth]

Character(pad, c) ==
    LET written == [pad EXCEPT !.cells[pad.y][pad.x] = c]
    IN  IF pad.x + 1 < pad.width THEN [written EXCEPT !.x = @ + 1] ELSE NewLine(written)

(* One character of a text.                                                *)
Printed(pad, c) ==
    IF c = "BS" THEN Backspace(pad)
    ELSE IF c = "\t" THEN Tab(pad)
    ELSE IF c \in {"\n", "\r"} THEN NewLine(pad)
    ELSE Character(pad, c)

multiline_print(pad, text) == FoldLeft(Printed, pad, text)

-----------------------------------------------------------------------------
(* What a reader expects of a console: a page without an end on which the  *)
(* text is laid out, and a window on its last lines.                       *)

Page == [x |-> 0, y |-> 0, top |-> 0, cells |-> << >>]

Below(page, height) ==
    [page EXCEPT !.x = 0, !.y = @ + 1,
                 !.top = IF page.y + 1 < @ + height THEN @ ELSE page.y + 2 - height]

Put(cells, y, x, c) ==
    [at \in DOMAIN cells \union {<<y, x>>} |-> IF at = <<y, x>> THEN c ELSE cells[at]]

OnPage(page, c, width, height) ==
    IF c = "\n" THEN Below(page, height)
    ELSE IF c = "\t" /\ page.x + TabWidth >= width
    THEN [page EXCEPT !.x = width - 1, !.cells = Put(@, page.y, width - 1, Blank)]
    ELSE IF c = "BS"
    THEN [page EXCEPT !.x = IF @ > 0 THEN @ - 1 ELSE IF page.y > page.top THEN width - 1 ELSE 0,
                      !.y = IF page.x = 0 /\ @ > page.top THEN @ - 1 ELSE @]
    ELSE LET written == [page EXCEPT !.cells = Put(@, page.y, page.x, c), !.x = @ + 1]
         IN  IF written.x < width THEN written ELSE Below(written, height)

Window(page, width, height) ==
    [y \in 0..height - 1 |-> [x \in 0..width - 1 |->
        IF <<page.top + y, x>> \in DOMAIN page.cells THEN page.cells[<<page.top + y, x>>]
        ELSE Blank]]

(* The last lines of a text, at most height of them and width wide.        *)
Tail_of(text, width, height) ==
    Window(FoldLeft(LAMBDA page, c: OnPage(page, c, width, height), Page, text), width, height)

=============================================================================
