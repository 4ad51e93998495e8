------------------------------ MODULE GuiFocus ------------------------------
(* gui_controller's choice of the component that keys go to.               *)
EXTENDS Integers, Sequences, SequencesExt

CONSTANTS
    Inputs,          \* the registered input components, in the order of registration
    Sequence(_),     \* a component's input sequence
    Nobody           \* a weak pointer to no component

(* What arbitration answers: whom to focus, whom to blur, and what is      *)
(* remembered of the focus.                                                *)
Verdict(focus, blur, current, value) ==
    [focus |-> focus, blur |-> blur, current |-> current, value |-> value]

Candidates(enabled) == SelectSeq(Inputs, LAMBDA c: enabled[c])

(* The first candidate whose turn comes at value or later.                 *)
NextFrom(candidates, holder, value) ==
    SelectSeq(candidates, LAMBDA c: c # holder /\ Sequence(c) >= value)

(* The first of the candidates with the smallest input sequence.           *)
Lowest(candidates) ==
    SelectSeq(candidates, LAMBDA c: \A d \in ToSet(candidates): Sequence(c) <= Sequence(d))[1]

(* Fault: A holder that has been disabled keeps the focus.                 *)
FaultArbitrate(enabled, current, value, repick) ==
    LET candidates == Candidates(enabled)
    IN  IF candidates = << >> \/ (~repick /\ current # Nobody)
        THEN Verdict(Nobody, Nobody, current, value)
        ELSE LET next == NextFrom(candidates, current,
                             IF current = Nobody THEN value ELSE Sequence(current))
                 choice == IF next # << >> THEN next[1] ELSE Lowest(candidates)
             IN  IF choice = current THEN Verdict(Nobody, Nobody, current, value)
                 ELSE Verdict(choice, current, current, value)

arbitrate_focus(enabled, current, value, repick) ==
    LET candidates == Candidates(enabled)
    IN  IF candidates = << >> THEN Verdict(Nobody, current, Nobody, 0)
        ELSE IF ~repick /\ current \in ToSet(candidates)
        THEN Verdict(Nobody, Nobody, current, value)
        ELSE LET next == NextFrom(candidates, current,
                             IF current = Nobody THEN value ELSE Sequence(current))
                 choice == IF next # << >> THEN next[1] ELSE Lowest(candidates)
             IN  IF choice = current THEN Verdict(Nobody, Nobody, current, value)
                 ELSE Verdict(choice, current, current, value)

=============================================================================
