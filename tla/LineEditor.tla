----------------------------- MODULE LineEditor -----------------------------
(***************************************************************************)
(* What the console promises programs that read it: characters of a line   *)
(* can be erased until the line ends; from then on they are delivered in   *)
(* order, each once.  A line ends with a newline, with control-D, or when  *)
(* there is no room for more.                                              *)
(***************************************************************************)
EXTENDS Naturals, Sequences

CONSTANTS
    Char,           \* characters that can be typed
    End,            \* those that end a line
    Size            \* room for characters

VARIABLES
    line,           \* the line being edited
    out             \* characters to be delivered

vars == <<line, out>>

Init == line = <<>> /\ out = <<>>

Insert(c) ==
    LET l == Append(line, c)
        ends == c \in End \/ Len(out) + Len(l) = Size
    IN  /\ Len(out) + Len(line) < Size
        /\ line' = IF ends THEN <<>> ELSE l
        /\ out' = IF ends THEN out \o l ELSE out

Erase ==
    /\ line # <<>>
    /\ line' = SubSeq(line, 1, Len(line) - 1)
    /\ UNCHANGED out

Kill ==
    /\ line' = <<>>
    /\ UNCHANGED out

Deliver ==
    /\ out # <<>>
    /\ out' = Tail(out)
    /\ UNCHANGED line

Next == Erase \/ Kill \/ Deliver \/ \E c \in Char : Insert(c)

Spec == Init /\ [][Next]_vars
=============================================================================
