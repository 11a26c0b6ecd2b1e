----------------------------- MODULE WordMemory -----------------------------
(***************************************************************************)
(* The memory a parse asks its allocation strategy for, if words never ran *)
(* out and were never moved: a stack, and an AST that grows at its front.  *)
(* At any time, though, the memory may be refused, and everything is lost. *)
(***************************************************************************)
EXTENDS Naturals, Sequences

CONSTANTS
    Words,          \* what a word may hold
    Reservations    \* how many words are asked for at a time

VARIABLES
    stack,      \* the parse stack, its top last
    ast,        \* the AST, the words written last first
    document,   \* the AST handed out
    status      \* how far the parse is

memoryVars == <<stack, ast, document, status>>

Init ==
    /\ stack = <<>> /\ ast = <<>> /\ document = <<>>
    /\ status = "start"

Begin ==
    /\ status = "start"
    /\ status' = "parsing"
    /\ UNCHANGED <<stack, ast, document>>

\* Words are reserved and then written.
Push ==
    /\ status = "parsing"
    /\ \E n \in Reservations : \E words \in [1 .. n -> Words] :
          stack' = stack \o words
    /\ UNCHANGED <<ast, document, status>>

Reserve ==
    /\ status = "parsing"
    /\ \E n \in Reservations : \E words \in [1 .. n -> Words] :
          ast' = words \o ast
    /\ UNCHANGED <<stack, document, status>>

\* A frame from the top of the stack, and a word before it, go to the AST.
Install ==
    /\ status = "parsing"
    /\ \E base \in 0 .. Len(stack), length \in Words :
          ast' = <<length>> \o SubSeq(stack, base + 1, Len(stack)) \o ast
    /\ UNCHANGED <<stack, document, status>>

Reset ==
    /\ status = "parsing"
    /\ \E new_top \in 0 .. Len(stack) : stack' = SubSeq(stack, 1, new_top)
    /\ UNCHANGED <<ast, document, status>>

Finish ==
    /\ status = "parsing"
    /\ status' = "finished"
    /\ stack' = <<>>
    /\ UNCHANGED <<ast, document>>

HandOut ==
    /\ status = "finished"
    /\ status' = "accepted"
    /\ document' = ast
    /\ ast' = <<>>
    /\ UNCHANGED stack

Drop ==
    /\ status = "accepted"
    /\ status' = "dropped"
    /\ document' = <<>>
    /\ UNCHANGED <<stack, ast>>

Fail ==
    /\ status \in {"start", "parsing"}
    /\ status' = "failed"
    /\ stack' = <<>> /\ ast' = <<>>
    /\ UNCHANGED document

Next ==
    \/ Begin \/ Push \/ Reserve \/ Install \/ Reset
    \/ Finish \/ HandOut \/ Drop \/ Fail

Spec == Init /\ [][Next]_memoryVars
=============================================================================
