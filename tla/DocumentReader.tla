--------------------------- MODULE DocumentReader ----------------------------
(***************************************************************************)
(* The client of a document that was parsed: it looks a key up, as in      *)
(* ObjectIndex, or writes a value to a file, as in Dump.  A document is    *)
(* never written to any more, so that readers do not interfere.            *)
(***************************************************************************)
EXTENDS ObjectIndex, Dump

vars == <<indexVars, dumpVars>>

\* No lookup, and no dump.
FindIdle ==
    /\ find_pc = "idle"
    /\ keys = <<>> /\ wanted = Key(0, 0)
    /\ first = 0 /\ count = 0
    /\ found = Pending /\ found_ffi = Pending

DumpIdle ==
    /\ dump_pc = "idle"
    /\ value = [type |-> "null"] /\ current = value
    /\ indent = -1 /\ frames = <<>> /\ pos = 0 /\ pieces = <<>>
    /\ buf = <<>> /\ file = <<>> /\ size = 0 /\ returned = 0
    /\ emitted = <<>>

Init ==
    \/ FindInit /\ DumpIdle
    \/ DumpInit /\ FindIdle

Next ==
    \/ FindNext /\ UNCHANGED dumpVars
    \/ DumpNext /\ UNCHANGED indexVars

Spec == Init /\ [][Next]_vars /\ WF_vars(Next)

\* A reader comes to its end: bisection narrows its range to nothing, and dump
\* comes back from every array and object.
ReaderTermination ==
    <>(find_pc \in {"idle", "done"} /\ dump_pc \in {"idle", "written"})
=============================================================================
