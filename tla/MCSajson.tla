------------------------------ MODULE MCSajson ------------------------------
(***************************************************************************)
(* The constants of SajsonDocument that a cfg cannot write down.           *)
(***************************************************************************)
EXTENDS SajsonDocument

\* The bytes of the keys of one text: whichever two keys it has, the later one
\* may go before the earlier one, after it, or be the same.
KeyPattern == [i \in Offsets |-> (7 * i) % 4]
=============================================================================
