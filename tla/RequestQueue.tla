----------------------------- MODULE RequestQueue -----------------------------
(***************************************************************************)
(* What the buffer cache may rely on in the driver of a device, with no    *)
(* drive, error or interrupt in sight: requests wait in a line.  A new one *)
(* never goes before the one at the head, and requests leave only from     *)
(* the head, one or several at a time.  BufferCache!EndRequest takes the   *)
(* driver for one that does this.  A request that add_request loses never  *)
(* joins the line.                                                         *)
(***************************************************************************)
EXTENDS Integers, SequencesExt

CONSTANT
  Kinds   \* what a request asks for

VARIABLE
  line    \* the requests that were not ended yet

Init == line = <<>>

Add(k) ==
  \/ line = <<>> /\ line' = <<k>>
  \/ line # <<>> /\ \E i \in 2 .. Len(line) + 1 : line' = InsertAt(line, i, k)

(* The first n requests have been ended. *)
Leave(n) == line' = SubSeq(line, n + 1, Len(line))

Next ==
  \/ \E k \in Kinds : Add(k)
  \/ \E n \in 1 .. Len(line) : Leave(n)

Spec == Init /\ [][Next]_line

=============================================================================
