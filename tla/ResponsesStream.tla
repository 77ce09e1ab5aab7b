---------------------------- MODULE ResponsesStream ----------------------------
(***************************************************************************)
(* What a client of the Responses API may rely on while it reads a stream: *)
(* items open one after the other, only an open item is streamed to, an    *)
(* item that is done stays as it is and ends with what was streamed of it, *)
(* a response completes when all its items are done, and after its end     *)
(* nothing changes any more.                                               *)
(***************************************************************************)
EXTENDS Naturals, SequencesExt

VARIABLES
  status,   \* "none", "in_progress", "completed", "failed"
  items     \* the items in the order of their output_index

vars == <<status, items>>

Open(item) == ~item.done

\* Two views of an item are of the same item.
Same(item, other) == item.kind = other.kind /\ item.call = other.call

Init == status = "none" /\ items = <<>>

Create == status = "none" /\ status' = "in_progress" /\ UNCHANGED items

AddItem ==
  /\ status = "in_progress"
  /\ Len(items') = Len(items) + 1
  /\ IsPrefix(items, items')
  /\ Open(Last(items')) /\ Last(items').said = <<>>
  /\ UNCHANGED status

\* One item changes, and goes on from what was said of it.
Changes(i) ==
  /\ Len(items') = Len(items)
  /\ \A j \in DOMAIN items \ {i} : items'[j] = items[j]
  /\ Open(items[i]) /\ Same(items'[i], items[i])
  /\ IsPrefix(items[i].said, items'[i].said)

Stream(i) == status = "in_progress" /\ Changes(i) /\ Open(items'[i]) /\ UNCHANGED status

Finish(i) == status = "in_progress" /\ Changes(i) /\ ~Open(items'[i]) /\ UNCHANGED status

Complete ==
  /\ status = "in_progress"
  /\ \A i \in DOMAIN items : ~Open(items[i])
  /\ status' = "completed"
  /\ UNCHANGED items

Fail == status \in {"none", "in_progress"} /\ status' = "failed" /\ UNCHANGED items

Next ==
  \/ Create \/ AddItem \/ Complete \/ Fail
  \/ \E i \in DOMAIN items : Stream(i) \/ Finish(i)

Spec == Init /\ [][Next]_vars
=============================================================================
