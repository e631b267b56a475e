----------------------------- MODULE KeyQueue -----------------------------
(***************************************************************************)
(* What getline relies on: the keys of the keyboard come out of getchar in *)
(* the order they were pressed, each once.  Keys without a character (NUL) *)
(* take part in the order but are never handed out.  When Capacity keys    *)
(* wait, the next one replaces the oldest.  Keyboard implements this.      *)
(***************************************************************************)
EXTENDS Naturals, Sequences

CONSTANTS Keys, NUL, Capacity

VARIABLES
  queue,  \* the keys pressed and not yet read, oldest first
  hand    \* the key getchar is handing out, NUL when there is none

Init == queue = <<>> /\ hand = NUL

Press(k) ==
  /\ queue' = Append(IF Len(queue) = Capacity THEN Tail(queue) ELSE queue, k)
  /\ UNCHANGED hand

Read ==
  /\ hand = NUL
  /\ queue # <<>>
  /\ hand' = Head(queue)
  /\ queue' = Tail(queue)

Accept ==
  /\ hand # NUL
  /\ hand' = NUL
  /\ UNCHANGED queue

Next == (\E k \in Keys \cup {NUL} : Press(k)) \/ Read \/ Accept

Spec == Init /\ [][Next]_<<queue, hand>>

=============================================================================
