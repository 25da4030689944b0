----------------------------- MODULE AgreedLog -----------------------------
(***************************************************************************)
(* What the rounds promise, with no runners, files, attempts or deadlines: *)
(* a log for each seat, to which entries are only ever appended, one at a  *)
(* time, always the entry of the seat in turn, and never one that differs  *)
(* from what a seat that is still in the hand has for the same round.      *)
(* Round implements this, with its committed entries as the logs.          *)
(***************************************************************************)
EXTENDS Naturals, Sequences

CONSTANTS
  Players,    \* the seats
  Entry,      \* entries of a log
  Turn(_, _)  \* the seat in turn after so many entries, given those that folded

VARIABLE logs

Folds(l) ==
  {l[x].player : x \in {y \in 1..Len(l) : l[y].action.kind = "fold"}}

Init == logs = [i \in Players |-> <<>>]

(* Neither log has folded either seat. *)
Both(i, j, l, m) == {i, j} \cap (Folds(l) \cup Folds(m)) = {}

(* Seat i appends e, which agrees with those who are further. *)
Extend(i, e) ==
  LET new == Append(logs[i], e)
  IN  /\ logs' = [logs EXCEPT ![i] = new]
      /\ e.player = Turn(Len(logs[i]), Folds(logs[i]))
      /\ \A j \in Players \ {i} :
           (Both(i, j, new, logs[j]) /\ Len(new) <= Len(logs[j]))
             => logs[j][Len(new)] = e

Next == \E i \in Players : \E e \in Entry : Extend(i, e)

Spec == Init /\ [][Next]_logs
=============================================================================
