---------------------------- MODULE FencedLease ----------------------------
(***************************************************************************)
(* What a durable, fenced lease promises: work on an item is done only     *)
(* under an open lease, a lease is granted only when no other is open,     *)
(* every grant raises the item's token, and work is never lost.            *)
(***************************************************************************)
EXTENDS Naturals

CONSTANT Item
VARIABLES token,    \* token of the latest grant
          open,     \* is that grant still in force?
          work      \* work done

vars == <<token, open, work>>

Init == /\ token = [i \in Item |-> 0]
        /\ open = [i \in Item |-> FALSE]
        /\ work = [i \in Item |-> 0]

Grant(i) == /\ ~open[i]
            /\ token' = [token EXCEPT ![i] = token[i] + 1]
            /\ open' = [open EXCEPT ![i] = TRUE]
            /\ UNCHANGED work

\* The last piece of work may give the lease back.
Advance(i) == /\ open[i]
              /\ work'[i] >= work[i]
              /\ work' = [work EXCEPT ![i] = work'[i]]
              /\ open' = [open EXCEPT ![i] = open'[i]]
              /\ UNCHANGED token

Lapse(i) == /\ open[i]
            /\ open' = [open EXCEPT ![i] = FALSE]
            /\ UNCHANGED <<token, work>>

Next == \E i \in Item : Grant(i) \/ Advance(i) \/ Lapse(i)
Spec == Init /\ [][Next]_vars
=============================================================================
