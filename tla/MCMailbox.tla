-------------------------------- MODULE MCMailbox --------------------------------
(* Instances of Mailbox for TLC. *)
EXTENDS Mailbox, TLC

CONSTANTS a, b, r1, r2, r3, f1, f2

\* One node sends to the other, alone or to the whole project; the other is no member.
MCInputs ==
    {[kind |-> "relay", from |-> a, targets |-> {b}],
     [kind |-> "broadcast", from |-> a, targets |-> {a, b}],
     [kind |-> "broadcast", from |-> b, targets |-> {a}]}

\* Fetch slots and requests are interchangeable.
SlotSymmetry == Permutations({f1, f2}) \cup Permutations({r1, r2, r3})
=============================================================================
