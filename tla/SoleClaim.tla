------------------------------ MODULE SoleClaim ------------------------------
(***************************************************************************)
(* What publishing a product and activating a price list promise to those  *)
(* who ask for it: whoever asks may win what it asked for, once and for    *)
(* all, if nobody has won that before; and it is refused only if somebody  *)
(* has.  A claim may also stay open for ever, when its thing is not found  *)
(* or the program stops.                                                   *)
(***************************************************************************)
CONSTANTS
    Claimants,  \* those who ask
    Things,     \* what they ask for
    None        \* nobody, and nothing

VARIABLES
    aim,      \* what each claimant asks for
    winner,   \* who won each thing
    outcome   \* "open", "won" or "refused"

claims == <<aim, winner, outcome>>

Init ==
    /\ aim = [c \in Claimants |-> None]
    /\ winner = [x \in Things |-> None]
    /\ outcome = [c \in Claimants |-> "open"]

Ask(c, x) ==
    /\ aim[c] = None
    /\ aim' = [aim EXCEPT ![c] = x]
    /\ UNCHANGED <<winner, outcome>>

Open(c, x) == aim[c] = x /\ outcome[c] = "open"

Win(c, x) ==
    /\ Open(c, x)
    /\ winner[x] = None
    /\ winner' = [winner EXCEPT ![x] = c]
    /\ outcome' = [outcome EXCEPT ![c] = "won"]
    /\ UNCHANGED aim

Refuse(c, x) ==
    /\ Open(c, x)
    /\ winner[x] # None
    /\ outcome' = [outcome EXCEPT ![c] = "refused"]
    /\ UNCHANGED <<aim, winner>>

Next == \E c \in Claimants, x \in Things : Ask(c, x) \/ Win(c, x) \/ Refuse(c, x)

Spec == Init /\ [][Next]_claims
=============================================================================
