---------------------------- MODULE AtomicUpdate ----------------------------
(***************************************************************************)
(* What an over-the-air update promises, without slots, sectors, otadata   *)
(* or the connection it arrives on.  The image that the next boot runs     *)
(* changes at once, from one whole application to the one that was         *)
(* offered, and only once between two boots; the image that runs is not    *)
(* touched; and the board may stop between any two steps.                  *)
(***************************************************************************)
CONSTANTS Image,    \* the applications
          Nothing   \* what runs while the board is off

VARIABLES runs,      \* the image that runs, or Nothing
          boots,     \* the image that the next boot runs
          offer,     \* the image that is being uploaded: none or one
          committed  \* whether it was accepted

vars == <<runs, boots, offer, committed>>

Init == /\ boots \in Image
        /\ runs = boots
        /\ offer = {}
        /\ committed = FALSE

(* An upload that cannot succeed offers nothing.                           *)
Offer == /\ runs # Nothing
         /\ offer = {}
         /\ \E i \in Image : offer' = {i}
         /\ UNCHANGED <<runs, boots, committed>>

Withdraw == /\ ~committed
            /\ offer' = {}
            /\ UNCHANGED <<runs, boots, committed>>

Commit == /\ ~committed
          /\ boots' \in offer
          /\ committed' = TRUE
          /\ UNCHANGED <<runs, offer>>

Stop == /\ runs' = Nothing
        /\ offer' = {}
        /\ committed' = FALSE
        /\ UNCHANGED boots

Boot == /\ runs = Nothing
        /\ runs' = boots
        /\ UNCHANGED <<boots, offer, committed>>

Next == Offer \/ Withdraw \/ Commit \/ Stop \/ Boot

Spec == Init /\ [][Next]_vars
=============================================================================
