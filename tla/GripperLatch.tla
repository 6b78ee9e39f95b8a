----------------------------- MODULE GripperLatch -----------------------------
(***************************************************************************)
(* The debounce of one gripper channel (kuavo_deploy/utils/                *)
(* gripper_latch.py).  A predicted value is abstracted to what it asks     *)
(* for: "grasp" (at or above close_threshold), "release" (at or below      *)
(* open_threshold) or "neither".  The channels of a hand do not share      *)
(* anything, so one stands for all of them.                                *)
(***************************************************************************)
EXTENDS Integers, Sequences

CONSTANTS IntentSteps,          \* opposite intents in a row before a switch
          MinClose, MinOpen     \* rows a state is held at least
ASSUME LatchAssumption == IntentSteps \in Nat \ {0} /\ MinClose \in Nat /\ MinOpen \in Nat

Intents == {"grasp", "release", "neither"}
Hands   == {"open", "closed"}
Other(hand)           == IF hand = "closed" THEN "open" ELSE "closed"
Opposes(intent, hand) == intent = IF hand = "closed" THEN "release" ELSE "grasp"
MinHold(hand)         == IF hand = "closed" THEN MinClose ELSE MinOpen

(* A new latch may switch at once: its state counts as held long enough.   *)
ResetLatch(hand) == [hand |-> hand, steps |-> MinHold(hand), opposite |-> 0]

EvidenceKept(l, intent) == IF Opposes(intent, l.hand) THEN l.opposite + 1 ELSE l.opposite
Evidence(l, intent)     == IF Opposes(intent, l.hand) THEN l.opposite + 1 ELSE 0
Switches(l, intent) == l.steps >= MinHold(l.hand) /\ Evidence(l, intent) >= IntentSteps
LatchRow(l, intent) ==
    IF Switches(l, intent)
    THEN [hand |-> Other(l.hand), steps |-> 1, opposite |-> 0]
    ELSE [hand |-> l.hand, steps |-> l.steps + 1, opposite |-> Evidence(l, intent)]
=============================================================================
