---------------------------- MODULE AtomicConfig ----------------------------
(***************************************************************************)
(* What the firmware promises its operator about saved settings: one       *)
(* durable value that a save replaces as a whole or not at all.  A save    *)
(* that answers OK has replaced it, one that answers ERROR has not, and    *)
(* after an interruption by power loss the next boot finds the old value   *)
(* or the new one.  While no save is in progress the settings in use are   *)
(* the durable ones.                                                       *)
(*                                                                         *)
(* A new release takes the value over, and the older one finds it again    *)
(* when the new release is rejected in its trial.  Nothing is promised of  *)
(* the way back from an accepted release, nor of the way forward to one    *)
(* that left its settings behind.                                          *)
(***************************************************************************)
EXTENDS Naturals

CONSTANTS
    Config,
    Default     \* what a new unit finds

VARIABLES
    value,      \* what a boot finds
    working,    \* the settings in use
    previous,   \* the settings in use before the running save
    status,     \* "off", "idle" or "saving"
    release,    \* the firmware in use
    trial,      \* it may still be rejected
    inherited,  \* the values that may be found again
    left        \* settings of a newer release are left

firmware == <<release, trial, inherited>>
config == <<value, working, previous, status>>
vars == <<config, firmware, left>>

Init ==
    /\ value \in Config /\ working \in Config
    /\ previous = working
    /\ status = "off"
    /\ release \in Nat /\ trial = FALSE
    /\ inherited \subseteq Config /\ left \in BOOLEAN

Boot ==
    /\ status = "off"
    /\ working' = value /\ previous' = value
    /\ status' \in {"idle", "saving"}
    /\ UNCHANGED <<value, firmware>>

Change(c) ==
    /\ status = "idle"
    /\ working' = c /\ previous' = working
    /\ status' = "saving"
    /\ UNCHANGED <<value, firmware>>

(* The durable point of a save. *)
Persist ==
    /\ status = "saving"
    /\ value' = working
    /\ UNCHANGED <<working, previous, status, firmware>>

AnswerOk ==
    /\ status = "saving"
    /\ value = working
    /\ previous' = working
    /\ status' = "idle"
    /\ UNCHANGED <<value, working, firmware>>

AnswerError ==
    /\ status = "saving"
    /\ value = previous
    /\ working' = previous
    /\ status' = "idle"
    /\ UNCHANGED <<value, previous, firmware>>

(* A restart forgets what is in use. *)
Forget ==
    /\ status' = "off"
    /\ working' \in Config /\ previous' = working'

PowerLoss ==
    /\ status # "off"
    /\ Forget
    /\ UNCHANGED <<value, firmware>>

(* Back to the state of a new unit. *)
Reset ==
    /\ status = "idle" /\ ~trial
    /\ value' = Default
    /\ Forget
    /\ UNCHANGED firmware

Upgrade ==
    /\ status = "idle" /\ ~trial
    /\ release' > release /\ trial' = TRUE
    /\ inherited' \subseteq Config /\ value \in inherited'
    /\ Forget
    /\ left \/ UNCHANGED value

Accept ==
    /\ status = "idle" /\ trial
    /\ trial' = FALSE
    /\ UNCHANGED <<config, release, inherited>>

Reject ==
    /\ status # "saving" /\ trial
    /\ release' < release /\ trial' = FALSE
    /\ Forget
    /\ value' \in inherited
    /\ UNCHANGED inherited

GoBack ==
    /\ status = "idle" /\ ~trial
    /\ release' < release /\ trial' = FALSE
    /\ Forget
    /\ value' \in Config
    /\ UNCHANGED inherited

(* A save may remove what a newer release left. *)
Overwrite ==
    /\ left /\ left' = FALSE
    /\ UNCHANGED <<config, firmware>>

Step ==
    \/ Boot \/ Persist \/ AnswerOk \/ AnswerError \/ PowerLoss \/ Reset
    \/ Upgrade \/ Accept \/ Reject \/ GoBack \/ Overwrite
    \/ \E c \in Config : Change(c)

Next == Step /\ (left' => left \/ release' < release)

Spec == Init /\ [][Next]_vars
=============================================================================
