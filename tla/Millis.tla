------------------------------- MODULE Millis -------------------------------
(***************************************************************************)
(* The clock of the firmware: millis() counts milliseconds in an unsigned  *)
(* word (2^32, after 49.7 days) and starts again at 0.  ControlPolicy.h    *)
(* compares times by their difference in that word.                        *)
(***************************************************************************)
EXTENDS Integers

CONSTANT Word       \* 2^32

ASSUME WordAssumption == Word \in Nat \ {0} /\ Word % 2 = 0

Moment == 0..(Word - 1)

(* An unsigned sum or difference. *)
Later(now, interval) == (now + interval) % Word
Elapsed(now, since) == (now - since) % Word

(* Mutant: the moments themselves are compared. *)
ElapsedAtLeastPlain(now, since, interval) == now >= since + interval

ElapsedAtLeast(now, since, interval) == Elapsed(now, since) >= interval

(* The difference taken as signed word is not negative. *)
DeadlineReached(now, deadline) == 2 * Elapsed(now, deadline) < Word
=============================================================================
