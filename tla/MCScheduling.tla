---------------------------- MODULE MCScheduling ----------------------------
(* Instances of Scheduling for TLC. *)
EXTENDS Scheduling, TLC

MCTries == [s \in Side |-> 1]

\* Three writes of the organizer, or two against one of the attendee, or two and two
\* faults, or one each and two faults.
MCBudgets == {<<3, 0, 0>>, <<2, 1, 0>>, <<2, 0, 2>>, <<1, 1, 2>>}

WhenSymmetry == Permutations(When)
=============================================================================
