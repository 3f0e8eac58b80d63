----------------------------- MODULE MCCalSync -----------------------------
(* Instances of CalSync and of HostedCalendar for TLC. *)
EXTENDS CalSync, HostedCalendar, TLC

PagedSymmetry == Permutations(Uid) \cup Permutations(User)

(* The two sorts of calendar the sync thread works for share nothing: from the
   start, one run explores the one or the other. *)

MCInit == Init /\ HostedInit

\* The requests the bound allows are answered.
AllServed ==
  requests = MaxAsked /\ commit = NoCommit /\ editing = NoEdit /\ \A u \in User : serving[u] = NoServing

ThreadRest ==
  pc = "sleep" /\ acts = 0 /\ faults = 0 /\ token = 0 /\ form = NoForm /\ \A e \in Uid : srv[e].at = 0

MCNext ==
  \/ HostedInit /\ Next /\ UNCHANGED hostedVars
  \/ ThreadRest /\ HostedNext /\ UNCHANGED vars
  \/ AllServed /\ UNCHANGED <<vars, hostedVars>>

MCSpec == MCInit /\ [][MCNext]_<<vars, hostedVars>>
============================================================================
