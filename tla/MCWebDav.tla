------------------------------ MODULE MCWebDav ------------------------------
(* Instances of WebDav for TLC: two spaces, the second a mount of its own. *)
EXTENDS WebDav, TLC

MCPath == {<<"s">>, <<"s", "a">>, <<"s", "d">>, <<"s", "d", "a">>, <<"m">>, <<"m", "a">>}
MCTargets == {<<"s", "d">>, <<"s", "d", "a">>, <<"m", "a">>}
MCDests == {<<"s", "a">>, <<"m", "a">>}
MCLockRoots == {<<"s", "a">>, <<"s", "d">>, <<"s", "d", "a">>}
MCAccess == [c \in Client |-> [s \in {"s", "m"} |-> "write"]]

\* A collection with one file in it, and a file in the other space.
MCInitTrees ==
    {[p \in MCPath |->
        CASE Len(p) = 1 \/ p = <<"s", "d">> -> Dir
          [] p \in {<<"s", "d", "a">>, <<"m", "a">>} -> File(Nobody, "no")
          [] OTHER -> Absent]}

ClientSymmetry == Permutations(Client)
=============================================================================
