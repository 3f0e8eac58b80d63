------------------------------ MODULE MCOutbox ------------------------------
(* Two messages written, saved, sent, resumed and deleted over two sessions;
   and a form filled in with a few keys.  The two share nothing: from the start
   one run explores the one or the other. *)
EXTENDS Outbox, ComposeForm, TLC

MCEnclosed == ("m1" :> <<"pic", "doc">>) @@ ("m2" :> <<"txt">>)
MCLinked == ("m1" :> <<<<"b", "b">>>>) @@ ("m2" :> <<>>)
MCAuthor == ("m1" :> <<"a", "b">>) @@ ("m2" :> <<"b", "a">>)
MCQuotation == ("m1" :> <<>>) @@ ("m2" :> <<<<"b">>>>)
MCKnown == <<<<"a", "a">>, <<"b", "comma", "a", "a">>>>
MCIdentities == {<<"home">>, <<"home", "work">>}

MCSaved ==
  [from |-> "work", lines |-> <<<<"a">>, <<>>>>,
   address |-> [f \in AddressField |-> IF f = "To" THEN <<"a", "b", "comma", "space">> ELSE <<>>]]

Entry(name, folder, dotted) == [name |-> name, folder |-> folder, dotted |-> dotted]
MCFolder ==
  ("top" :> [parent |-> "top", entries |-> <<Entry("sub", TRUE, FALSE), Entry("f", FALSE, FALSE), Entry(".h", FALSE, TRUE)>>])
    @@ ("sub" :> [parent |-> "top", entries |-> <<Entry("g", FALSE, FALSE)>>])

MCInit == Init /\ ComposeInit /\ identities = <<"home", "work">>

OutboxRest == compose = Closed /\ made = 0 /\ session = 1 /\ ~shown
FormRest == keys = 0

MCNext ==
  \/ FormRest /\ Next /\ UNCHANGED composeVars
  \/ OutboxRest /\ ComposeNextStep /\ UNCHANGED vars

MCSpec == MCInit /\ [][MCNext]_<<vars, composeVars>>
=============================================================================
