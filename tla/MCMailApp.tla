------------------------------ MODULE MCMailApp ------------------------------
(***************************************************************************)
(* Instance of MailApp: two accounts; a conversation of two messages and a *)
(* newer single one still to come, a message of the other account, a draft *)
(* with the subject of the conversation, and one that may be saved.        *)
(***************************************************************************)
EXTENDS MailApp, TLC

MCEmail == 1 .. 4 \cup {-1, -2}
MCDrafted == {-1}
MCBox == [m \in 1 .. 4 |-> IF m = 4 THEN <<2, 2>> ELSE <<1, 2>>]
Start0 == [m \in Email |-> 0]
MCMessageId == [m \in Email |-> IF m > 0 THEN m ELSE 0]
MCInReplyTo == [Start0 EXCEPT ![2] = 1, ![-1] = 2]
MCReferences == [m \in Email |-> IF m = 2 THEN <<1>> ELSE <<>>]
MCSubject == [m \in Email |-> IF m \in {3, 4} THEN 2 ELSE 1]
MCDate == [m \in Email |-> IF m < 0 THEN 20 - m ELSE m]
MCAvailable == 1 :> {1, 2, 3} @@ 2 :> {1, 2}
MCConfigured == 1 :> <<3, 2, 3>> @@ 2 :> <<>>

Listing == 1 .. 4

Threads(irt, refs, subj) ==
  INSTANCE MailThreads
    WITH Email <- Listing, InReplyTo <- irt, References <- refs, Subject <- subj

\* However four messages cite one another, in circles too, and whatever their
\* subjects are, build_threads finds the conversations their headers make.
ThreadsAreConversations ==
  \A irt \in {f \in [Listing -> 0 .. 4] : f[1] = 0 /\ \A i \in Listing : f[i] # i},
     subj \in {f \in [Listing -> {1, 2}] : f[1] = 1},
     refs \in {[none EXCEPT ![4] = r] : none \in [Listing -> {<<>>}], r \in {<<>>, <<2, 3>>}} :
    Threads(irt, refs, subj)!ConversationsAre(Listing)

\* What belongs together is shown together, and the cursor stays where it was put.
RowsHold == ThreadsAreConversations /\ CursorsStay
=============================================================================
