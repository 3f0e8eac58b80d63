---------------------------- MODULE SyncContract ----------------------------
(***************************************************************************)
(* What a collection promises the clients that synchronise with it (RFC    *)
(* 6578), whatever it is kept in: changes are numbered in the order in     *)
(* which they are made, and a client has, of every member whose last       *)
(* change it was told of, what the collection has.  No log, no tombstones, *)
(* no requests in several steps: the store has to look like this.          *)
(***************************************************************************)
EXTENDS Naturals

CONSTANTS Member, Reader, Document, Nothing

VARIABLES
  docs,     \* what the collection has under each name
  changedAt,  \* the number of the last change of each name
  count,    \* the number of the last change of all
  copy,     \* what each reader has under each name
  heard      \* the number up to which it was told; 0: it knows nothing

contractVars == <<docs, changedAt, count, copy, heard>>

ContractInit ==
  /\ docs = [m \in Member |-> Nothing] /\ changedAt = [m \in Member |-> 0] /\ count = 0
  /\ copy = [r \in Reader |-> [m \in Member |-> Nothing]] /\ heard = [r \in Reader |-> 0]

\* One member changes.  A reader that asked for it may note what it did.
Change ==
  /\ count' = count + 1
  /\ \E m \in Member, d \in Document \cup {Nothing} :
       /\ docs' = [docs EXCEPT ![m] = d]
       /\ changedAt' = [changedAt EXCEPT ![m] = count']
       /\ \/ UNCHANGED copy
          \/ \E r \in Reader : copy' = [copy EXCEPT ![r][m] = d]
  /\ UNCHANGED heard

\* Numbers are also given to the changes of other collections.
Elsewhere == count' = count + 1 /\ UNCHANGED <<docs, changedAt, copy, heard>>

\* What a reader may come to have when it has been told up to n.
Honest(r, n) == n # 0 => \A m \in Member : changedAt[m] <= n => copy'[r][m] = docs[m]

\* A reader is told of what has changed: never of less than it knew, unless it
\* starts over.
Tell(r) ==
  /\ \E n \in {0} \cup heard[r] .. count :
       /\ heard' = [heard EXCEPT ![r] = n]
       /\ \E c \in [Member -> Document \cup {Nothing}] : copy' = [copy EXCEPT ![r] = c]
       /\ Honest(r, n)
  /\ UNCHANGED <<docs, changedAt, count>>

\* The collection is removed, or a new one takes its name: what was known of
\* it is worth nothing.
Renew ==
  /\ docs' = [m \in Member |-> Nothing]
  /\ changedAt' \in {changedAt, [m \in Member |-> count]}
  /\ heard' = [r \in Reader |-> 0]
  /\ UNCHANGED <<count, copy>>

ContractNext == Change \/ Elsewhere \/ Renew \/ \E r \in Reader : Tell(r)

Contract == ContractInit /\ [][ContractNext]_contractVars

\* The promise, as it can be read off a state.
Kept ==
  \A r \in Reader, m \in Member :
    heard[r] # 0 /\ changedAt[m] <= heard[r] => copy[r][m] = docs[m]
=============================================================================
