------------------------------- MODULE Vault -------------------------------
(***************************************************************************)
(* What the application promises about a user's stored credentials,        *)
(* without screens, encryption or callbacks: a user asks for a whole       *)
(* credential to be stored under an id, requests are carried out one at a  *)
(* time in the order they were made or refused, and when the application   *)
(* dies a prefix of the outstanding requests has been carried out.         *)
(***************************************************************************)
EXTENDS Sequences, Naturals

CONSTANTS Users, Ids, ValidCredentials, Nil

VARIABLES
  store,    \* user -> id -> the credential stored, or nil
  pending   \* requests outstanding, oldest first

vaultVars == <<store, pending>>

Requests == [user : Users, id : Ids, cred : ValidCredentials]

Init ==
  /\ store = [u \in Users |-> [id \in Ids |-> Nil]]
  /\ pending = <<>>

\* Request i is the newest of the first n for this user and id.
Newest(i, u, id, n) ==
  /\ pending[i].user = u /\ pending[i].id = id
  /\ \A j \in (i+1)..n : ~(pending[j].user = u /\ pending[j].id = id)

\* The store after the first n requests.
Applied(n) ==
  [u \in Users |-> [id \in Ids |->
     IF \E i \in 1..n : Newest(i, u, id, n)
     THEN pending[CHOOSE i \in 1..n : Newest(i, u, id, n)].cred
     ELSE store[u][id]]]

Request ==
  /\ \E r \in Requests : pending' = Append(pending, r)
  /\ UNCHANGED store

Commit ==
  /\ pending # <<>>
  /\ store' = Applied(1)
  /\ pending' = Tail(pending)

Refuse ==
  /\ pending # <<>>
  /\ pending' = Tail(pending)
  /\ UNCHANGED store

Restart ==
  /\ \E n \in 0..Len(pending) : store' = Applied(n)
  /\ pending' = <<>>

Next == Request \/ Commit \/ Refuse \/ Restart

Spec == Init /\ [][Next]_vaultVars

=============================================================================
