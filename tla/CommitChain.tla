---------------------------- MODULE CommitChain ----------------------------
(***************************************************************************)
(* What the synchronisation protocol promises of the shared file, whatever *)
(* the network does: its versions form one chain, in which every version   *)
(* was derived from the one it replaced, so that no device's publication   *)
(* is overwritten unseen; and what a device takes for the common base is   *)
(* always a version of that chain, and only ever moves forward in it.      *)
(***************************************************************************)
EXTENDS Naturals, Sequences

CONSTANTS Device, None

VARIABLES chain,   \* the versions of the file, oldest first
          seen     \* seen[d]: the version device d last confirmed, or None

vars == <<chain, seen>>

Head0 == IF chain = <<>> THEN None ELSE chain[Len(chain)].commit

Init == chain = <<>> /\ seen = [d \in Device |-> None]

(* A new version takes the place of the one it names as its parent.        *)
Publish ==
  /\ \E i \in DOMAIN chain' :
       /\ chain' = Append(chain, chain'[i])
       /\ chain'[i].parent = Head0
       /\ \A j \in DOMAIN chain : chain[j].commit # chain'[i].commit
  /\ UNCHANGED seen

(* A device adopts a version no older than the one it had.                 *)
Confirm(d) ==
  /\ \E n \in DOMAIN chain :
       /\ \A m \in DOMAIN chain : chain[m] = seen[d] => m <= n
       /\ seen' = [seen EXCEPT ![d] = chain[n]]
  /\ UNCHANGED chain

Next == Publish \/ \E d \in Device : Confirm(d)

Spec == Init /\ [][Next]_vars
=============================================================================
