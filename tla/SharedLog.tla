----------------------------- MODULE SharedLog -----------------------------
(***************************************************************************)
(* What synchronising a Node promises: the relay keeps one log that only   *)
(* ever gains updates that some peer really made, and a replica shows its  *)
(* own updates at once and other updates only after they are in the log.   *)
(* A replica may be discarded and rebuilt at any time.                     *)
(*                                                                         *)
(* The abstract specification NodeSync is shown to implement; the code it  *)
(* abstracts is mapped there.                                              *)
(***************************************************************************)
CONSTANTS Peer, Update
VARIABLES written, log, replica

vars == <<written, log, replica>>

Init ==
  /\ written = {}
  /\ log = {}
  /\ replica = [p \in Peer |-> {}]

(* A peer makes an update and sees it before anybody else does. *)
Write(p, u) ==
  /\ u \notin written /\ u.peer = p
  /\ written' = written \cup {u}
  /\ replica' = [replica EXCEPT ![p] = @ \cup {u}]
  /\ UNCHANGED log

Publish(us) ==
  /\ us \subseteq written
  /\ log' = log \cup us
  /\ UNCHANGED <<written, replica>>

Deliver(p, us) ==
  /\ us \subseteq log
  /\ replica' = [replica EXCEPT ![p] = @ \cup us]
  /\ UNCHANGED <<written, log>>

Discard(p) ==
  /\ replica' = [replica EXCEPT ![p] = {}]
  /\ UNCHANGED <<written, log>>

Next ==
  \/ \E us \in SUBSET written : Publish(us)
  \/ \E p \in Peer :
       \/ \E u \in Update : Write(p, u)
       \/ \E us \in SUBSET log : Deliver(p, us)
       \/ Discard(p)

Spec == Init /\ [][Next]_vars
=============================================================================
