----------------------------- MODULE LaggedCopy -----------------------------
(***************************************************************************)
(* What replication promises in the absence of failures, without threads,  *)
(* connections or packets: one value that is written, and followers that   *)
(* copy it.  A follower may lag behind, but it goes through the versions   *)
(* of the value in the order in which they were written, omits none and    *)
(* makes up none.                                                          *)
(***************************************************************************)
EXTENDS Sequences

CONSTANTS Values, Followers

VARIABLES
    value,      \* the value itself
    copy,       \* what each follower holds
    pending,    \* versions each follower has still to adopt
    following   \* followers that have been brought up to date once

copyVars == <<value, copy, pending, following>>

\* What follower b holds once it has adopted everything pending.
Latest(b) == IF pending[b] = <<>> THEN copy[b] ELSE pending[b][Len(pending[b])]

CopyInit ==
    /\ value \in Values
    /\ copy \in [Followers -> Values]
    /\ pending = [b \in Followers |-> <<>>]
    /\ following = {}

\* A new version, which every follower is going to adopt.
Write ==
    /\ value' \in Values
    /\ pending' = [b \in Followers |->
                      IF b \in following THEN Append(pending[b], value')
                                         ELSE pending[b]]
    /\ UNCHANGED <<copy, following>>

Adopt(b) ==
    /\ b \in following /\ pending[b] # <<>>
    /\ copy' = [copy EXCEPT ![b] = Head(pending[b])]
    /\ pending' = [pending EXCEPT ![b] = Tail(@)]
    /\ UNCHANGED <<value, following>>

\* Until it follows, nothing is said of the copy.
Load(b) ==
    /\ b \notin following
    /\ \E v \in Values : copy' = [copy EXCEPT ![b] = v]
    /\ UNCHANGED <<value, pending, following>>

(***************************************************************************)
(* From the last packet of its snapshot on, b follows: what is on its way  *)
(* to it leads to the current value.                                       *)
(***************************************************************************)
Follow(b) ==
    /\ b \notin following
    /\ following' = following \cup {b}
    /\ pending' \in [Followers -> Seq(Values)]
    /\ \A d \in Followers \ {b} : pending'[d] = pending[d]
    /\ Latest(b)' = value
    /\ UNCHANGED <<value, copy>>

\* Followers that are cut off or stop; nothing more is said of their copies.
Leave(B) ==
    /\ B \subseteq following /\ B # {}
    /\ following' = following \ B
    /\ pending' = [b \in Followers |-> IF b \in B THEN <<>> ELSE pending[b]]
    /\ copy' \in [Followers -> Values]
    /\ \A b \in Followers \ B : copy'[b] = copy[b]
    /\ UNCHANGED value

CopyNext ==
    \/ Write
    \/ \E b \in Followers : Adopt(b) \/ Load(b) \/ Follow(b)
    \/ \E B \in SUBSET Followers : Leave(B)

CopySpec == CopyInit /\ [][CopyNext]_copyVars
=============================================================================
