----------------------------- MODULE Clipboard -----------------------------
(***************************************************************************)
(* What the pasteboard service promises about the clip of each user,       *)
(* whatever its threads do: a clip enters the board only by being copied   *)
(* (locally or from a peer device), a read may replace it only while it is *)
(* still waiting for delayed content, and once it is erased nothing but a  *)
(* new copy brings content back.  ClipStore implements this specification. *)
(*                                                                         *)
(* board[u] is the clip of user u (NoClip when there is none); last[u]     *)
(* numbers the copies made for u.  A clip is a record with at least        *)
(*   copy   the number of the copy it descends from                        *)
(*   delay  its whole content is still to be asked from the copying app    *)
(*   rec    some of its records hold entries fetched on demand             *)
(***************************************************************************)
EXTENDS Integers

CONSTANTS Users, NoClip

VARIABLES board, last

vars == <<board, last>>

Init ==
  /\ board = [u \in Users |-> NoClip]
  /\ last = [u \in Users |-> 0]

\* Content that a read is still allowed to complete.
Pending(c) == c.delay \/ c.rec

\* Only the clip of user u may change in a step.
OnlyUser(u) == \A v \in Users \ {u} : board'[v] = board[v]

Copy(u) ==
  /\ last' = [last EXCEPT ![u] = @ + 1]
  /\ board'[u] # NoClip
  /\ board'[u].copy = last[u] + 1
  /\ OnlyUser(u)

Resolve(u) ==
  /\ board[u] # NoClip
  /\ Pending(board[u])
  /\ board'[u] # NoClip
  /\ board'[u].copy \in 1..last[u]
  /\ OnlyUser(u)
  /\ UNCHANGED last

Erase(u) ==
  /\ board'[u] = NoClip
  /\ OnlyUser(u)
  /\ UNCHANGED last

Next == \E u \in Users : Copy(u) \/ Resolve(u) \/ Erase(u)

Spec == Init /\ [][Next]_vars
=============================================================================
