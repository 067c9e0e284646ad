--------------------------- MODULE MCWaitingRoom ---------------------------
(* Instances of WaitingRoom for TLC.  A request is a numbered one of a user. *)
EXTENDS WaitingRoom, TLC

CONSTANT PerUser  \* requests a user may have under way

MCRequests == Users \X (1 .. PerUser)

MCBy == [r \in MCRequests |-> r[1]]

RoomSymmetry == Permutations(Users) \cup Permutations(Tokens)
=============================================================================
