------------------------- MODULE MCReservationRoute -------------------------
(* Instances of ReservationRoute for TLC: one submission, sent several      *)
(* times from one address under one key.                                    *)
EXTENDS ReservationRoute, TLC

CONSTANTS user, addr, key,
          PerUser  \* RATE_LIMIT_PER_USER_RESERVATION

MCUsers == {user}
MCKeys == {key}
MCClients == {user, addr}
MCLimit == (addr :> 2 @@ user :> PerUser)
MCBy == [r \in Requests |-> user]
MCFrom == [r \in Requests |-> addr]
MCKeyOf == [r \in Requests |-> key]

RouteSymmetry == Permutations(Requests)
=============================================================================
