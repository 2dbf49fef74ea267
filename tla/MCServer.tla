------------------------------ MODULE MCServer ------------------------------
(* Instances of Server for TLC. *)
EXTENDS Server

CONSTANTS rw, w1

OnePool == [w \in Worker |-> rw]

Setting(bouncing, n, f, u) ==
    [bouncer |-> bouncing, requests |-> n, faults |-> f, unguarded |-> u]

\* Sessions with requests and faults, and a bouncer without either; in the
\* program as it is and behind its panics.
SessionsAndBouncer ==
    {Setting(FALSE, 2, 1, TRUE), Setting(FALSE, 1, 1, FALSE),
     Setting(TRUE, 0, 0, TRUE), Setting(TRUE, 0, 0, FALSE)}
AsItIs == {Setting(FALSE, 2, 0, TRUE)}
BouncerAsItIs == {Setting(TRUE, 0, 0, TRUE)}
\* Clients that connect one after the other and stay, to look at the bouncer.
OneByOne ==
    \A c \in Conn : /\ client[c] \in {"off", "dial", "open"}
                    /\ client[c] # "off" => \A d \in 1..(c - 1) : conn[d]

=============================================================================
