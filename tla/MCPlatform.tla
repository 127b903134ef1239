----------------------------- MODULE MCPlatform -----------------------------
(***************************************************************************)
(* Platform on a small instance.                                           *)
(***************************************************************************)
EXTENDS Platform

MCSeedBalance == [u \in Users |-> IF u = CHOOSE v \in Users : TRUE THEN 1 ELSE 0]

\* Release "v2" has two files in each database; "edited" has changed the first.
MCFiles ==
    LET first  == [version |-> 1, checksum |-> "a"]
        second == [version |-> 2, checksum |-> "a"]
    IN  [r \in Releases |->
            [d \in Databases |->
                IF r = "v2" THEN <<first, second>> ELSE <<[first EXCEPT !.checksum = "b"]>>]]

MCDatabaseOf == [s \in Services \ {"fraud"} |-> 1]
=============================================================================
