------------------------------ MODULE MCClient ------------------------------
(***************************************************************************)
(* Small instances of Client.                                              *)
(***************************************************************************)
EXTENDS Client

Slave(server, pref) == [server |-> server, pref |-> pref]

(* The overloads of future_connect, with an empty list of slaves, a bad      *)
(* address and a slow server among them.                                    *)
MCCalls == {[master |-> TRUE, slaves |-> <<>>],
            [master |-> TRUE, slaves |-> <<Slave("s1", 1), Slave("s2", 2)>>],
            [master |-> FALSE, slaves |-> <<Slave("s1", 2)>>],
            [master |-> FALSE, slaves |-> <<Slave("s1", 1), Slave("bad", 1)>>],
            [master |-> FALSE, slaves |-> <<Slave("slow", 1)>>],
            [master |-> FALSE, slaves |-> <<>>]}
MCSlowCall == {[master |-> FALSE, slaves |-> <<Slave("slow", 1)>>]}
=============================================================================
