----------------------------- MODULE MCBootLink -----------------------------
(* BootLink with small files.  Messages is not used: the frames come from  *)
(* the host.                                                               *)
EXTENDS BootLink

NoMessages == {}
FactoryApp == {[part |-> "A", flag |-> 1, size |-> 2, sum |-> 5]}
NoApp == {[part |-> "A", flag |-> 0, size |-> 0, sum |-> 0]}
OldFlash == [p \in Partitions |-> [u \in Units |-> IF u = 0 THEN 3 ELSE 2]]

(* Three-unit blocks: one full and one that is padded.  The units differ,  *)
(* and no two sets of them have the same sum: a collision of the sums, one *)
(* in 65536 for a block, is left out.                                      *)
ShortFile == [u \in 0 .. 3 |-> 2 ^ u]
LongFile == [u \in 0 .. 6 |-> 2 ^ u]
(* One block that begins with a zero unit, as vector tables and padded     *)
(* sections do.                                                            *)
ZeroFile == [u \in 0 .. 2 |-> u]
=============================================================================
