----------------------------- MODULE MCBootFsm -----------------------------
(* BootFsm with a host that sends any of a few frames at any moment.       *)
EXTENDS BootFsm

(* Every shape a frame can take on partitions of NBlocks * NFrames units:  *)
(* sizes at and beyond both bounds, block and sequence numbers one too far,*)
(* units of one and two, and the sums those can make (and one more).       *)
AnyMessages ==
    [cmd : {"START"}, size : {0, 2, NBlocks * NFrames, NBlocks * NFrames + 1},
     fits : {TRUE}, frame8 : {TRUE}]
        \cup {[cmd |-> "START", size |-> 2, fits |-> FALSE, frame8 |-> TRUE],
              [cmd |-> "START", size |-> 2, fits |-> TRUE, frame8 |-> FALSE]}
        \cup [cmd : {"METADATA"}, sum : {3, 6}]
        \cup [cmd : {"DATA_START"}, block : 0 .. NBlocks]
        \cup [cmd : {"DATA"}, seq : Frames, unit : {1, 2}]
        \cup [cmd : {"DATA_END"}, sum : {2, 3}, unit : {1, 2}]
        \cup [cmd : {"VERIFY", "REBOOT", "CANCEL"}]

NoApp == {[part |-> "A", flag |-> 0, size |-> 0, sum |-> 0]}
FactoryApp == {[part |-> "A", flag |-> 1, size |-> 2, sum |-> 5]}
OldFlash == [p \in Partitions |-> [u \in Units |-> IF u = 0 THEN 3 ELSE 2]]
=============================================================================
