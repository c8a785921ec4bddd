---------------------------- MODULE MCBootLoader ----------------------------
(* BootLoader with three firmware files on partitions of two units.  All   *)
(* their units differ and no two sets of them have the same sum, so only a *)
(* file has a file's sum.                                                  *)
EXTENDS BootLoader

BothBuilds == BOOLEAN
Factory == <<1, 2>>
BadVectors == <<4, 8>>
Short == <<16>>
AllFiles == {Factory, BadVectors, Short}
LegalVectors == {1, 16}

FactoryMeta == {[part |-> "A", flag |-> 0, size |-> 2, sum |-> 3]}
FactoryOrNone == FactoryMeta \cup {[part |-> "A", flag |-> 0, size |-> 0, sum |-> 0]}
FactoryFlash == [p \in Partitions |-> [u \in Units |-> IF p = "A" THEN Factory[u + 1] ELSE 99]]

(* The frames of a session with any of the files.                          *)
HostFrames ==
    {[cmd |-> "START", size |-> Len(f), fits |-> TRUE, frame8 |-> TRUE] : f \in Files}
        \cup {[cmd |-> "METADATA", sum |-> SumFunction(f)] : f \in Files}
        \cup [cmd : {"DATA_START"}, block : 0 .. NBlocks - 1]
        \cup UNION {{[cmd |-> "DATA_END", sum |-> f[i], unit |-> f[i]] : i \in DOMAIN f} : f \in Files}
        \cup [cmd : {"VERIFY", "REBOOT", "CANCEL"}]
=============================================================================
