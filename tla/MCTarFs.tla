------------------------------- MODULE MCTarFs -------------------------------
(* Instances of TarFs for TLC: archives with blocks of two bytes. *)
EXTENDS TarFs

Dir(name) == [name |-> name, size |-> 0]
File(name, size) == [name |-> name, size |-> size]

(* Two directories, one empty, and a file, in every order of the three.    *)
(* Sizes 2 and 4 fill their last block.                                    *)
Flat ==
    {FlattenSeq(parts) : parts \in UNION {
        SetToSeqs({ <<Dir(<<"bin">>), File(<<"bin", "ls">>, s), File(<<"bin", "sh">>, 1)>>,
                    <<Dir(<<"etc">>)>>,
                    <<File(<<"motd">>, m)>> }) : s \in {1, 4}, m \in {2, 3}}}

(* A directory in a directory *)
Nested == {<<Dir(<<"lib">>), Dir(<<"lib", "x">>), File(<<"lib", "x", "a">>, s),
             File(<<"lib", "b">>, 1)>> : s \in {1, 2}}

AllArchives == Flat \cup Nested

(* A block of data starts with a zero byte, or with some other name; its   *)
(* size field may be anything.                                             *)
DataAsHeader == {Dir(<<>>), File(<<>>, 1), File(<<"data">>, 3), File(<<"data">>, 99)}
=============================================================================
