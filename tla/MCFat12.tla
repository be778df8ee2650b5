------------------------------ MODULE MCFat12 -------------------------------
(***************************************************************************)
(* A volume with sectors of four bytes and clusters of two sectors, whose  *)
(* FAT takes several sectors.  One file has three clusters that lie in no  *)
(* order, in a subdirectory; another fills its two clusters exactly.       *)
(***************************************************************************)
EXTENDS Fat12, TLC

EOF == 4095

\* Chains 7, 3, 6 and 4, 8 of two files, and the directory at 9.
Table ==
    [c \in 0 .. 11 |-> CASE c = 0 -> 4080 [] c = 7 -> 3 [] c = 3 -> 6 [] c = 4 -> 8
                         [] c \in {1, 6, 8, 9} -> EOF [] OTHER -> 0]

\* The same with cluster 5 for 3: its entry lies in two sectors of the FAT.
TableAcross ==
    [c \in 0 .. 11 |-> CASE c = 0 -> 4080 [] c = 7 -> 5 [] c = 5 -> 6 [] c = 4 -> 8
                         [] c \in {1, 6, 8, 9} -> EOF [] OTHER -> 0]

\* The root holds a file and a directory of the same name, and a volume label.
Volume ==
    (0 :> <<[name |-> "v", attributes |-> "VOLUME_ID", cluster |-> 0, size |-> 0],
            [name |-> "a", attributes |-> DIRECTORY, cluster |-> 9, size |-> 0],
            [name |-> "a", attributes |-> ARCHIVE, cluster |-> 4, size |-> 16]>>) @@
    (9 :> <<[name |-> ".", attributes |-> DIRECTORY, cluster |-> 9, size |-> 0],
            [name |-> "..", attributes |-> DIRECTORY, cluster |-> 0, size |-> 0],
            [name |-> "b", attributes |-> ARCHIVE, cluster |-> 7, size |-> 20]>>)

On(mnt, names) == [mnt |-> mnt, names |-> names]

\* Files, directories, names that lead nowhere, and a letter nobody mounts.
AllPaths == {On("H", <<>>), On("H", <<"a">>), On("H", <<"a", "b">>), On("H", <<"b">>),
             On("H", <<"b", "a">>), On("H", <<"a", "..", "a">>), On("H", <<"longname.txt">>),
             On("X", <<"a">>)}

UpToCluster == 0 .. ClusterSize

UpToFile == 0 .. 20

Offsets == 0 .. 21

\* The first volume meets what the theorems of Fat12Proofs assume, when no read
\* is longer than a cluster.
ASSUME MeetsHypotheses ==
    NoWrap /\ LenCleared /\ NamesFit /\ (Fat = Table /\ Lens = UpToCluster => SoundChains /\ ShortReads)

=============================================================================
