-------------------------- MODULE MCIngestStore --------------------------
(* Instances of IngestStore for TLC.                                       *)
EXTENDS IngestStore, TLC

CONSTANTS t1, t2, w1, w2, s1, s2, k1, k2, c1, c2, g1, g2

Symmetry == Permutations(Task) \cup Permutations(Worker)

(* One command for one source.                                             *)
OneGeneration == c1 :> g1
OneInput == c1 :> (s1 :> k1)

(* Two commands of different generations.  EditedInputs: a folder, then    *)
(* one of its two files after an edit.  FileThenFolder: one file, then the *)
(* folder that holds this file and another one.                            *)
TwoGenerations == c1 :> g1 @@ c2 :> g2
EditedInputs == c1 :> (s1 :> k1 @@ s2 :> k1) @@ c2 :> (s1 :> k2 @@ s2 :> NoKey)
FileThenFolder == c1 :> (s1 :> k1 @@ s2 :> NoKey) @@ c2 :> (s1 :> k1 @@ s2 :> k1)
=============================================================================
