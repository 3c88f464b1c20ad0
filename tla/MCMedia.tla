------------------------------ MODULE MCMedia -------------------------------
(* Instances of Media for TLC.                                             *)
EXTENDS Media, TLC

CONSTANTS gifs, still, big, ruse, t1, t2, t3, t4, t5

MCBlob == {gifs, still, big, ruse}
MCKind == gifs :> "gif" @@ still :> "image" @@ big :> "gif" @@ ruse :> "spoof"
MCSize == gifs :> 2 @@ still :> 1 @@ big :> 3 @@ ruse :> 1
MCCap == [gif |-> 2, image |-> 2, video |-> 4, file |-> 2]
Tok(id, verb, b, age, member) == [id |-> id, verb |-> verb, x |-> b, age |-> age, member |-> member]
MCToken == {Tok(t1, "upload", gifs, "young", TRUE), Tok(t2, "upload", still, "young", TRUE),
            Tok(t3, "upload", gifs, "old", TRUE), Tok(t4, "get", None, "young", TRUE),
            Tok(t5, "get", gifs, "young", FALSE)}
MCRange == {[start |-> None, end |-> e] : e \in {0, 3}}
             \cup {[start |-> 1, end |-> e] : e \in {0, 1}}
             \cup {[start |-> s, end |-> None] : s \in {1, 2}}

Symmetry == Permutations(Upload)
============================================================================
