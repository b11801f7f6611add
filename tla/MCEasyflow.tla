----------------------------- MODULE MCEasyflow -----------------------------
(***************************************************************************)
(* Drawings for TLC.  ForkAndJoin: a fork f with the branches a, then x,   *)
(* and b, a join j and a last task z, with every subset of the optional    *)
(* edges and several types for f, a, b and j.  LongBranch: a branch of two *)
(* tasks that may be skipped.  Defective: drawings a validator must refuse *)
(* and drawings with edges on top of each other.                           *)
(***************************************************************************)
EXTENDS EasyflowProcess, TLC

CONSTANTS s, f, a, b, x, j, z, e

Edge(no, src, dst, expr) == [no |-> no, src |-> src, dst |-> dst, expr |-> expr]

Typed(F, A, B, J) ==
    {s :> "start" @@ e :> "end" @@ z :> "user" @@ x :> "user" @@ f :> tf @@ a :> ta @@ b :> tb @@ j :> tj
       : tf \in F, ta \in A, tb \in B, tj \in J}

Ends == {Edge(1, s, f, ""), Edge(2, j, z, ""), Edge(12, z, e, "")}
Optional == {Edge(3, f, a, "p"), Edge(4, f, b, "q"), Edge(5, f, j, "r"),
             Edge(6, a, x, "p"), Edge(7, a, j, "r"), Edge(8, x, j, ""),
             Edge(9, b, j, "q"), Edge(10, b, z, "r")}

ForkAndJoin ==
    {[type |-> t, edges |-> Ends \union E] :
        t \in Typed({"parallel", "selective", "condition", "inclusion"}, {"user", "condition"},
                    {"user", "condition", "automation"}, {"parallel", "inclusion", "condition"}),
        E \in SUBSET Optional}

LongBranch ==
    {[type |-> t,
      edges |-> {Edge(1, s, f, ""), Edge(2, f, a, ""), Edge(3, f, b, ""), Edge(4, a, x, "p"),
                 Edge(5, x, z, ""), Edge(6, z, j, ""), Edge(7, b, j, "q"), Edge(8, j, e, "")}]
       : t \in Typed({"selective"}, {"condition"}, {"condition"}, {"parallel", "inclusion"})}

\* An exclusive choice between a and j, and one or two more edges
Choice == {Edge(1, s, f, ""), Edge(2, j, z, "t"), Edge(3, f, a, "p"), Edge(4, f, j, "r"),
           Edge(5, a, j, ""), Edge(12, z, e, "")}
More == {Edge(0, f, a, ""), Edge(6, f, a, "q"), Edge(7, a, a, ""), Edge(8, j, a, "u"),
         Edge(9, j, "ghost", ""), Edge(10, f, j, "p"), Edge(11, a, s, ""), Edge(13, e, z, "")}
Defective ==
    {[type |-> [n \in {s, f, a, j, z, e} |->
                  CASE n = s -> "start" [] n = f -> "condition" [] n = j -> "condition"
                    [] n = e -> "end" [] n = z -> tz [] OTHER -> ta],
      edges |-> Choice \union E] :
        tz \in {"user", "start", "end"}, ta \in {"user", "unknown"},
        E \in {E \in SUBSET More : Cardinality(E) <= 2}}

AllDrawings == ForkAndJoin \union LongBranch \union Defective
=============================================================================
