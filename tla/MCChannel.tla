------------------------------ MODULE MCChannel ------------------------------
(* Instances of Channel for TLC. *)
EXTENDS Channel, TLC

CONSTANTS t1, t2, t3, c1, c2

On(how, x, y, other) == [how |-> how, clause |-> (c1 :> x @@ c2 :> y), other |-> other]

MCSize == c1 :> 0 @@ c2 :> 1

MCMaxCalls == t1 :> 2 @@ t2 :> 1 @@ t3 :> 1

MCCalls ==
  t1 :> {On("or", "remove", "insert", "none"), On("block", "none", "insert", "none")}
  @@ t2 :> {On("or", "insert", "remove", "timeout"), On("or", "insert", "remove", "else"),
            On("close", "none", "remove", "none")}
  @@ t3 :> {On("and", "insert", "remove", "none"), On("block", "none", "remove", "none"),
            On("try", "remove", "none", "none")}
=============================================================================
