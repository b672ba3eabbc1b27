------------------------------- MODULE MCIngest -------------------------------
(***************************************************************************)
(* Models of three nodes: any inputs among what is given and what the      *)
(* nodes produce, themselves included, a tensor twice, an optional one;    *)
(* nodes with two outputs, or one that has no name; tensors with two       *)
(* producers, and a result without a static shape.                         *)
(***************************************************************************)
EXTENDS Ingest

MCNames == {"x", "a", "b", "c", ""}

Inputs ==
  {<<t>> : t \in {"x", "a", "b", "c"}}
    \cup {<<t, t>> : t \in {"a", "b", "c"}}
    \cup {<<"x", "">>, <<"x", "a">>, <<"x", "b">>, <<"a", "b">>, <<"a", "c">>, <<"b", "c">>}

Node(ins, outs) == [ins |-> ins, outs |-> outs]

MCModels ==
  {[nodes |-> <<Node(i, o), Node(j, p), Node(k, {"c"})>>, given |-> {"x"}, dynamic |-> d] :
     i \in Inputs, j \in Inputs, k \in Inputs, o \in {{"a"}, {"a", "b"}, {"a", ""}},
     p \in {{"a"}, {"b"}, {"b", ""}}, d \in {{}, {"c"}}}
=============================================================================
