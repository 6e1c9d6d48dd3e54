----------------------------- MODULE MCWeights -----------------------------
(* Small repositories for Weights: files of at most two tensors, of two     *)
(* dtypes, and up to three shards.                                          *)
EXTENDS Weights

T(b, d, h) == [bytes |-> b, dtype |-> d, head |-> h]

Files == { <<>>,
           <<T(2, "BF16", FALSE)>>,
           <<T(3, "BF16", TRUE)>>,
           <<T(5, "F8", TRUE), T(7, "BF16", FALSE)>> }

SmallRepositories ==
  {r \in Repository(Files, 3) : r.index # "json" => r.shards = <<>>}
=============================================================================
