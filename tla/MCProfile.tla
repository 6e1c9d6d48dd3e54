------------------------------ MODULE MCProfile -----------------------------
(* Names, devices and configs for Profile, of a few layers each.            *)
EXTENDS Profile

Name(key, names, inside) == [key |-> key, names |-> names, inside |-> inside]
Exact     == Name({"h100"}, {}, {"h100", "h100-nvl"})
Product   == Name({}, {"a10"}, {})
Ambiguous == Name({}, {}, {"h100", "h100-nvl"})
Foreign   == Name({}, {}, {})

MCEntries == {"a10", "h100", "h100-nvl"}

OneDevice ==
  [name : {Product, Foreign}, visible : {0, 1}, free : {0, 7, 8}]
ManyDevices == [name : {Product, Foreign}, visible : {0, 1, 2}, free : {0, 8}]

MCCommands ==
  [key : {{}}, gpus : {1}, tp : {1, 2}, lengths : {TRUE}]
    \cup [key : {{Exact}, {Ambiguous}}, gpus : {0, 1, 2}, tp : {2}, lengths : {TRUE}]
    \cup [key : {{Exact}}, gpus : {1}, tp : {1}, lengths : {FALSE}]

Plain ==
  [ layers |-> 3, hidden |-> 4, heads |-> 2, headDim |-> 0, kvHeads |-> 0, vocab |-> 5,
    maxpos |-> 0, inner |-> 0, rank |-> 0, rope |-> 0, pattern |-> <<>>, types |-> <<>>,
    window |-> 0, disabled |-> FALSE,
    mamba |-> [inner |-> 0, groups |-> 1, state |-> 2, conv |-> 2],
    moe |-> [experts |-> 0, topk |-> 0, shared |-> 0, dense |-> 0, width |-> 0] ]

Layouts ==
  { [Plain EXCEPT !.layers = layers, !.heads = heads, !.kvHeads = kv, !.rank = rank,
                  !.rope = rope, !.pattern = pattern, !.types = types, !.window = window,
                  !.disabled = disabled, !.mamba.state = state] :
      layers \in {0, 3}, heads \in {2, 3}, kv \in {0, 1}, rank \in {0, 4}, rope \in {0, 2},
      pattern \in {<<>>, <<"*", "M", "-">>, <<"-">>, <<"*", "*", "M", "M">>},
      types \in {<<>>, <<"full", "sliding", "sliding">>, <<"other">>},
      window \in {0, 2}, disabled \in BOOLEAN, state \in {0, 2} }

Experts ==
  { [Plain EXCEPT !.moe = moe] :
      moe \in [experts : {0, 4}, topk : {0, 1, 3, 5}, shared : {0, 1, 2}, dense : {0, 1, 4},
               width : {0, 2}] }

MCConfigs == Layouts \cup Experts
=============================================================================
