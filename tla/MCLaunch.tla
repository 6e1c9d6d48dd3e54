------------------------------ MODULE MCLaunch ------------------------------
(* Small models, devices and engines for Launch.  Bytes are scaled so that  *)
(* the device has 100,000 of them: a ten-thousandth of it is ten.           *)
EXTENDS Launch

Caches ==
  { <<Attention(3, 4, 2, NoWindow)>>,
    <<MLA(40, 4, 2)>>,
    <<Recurrent(4, 2, 4, 2, 2)>>,
    <<Attention(1, 4, 1, NoWindow), Recurrent(4, 2, 4, 2, 2)>> }

WindowedCaches ==
  { <<Attention(3, 4, 2, 16)>>,
    <<Attention(2, 4, 1, NoWindow), Attention(2, 4, 1, 16)>> }

Models(caches) ==
  [ weights : {501, 70001}, hidden : {2}, intermediate : {8}, vocab : {5},
    maxpos : {64}, cache : caches ]

Devices ==
  [ total : {100000}, usable : {4500, 90000, 100000}, count : {2},
    critical : {{}, {3}, {20}} ]

RequestsFor(caches, skews, eager) ==
  [ model : Models(caches), gpu : Devices, length : {20, 50}, skew : skews,
    seqs : {1, 8}, maxlen : {32, 64}, tp : {1, 2, 4}, kv : KvDtypes, eager : eager ]

(* A skew of 300 is past what is left of the smaller budgets.               *)
GrowingRequests  == RequestsFor(Caches, {0}, BOOLEAN) \cup RequestsFor(Caches, {-100, 300}, {TRUE})
WindowedRequests == RequestsFor(WindowedCaches, {0}, BOOLEAN)

(* Versions by what they lack: nothing, one parameter, or the absolute      *)
(* lever and another.                                                       *)
Optional == {"tensor_parallel", "memory_fraction", "eager", "kv_budget", "kv_dtype"}
Lacking ==
  {{l} : l \in Optional} \cup {{"kv_budget", l} : l \in {"memory_fraction", "eager", "kv_budget"}}

Complete == Settings \cup Optional

Installed ==
  [ engine : {"vllm", "sglang"}, roles : {Complete, Complete \ {"kv_budget"}},
    choices : {{}, {"auto", "fp8"}, {"auto", "fp8_e4m3"}, {"auto"}} ]
  \cup
  [ engine : {"vllm", "sglang"}, roles : {Complete \ l : l \in Lacking}, choices : {{}} ]
=============================================================================
