------------------------------ MODULE MCRecast ------------------------------
(***************************************************************************)
(* TLC instance of recast: every tier, with and without --force-rescale,   *)
(* over tensors whose values sit on and around the band limits, NaN and    *)
(* infinity, rows of up to nine elements, empty and one-row shapes,        *)
(* passthrough types, a preserved name, KV sections with empty, duplicated *)
(* and left-over keys, and runs whose output is their input.               *)
(***************************************************************************)
EXTENDS Recast

T(name, dtype, shape, rows) ==
  [name |-> name, dtype |-> dtype, shape |-> shape, rows |-> rows]

Vec(name, a, b) == T(name, T_BF16, <<2>>, <<<<a, b>>>>)
Mat(name, a, b, c, d) == T(name, T_BF16, <<2, 2>>, <<<<a, b>>, <<c, d>>>>)

Lone(n) ==
  {Vec(n, 1, 2048), Vec(n, 2064, 4080), Vec(n, 3, 4096), Vec(n, INF, 7), Vec(n, NAN, 7),
   Mat(n, 0, 0, 0, 0), Mat(n, 0, 5, 1, 2048), Mat(n, 1, 4080, 2064, 2064),
   Mat(n, 8192, -2, 4096, 4096), Mat(n, INF, 1, INF, -INF), Mat(n, NAN, 4096, 0, 1),
   T(n, T_BF16, <<3, 1>>, <<<<2048, 1, 4096>>>>), T(n, T_BF16, <<0, 1>>, <<>>),
   T(n, T_BF16, <<2, 0>>, <<>>),
   T(n, T_BF16, <<4, 1>>, <<<<2048, -1999, -4096, 7>>>>),
   T(n, T_BF16, <<9, 1>>, <<<<2048, -1999, -4096, 7, 0, 15, -4000, 1, 300>>>>),
   T(n, T_BF16, <<5, 2>>, <<<<MaxFinite, 1, MaxFinite, -3, 4>>, <<9, -100, 31, 4080, NAN>>>>)}

Pair(n) ==
  {Vec(n, 3, 4096), Mat(n, 0, 5, 4096, 2048), T(n, T_F32, <<3>>, <<>>),
   T(n, T_Q8_0, <<32>>, <<>>)}

Files ==
  {<<>>} \cup {<<t>> : t \in Lone("a")} \cup {<<Mat("keep", 1, 4096, 2, 3)>>}
  \cup {<<t, u>> : t \in Pair("a"), u \in Pair("b")}
  \cup {<<Vec("a", 1, 1), Vec("a", 1, 1)>>}

Kv(key, form) == [key |-> key, form |-> form]

Plain == <<Kv("x", "empty string"), Kv(ARCH, "string"), Kv("y", "scalar")>>

OddKvs ==
  {<<Kv("y", "scalar")>>,
   <<Kv(ARCH, "scalar"), Kv(ARCH, "string")>>,
   <<Kv(ARCH, "empty string"), Kv("x", "empty array")>>,
   <<Kv(ARCH, "string"), Kv("y", "scalar"), Kv("y", "array")>>,
   <<Kv(ARCH, "string"), Kv("recast.tier", "string")>>,
   <<Kv(ARCH, "string"), Kv("recast.force_rescale", "scalar")>>}

AllTiers == {"dry-run", "T1", "T2", "T4", "T5"}

MCJobs ==
  [tier : AllTiers, force : BOOLEAN, inplace : {FALSE}, kvs : {Plain}, tensors : Files]
  \cup [tier : {"dry-run", "T2"}, force : BOOLEAN, inplace : {FALSE}, kvs : OddKvs,
        tensors : {<<>>, <<Vec("a", 3, 4096)>>}]
  \cup [tier : {"dry-run", "T2", "T4"}, force : {FALSE}, inplace : {TRUE}, kvs : {Plain},
        tensors : {<<>>, <<T("a", T_BF16, <<0, 1>>, <<>>), Mat("b", 0, 5, 4096, 2048)>>}
                  \cup {<<t>> : t \in Pair("a") \cup {T("a", T_BF16, <<0, 1>>, <<>>)}}]

MCKeys == {ARCH, "x", "y", "recast.tier", "recast.force_rescale",
           "recast.scales.names", "recast.scales.values",
           "recast.hadamard.names", "recast.hadamard.values",
           "recast.per_channel.names", "recast.per_channel.lengths",
           "recast.per_channel.values"}
MCNames == {"a", "b", "keep"}
MCSizes == {0, 4, 6, 8, 12, 18, 20, 34}
MCHeaderLens == {31}
MCTornAt == {0, 5}
MCReplaceWith == {0, -4096, INF}
MCPreserved == {"keep"}
=============================================================================
