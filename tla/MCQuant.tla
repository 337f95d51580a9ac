------------------------------ MODULE MCQuant ------------------------------
(***************************************************************************)
(* TLC instance of emit_quant: topologies with every relation of key and   *)
(* value heads, each kind of tensor with one to three outputs and one to   *)
(* three groups, and tensors that are not regular: inputs that end inside  *)
(* a group, a block or a word of zero rows, dimensions other than the      *)
(* heads', slices shorter or longer than their shape.                      *)
(***************************************************************************)
EXTENDS EmitQuant

T(num_k, num_v, head_k, head_v) ==
  [num_k |-> num_k, num_v |-> num_v, head_k |-> head_k, head_v |-> head_v]

\* A tensor of packed * 8 inputs and outs outputs; code i * outs + o is the one
\* of input i and output o.  more is what the slice has beyond its shape.
Q(packed, outs, more) ==
  [shape |-> <<packed, outs>>,
   words |-> [n \in Indices(packed * outs + more) |->
                [k \in Indices(WORD) |-> (WORD * (n \div outs) + k) * outs + (n % outs)]]]

S(groups, outs, more, dtype) ==
  [shape |-> <<groups, outs>>, dtype |-> dtype,
   elems |-> [n \in Indices(groups * outs + more) |-> n]]

J(kind, topo, packed, outs, qmore, smore) ==
  [kind |-> kind, topo |-> topo, q |-> Q(packed, outs, qmore),
   s |-> S((packed * WORD) \div GROUP_SIZE, outs, smore, "F16")]

Any == T(2, 4, 1, 16)

TrunkJobs ==
  {J("QuantTrunk", Any, packed, outs, 0, 0) :
     packed \in {0, 1, 4, 5, 8, 16, 17, 20, 32, 48}, outs \in 1..3}
  \cup {J("QuantTrunk", Any, 16, 2, qmore, smore) : qmore \in {-1, 0, 1}, smore \in {-1, 0, 1}}
  \cup {[J("QuantTrunk", Any, 16, 2, 0, 0) EXCEPT !.s = S(g, o, 0, "F16")] :
          g \in 1..2, o \in 1..2}

RowTopos == {T(2, 4, 1, 16), T(1, 2, 2, 16), T(2, 2, 1, 16), T(2, 6, 1, 16), T(3, 6, 0, 16)}

RowJobs ==
  UNION {{J("QuantVRowZ", t, 16, t.num_v * t.head_v, 0, 0),
          J("QuantVRowZ", t, 16, t.num_v * t.head_v - 1, 0, 0),
          J("QuantVRowQkv", t, 16, t.num_v * t.head_v + 2 * t.num_k * t.head_k, 0, 0),
          J("QuantVRowQkv", t, 16, t.num_v * t.head_v + t.num_k * t.head_k + 1, 0, 0)} :
           t \in RowTopos}
  \cup {J("QuantVRowZ", T(1, 2, 1, 16), packed, 32, 0, smore) :
          packed \in {4, 20, 32}, smore \in {-1, 0}}

ColTopos == {T(2, 8, 1, 16), T(4, 8, 1, 16), T(1, 8, 1, 16), T(2, 4, 1, 32), T(2, 4, 1, 64),
             T(2, 16, 1, 16), T(4, 8, 1, 32), T(8, 8, 1, 16), T(2, 6, 1, 64), T(3, 6, 1, 64),
             T(2, 8, 1, 48), T(2, 10, 1, 16), T(2, 4, 1, 16)}

ColJobs ==
  {J("QuantVCol", t, (t.num_v * t.head_v) \div WORD, outs, 0, 0) : t \in ColTopos, outs \in 1..2}
  \cup {J("QuantVCol", t, 16, 1, 0, 0) : t \in ColTopos}
  \cup {J("QuantVCol", T(2, 8, 1, 16), 16, 2, qmore, smore) : qmore \in {0, 1}, smore \in -1..1}
  \cup {J("QuantVCol", T(2, 10, 1, 16), 20, 2, 0, smore) : smore \in 1..3}

MCJobs == TrunkJobs \cup RowJobs \cup ColJobs

\* Checkpoints whose scales are stored in another 16-bit or in a 32-bit format:
\* the u16 stream of the latter has two elements for each scale.
ScaleDtypes ==
  {[J("QuantTrunk", Any, 16, outs, 0, 0) EXCEPT !.s.dtype = dtype] :
     outs \in 1..3, dtype \in {"F16", "BF16"}}
  \cup {[J("QuantVCol", T(2, 8, 1, 16), 16, outs, 0, outs) EXCEPT !.s.dtype = "F32"] :
          outs \in 1..3}
=============================================================================
