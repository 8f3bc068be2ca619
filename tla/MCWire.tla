------------------------------- MODULE MCWire -------------------------------
(***************************************************************************)
(* Messages for the checking of Wire: of every layout, a message of common   *)
(* values and those that differ from it in one field.                       *)
(***************************************************************************)
EXTENDS Wire

RECURSIVE Typical(_)
TypicalField(f) ==
    CASE f.kind = "u" -> 3
      [] f.kind = "bool" -> TRUE
      [] f.kind = "str" -> <<4, 2>>
      [] f.kind = "raw" -> [i \in 1..f.n |-> i % Base]
      [] f.kind = "many" -> <<Typical(f.of)>>
      [] f.kind \in {"opt", "trailer"} -> <<Typical(f.of)>>
      [] f.kind = "ip" -> [v6 |-> FALSE, mid |-> Typical(f.of), address |-> <<1, 0, 0, 7>>]
      [] f.kind = "filter" -> <<>>
Typical(fs) == [i \in 1..Len(fs) |-> TypicalField(fs[i])]

Tree(k, leaf, cs) == [node |-> k, leaf |-> leaf, children |-> cs]
ALeaf == Tree(LEAF, <<<<8>>, 1, <<2, 3>>>>, <<>>)
Trees == {ALeaf, Tree(AND, <<>>, <<>>), Tree(OR, <<>>, <<ALeaf, ALeaf>>), Tree(NOT, <<>>, <<>>),
          Tree(AND, <<>>, <<Tree(NOT, <<>>, <<ALeaf>>), ALeaf>>)}

\* Values of a field; the last of a number or a short length does not fit.
RECURSIVE Values(_)
Samples(fs) ==
    LET v == Typical(fs)
    IN  {v} \cup UNION {{[v EXCEPT ![i] = x] : x \in Values(fs[i])} : i \in DOMAIN fs}
Values(f) ==
    CASE f.kind = "u" -> {0, IF f.w = 1 THEN Base - 1 ELSE 2 * Base} \cup (IF f.w = 1 THEN {Base} ELSE {})
      [] f.kind = "bool" -> {FALSE}
      [] f.kind = "str" -> {<<>>} \cup (IF f.w = 1 THEN {[i \in 1..(Base + 1) |-> 1]} ELSE {})
      [] f.kind = "raw" -> {}
      [] f.kind = "many" ->
             {<<>>, <<Typical(f.of), Typical(f.of)>>} \cup {<<v>> : v \in Samples(f.of)}
      [] f.kind \in {"opt", "trailer"} -> {<<>>} \cup {<<v>> : v \in Samples(f.of)}
      [] f.kind = "ip" ->
             {[TypicalField(f) EXCEPT !.v6 = TRUE, !.address = [i \in 1..16 |-> i % Base]]}
             \cup {[TypicalField(f) EXCEPT !.mid = v] : v \in Samples(f.of)}
      [] f.kind = "filter" -> {<<e>> : e \in Trees}

Plain(op, stream, request, v) ==
    [opcode |-> op, stream |-> stream, request |-> request, value |-> v, key |-> 0, gov |-> <<>>,
     built |-> FALSE]

Bodies == UNION {{Plain(op, 2, TRUE, v) : v \in Samples(Layout[op])} : op \in DOMAIN Layout}

\* Encrypted answers, under the session's key and under another one; frames with
\* a governance block.
Config == Typical(ConfigResponse)
Sealed == {[Plain(\h0202, 2, FALSE, v) EXCEPT !.key = k] :
               v \in {Config, [Config EXCEPT ![9] = <<>>]}, k \in {3, 4}}
Entry(tag, n) == [tag |-> tag, value |-> [i \in 1..n |-> 6]]
Governed == {[Plain(\h0003, 7, TRUE, <<>>) EXCEPT !.gov = g] :
                 g \in {<<Entry(1, 24)>>, <<Entry(2, 5), Entry(4, 16)>>, <<Entry(3, 8), Entry(9, 0)>>}}

\* What build_governance_block can build; blocks whose length a byte can hold, as a
\* byte of the code would.
Built == {[Plain(\h0003, 7, TRUE, <<>>) EXCEPT !.gov = <<e>>, !.built = TRUE] :
              e \in {Entry(TRAFFIC_COLORING, 5), Entry(METHOD_METRICS, 8)}}

MCOffers == <<Bodies \cup Sealed \cup Governed \cup Built,
               {Plain(\h0004, 1, FALSE, <<>>),
                [Plain(\h0003, 7, TRUE, <<>>) EXCEPT !.gov = <<Entry(3, 8)>>]}>>
=============================================================================
