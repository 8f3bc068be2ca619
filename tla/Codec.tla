-------------------------------- MODULE Codec --------------------------------
(***************************************************************************)
(* BinaryWriter and BinaryReader (codec.py) over sequences of bytes.  A      *)
(* message is a sequence of values; its layout is a sequence of fields, one  *)
(* for each write_ or read_ call, loop or test in the code:                  *)
(*                                                                          *)
(*   U(w)         an unsigned number of w bytes, written modulo Base^w       *)
(*   Bool         a byte that is 1 or not                                    *)
(*   Str(w)       bytes after their length, a U(w)                           *)
(*   Raw(n)       exactly n bytes                                            *)
(*   Many(w, fs)  messages of layout fs after their number, a U(w)           *)
(*   Opt(fs)      a Bool, and a message of layout fs if it is 1              *)
(*   Trailer(fs)  an Opt that may be missing at the end of the message       *)
(*   Ip(w, k, fs) an address type of w bytes, a message of layout fs, then   *)
(*                the address, whose length the type tells                   *)
(*   Filter(w)    a filter expression, or nothing, after its length, a U(w)   *)
(***************************************************************************)
EXTENDS Bytes, SequencesExt

U(w) == [kind |-> "u", w |-> w]
Bool == [kind |-> "bool"]
Str(w) == [kind |-> "str", w |-> w]
Raw(n) == [kind |-> "raw", n |-> n]
Many(w, fs) == [kind |-> "many", w |-> w, of |-> fs]
Opt(fs) == [kind |-> "opt", of |-> fs]
Trailer(fs) == [kind |-> "trailer", of |-> fs]
\* codes: the numbers that stand for IPv4 and IPv6
Ip(w, codes, fs) == [kind |-> "ip", w |-> w, codes |-> codes, of |-> fs]

Filter(w) == [kind |-> "filter", w |-> w]

AddressLength(v6) == IF v6 THEN 16 ELSE 4

-----------------------------------------------------------------------------
Flag(b) == <<IF b THEN 1 ELSE 0>>

RECURSIVE Write(_, _)

\* FilterNodeType; a filter expression is a tree: its node type, the key,
\* operator and operand of a leaf, the children of the others.
LEAF == 1
AND == 2
OR == 3
NOT == 4
Leaf == <<Str(1), U(1), Str(2)>>

RECURSIVE FilterBytes(_)
FilterBytes(e) ==
    Digits(e.node, 1) \o
    CASE e.node = LEAF -> Write(Leaf, e.leaf)
      [] e.node \in {AND, OR} ->
             Digits(Len(e.children), 1)
                 \o FlattenSeq([i \in 1..Len(e.children) |-> FilterBytes(e.children[i])])
      [] e.node = NOT -> IF e.children = <<>> THEN <<>> ELSE FilterBytes(e.children[1])

\* write_u16(len(filter_bytes)) and the bytes, or the length 0
WriteFilter(f, x) ==
    IF x = <<>> THEN Digits(0, f.w)
    ELSE LET bytes == FilterBytes(x[1]) IN Digits(Len(bytes), f.w) \o bytes

\* The write_ calls for one field.
WriteField(f, x) ==
    CASE f.kind = "u" -> Digits(x, f.w)
      [] f.kind = "bool" -> Flag(x)
      [] f.kind = "str" -> Digits(Len(x), f.w) \o x
      [] f.kind = "raw" -> x
      [] f.kind = "many" ->
             Digits(Len(x), f.w) \o FlattenSeq([i \in 1..Len(x) |-> Write(f.of, x[i])])
      [] f.kind \in {"opt", "trailer"} ->
             IF x = <<>> THEN Flag(FALSE) ELSE Flag(TRUE) \o Write(f.of, x[1])
      [] f.kind = "ip" ->
             Digits(f.codes[x.v6], f.w) \o Write(f.of, x.mid) \o x.address
      [] f.kind = "filter" -> WriteFilter(f, x)

Write(fs, v) == FlattenSeq([i \in 1..Len(fs) |-> WriteField(fs[i], v[i])])

-----------------------------------------------------------------------------
RECURSIVE Read(_, _)

\* n messages of layout fs, one after the other
ReadMany(bytes, n, fs) ==
    FoldLeft(LAMBDA r, i : Then(r, LAMBDA xs, left :
                 Then(Read(fs, left), LAMBDA x, rest : Got(Append(xs, x), rest))),
             Got(<<>>, bytes), [i \in 1..n |-> i])

ReadOpt(bytes, fs) ==
    Then(ReadU(bytes, 1), LAMBDA b, left :
        IF b = 1 THEN Then(Read(fs, left), LAMBDA x, rest : Got(<<x>>, rest))
        ELSE Got(<<>>, left))

ReadIp(bytes, f) ==
    Then(ReadU(bytes, f.w), LAMBDA k, left :
        IF k \notin {f.codes[FALSE], f.codes[TRUE]} THEN EOFError   \* IpType raises
        ELSE Then(Read(f.of, left), LAMBDA mid, rest :
             Then(ReadRaw(rest, AddressLength(k = f.codes[TRUE])), LAMBDA a, end :
                  Got([v6 |-> k = f.codes[TRUE], mid |-> mid, address |-> a], end))))

\* The server's reading of a filter expression.
RECURSIVE ReadFilter(_)
ReadFilter(bytes) ==
    LET Children(n, rest) ==
            FoldLeft(LAMBDA r, i : Then(r, LAMBDA cs, left :
                         Then(ReadFilter(left), LAMBDA c, end : Got(Append(cs, c), end))),
                     Got(<<>>, rest), [i \in 1..n |-> i])
        Node(k, r) ==
            Then(r, LAMBDA cs, left : Got([node |-> k, leaf |-> <<>>, children |-> cs], left))
    IN  Then(ReadU(bytes, 1), LAMBDA k, left :
            CASE k = LEAF -> Then(Read(Leaf, left), LAMBDA x, rest :
                                 Got([node |-> k, leaf |-> x, children |-> <<>>], rest))
              [] k \in {AND, OR} -> Node(k, Then(ReadU(left, 1), LAMBDA n, rest : Children(n, rest)))
              [] k = NOT -> Node(k, Children(1, left))
              [] OTHER -> EOFError)

\* The read_ calls for one field.
ReadField(f, bytes) ==
    CASE f.kind = "u" -> ReadU(bytes, f.w)
      [] f.kind = "bool" -> Then(ReadU(bytes, 1), LAMBDA b, left : Got(b = 1, left))
      [] f.kind = "str" -> ReadStr(bytes, f.w)
      [] f.kind = "raw" -> ReadRaw(bytes, f.n)
      [] f.kind = "many" -> Then(ReadU(bytes, f.w), LAMBDA n, left : ReadMany(left, n, f.of))
      [] f.kind = "opt" -> ReadOpt(bytes, f.of)
      [] f.kind = "trailer" -> IF bytes = <<>> THEN Got(<<>>, bytes) ELSE ReadOpt(bytes, f.of)
      [] f.kind = "ip" -> ReadIp(bytes, f)
      [] f.kind = "filter" ->
             Then(ReadStr(bytes, f.w), LAMBDA x, left :
                 IF x = <<>> THEN Got(<<>>, left)
                 ELSE Then(ReadFilter(x), LAMBDA e, rest : Got(<<e>>, left)))

Read(fs, bytes) ==
    FoldLeft(LAMBDA r, f : Then(r, LAMBDA v, left :
                 Then(ReadField(f, left), LAMBDA x, rest : Got(Append(v, x), rest))),
             Got(<<>>, bytes), fs)

-----------------------------------------------------------------------------
\* Whether every number and every length in v fits its width, and every NOT has
\* its child.
FitsU(n, w) == Number(Digits(n, w)) = n

RECURSIVE Fits(_, _)
RECURSIVE FitsTree(_)
FitsTree(e) ==
    /\ e.node = LEAF => Fits(Leaf, e.leaf)
    /\ e.node = NOT => Len(e.children) = 1
    /\ FitsU(Len(e.children), 1) /\ \A i \in DOMAIN e.children : FitsTree(e.children[i])

FitsField(f, x) ==
    CASE f.kind = "u" -> FitsU(x, f.w)
      [] f.kind = "str" -> FitsU(Len(x), f.w)
      [] f.kind = "many" -> FitsU(Len(x), f.w) /\ \A i \in DOMAIN x : Fits(f.of, x[i])
      [] f.kind \in {"opt", "trailer"} -> \A i \in DOMAIN x : Fits(f.of, x[i])
      [] f.kind = "ip" -> Fits(f.of, x.mid)
      [] f.kind = "filter" ->
             x # <<>> => FitsTree(x[1]) /\ FitsU(Len(FilterBytes(x[1])), f.w)
      [] OTHER -> TRUE
Fits(fs, v) == \A i \in DOMAIN fs : FitsField(fs[i], v[i])
=============================================================================
