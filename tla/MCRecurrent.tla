----------------------------- MODULE MCRecurrent -----------------------------
(***************************************************************************)
(* Recurrent operations of two inputs and two cells, at three times, for two    *)
(* batches: every variant of an LSTM, every layout, and operands that are left   *)
(* out or of another size, whether prepare refuses them or not.               *)
(***************************************************************************)
EXTENDS Recurrent, FiniteSets

(* Numbers, of no meaning but to differ.   *)
Number(seed, r, c) == ((seed * 7 + r * 5 + c * 3 + r * c * seed) % 5) - 2
RowOf(seed, n) == [k \in 1 .. n |-> Number(seed, k, 1)]
MatrixOf(seed, rows, columns) == [r \in 1 .. rows |-> [k \in 1 .. columns |-> Number(seed, r, k)]]
FramesOf(seed, n, rows, columns) == [t \in 1 .. n |-> MatrixOf(seed + 3 * t, rows, columns)]
Index(g) == CASE g = "input" -> 1 [] g = "forget" -> 2 [] g = "cell" -> 3 [] OTHER -> 4
NoWeights == [g \in Gates |-> NoTensor]

DirectionOf(seed, v, nIn, nCell, nOut) ==
  LET Of(there, f(_)) == [g \in Gates |-> IF g \in there /\ (g # "input" \/ ~ v.cifg) THEN f(seed + Index(g)) ELSE NoTensor]
      OfCell(i) == RowOf(i, nCell)
  IN [input |-> Of(Gates, LAMBDA i : MatrixOf(i, nCell, nIn)),
      recurrent |-> Of(Gates, LAMBDA i : MatrixOf(i + 4, nCell, nOut)),
      aux |-> Of(IF v.aux THEN Gates ELSE {}, LAMBDA i : MatrixOf(i + 8, nCell, nIn)),
      bias |-> Of(Gates, LAMBDA i : OfCell(i + 12)),
      peephole |-> Of(IF v.peephole THEN Gates \ {"cell"} ELSE {}, LAMBDA i : OfCell(i + 16)),
      norm |-> Of(IF v.norm THEN Gates ELSE {}, LAMBDA i : OfCell(i + 20)),
      projection |-> IF v.projection THEN MatrixOf(seed + 24, nOut, nCell) ELSE NoTensor,
      projectionBias |-> IF v.projection /\ v.aux THEN RowOf(seed + 25, nOut) ELSE NoTensor]

Variants == [cifg : BOOLEAN, peephole : BOOLEAN, norm : BOOLEAN, projection : BOOLEAN, aux : BOOLEAN]
NoVariant == [cifg |-> FALSE, peephole |-> FALSE, norm |-> FALSE, projection |-> FALSE, aux |-> FALSE]

(* Two batches of two inputs at three times.   *)
Frames(seed, timeMajor) == IF timeMajor THEN FramesOf(seed, 3, 2, 2) ELSE FramesOf(seed, 2, 3, 2)
Lstm(kind, v, timeMajor, half, merge, clip) ==
  LET nOut == IF v.projection THEN 1 ELSE 2
      directions == IF kind = "bi_lstm" THEN {"fw", "bw"} ELSE {"fw"}
      State(seed, n) == [d \in directions |-> LET m == MatrixOf(IF d = "fw" THEN seed ELSE seed + 1, 2, n)
                                              IN IF half THEN [r \in 1 .. 2 |-> [k \in 1 .. n |-> 2 * m[r][k]]] ELSE m]
  IN [kind |-> kind, timeMajor |-> timeMajor, half |-> half, merge |-> merge,
      input |-> Frames(1, timeMajor), aux |-> IF v.aux THEN Frames(2, timeMajor) ELSE NoTensor,
      fw |-> DirectionOf(1, v, 2, 2, nOut), bw |-> DirectionOf(2, v, 2, 2, nOut),
      hidden |-> State(3, nOut), cellState |-> State(5, 2), cellClip |-> clip, projClip |-> clip]
LstmCells ==
  {Lstm("lstm", v, TRUE, half, FALSE, clip) : v \in {w \in Variants : ~ w.aux}, half \in BOOLEAN, clip \in {0, 3}}
  \cup {Lstm("lstm", NoVariant, TRUE, FALSE, FALSE, -1)}
  \cup {Lstm("uni_lstm", v, timeMajor, half, FALSE, 3) : v \in {w \in Variants : ~ w.aux}, timeMajor \in BOOLEAN, half \in BOOLEAN}
  \cup {Lstm("bi_lstm", v, timeMajor, half, timeMajor <=> half, 3) : v \in Variants, timeMajor \in BOOLEAN, half \in BOOLEAN}

(* Every operand left out, or of another size; directions of two variants; and an   *)
(* auxiliary input without weights.                                          *)
OneVariant(kind, cifg) ==
  [cifg |-> cifg, peephole |-> TRUE, norm |-> TRUE, projection |-> TRUE, aux |-> kind = "bi_lstm"]
Without(c, d) ==
  {[c EXCEPT ![d][tensors][g] = NoTensor] : tensors \in {"input", "recurrent", "aux", "bias", "peephole", "norm"}, g \in Gates}
  \cup {[c EXCEPT ![d].projection = NoTensor], [c EXCEPT ![d].projection = NoTensor, ![d].projectionBias = NoTensor],
        [c EXCEPT ![d].projectionBias = NoTensor], [c EXCEPT ![d].projectionBias = << 1, 2 >>],
        [c EXCEPT ![d].projection = << << 1 >> >>], [c EXCEPT ![d].norm.cell = << 1 >>],
        [c EXCEPT ![d].bias.cell = << 1 >>], [c EXCEPT ![d].peephole.input = << 1 >>],
        [c EXCEPT ![d].input.cell = << << 1 >> >>], [c EXCEPT ![d].recurrent.cell = << << 1 >> >>],
        [c EXCEPT !.hidden[d] = << << 1, 2 >> >>]}
TwoVariants ==
  {[Lstm("bi_lstm", v, TRUE, FALSE, FALSE, 0) EXCEPT !.bw = DirectionOf(2, w, 2, 2, 2)] :
     v \in {NoVariant, [NoVariant EXCEPT !.cifg = TRUE]}, w \in {w \in Variants : ~ w.projection /\ ~ w.aux}}
Malformed ==
  UNION {Without(Lstm(kind, OneVariant(kind, cifg), TRUE, FALSE, FALSE, 0), d) :
           kind \in {"lstm", "uni_lstm", "bi_lstm"}, d \in {"fw"}, cifg \in BOOLEAN}
  \cup UNION {Without(Lstm("bi_lstm", OneVariant("bi_lstm", cifg), TRUE, FALSE, FALSE, 0), "bw") : cifg \in BOOLEAN}
  \cup TwoVariants
  \cup {[Lstm("bi_lstm", NoVariant, TRUE, FALSE, FALSE, 0) EXCEPT !.aux = Frames(2, TRUE)]}

Rnn(kind, timeMajor, merge, aux) ==
  LET directions == IF kind = "bi_rnn" THEN {"fw", "bw"} ELSE {"fw"}
      units == [d \in directions |-> IF d = "fw" THEN 2 ELSE 3]
      WeightsFor(d) == [input |-> [cell |-> MatrixOf(2, units[d], 2)], recurrent |-> [cell |-> MatrixOf(4, units[d], units[d])],
                     aux |-> [cell |-> IF aux THEN MatrixOf(5, units[d], 2) ELSE NoTensor], bias |-> [cell |-> RowOf(3, units[d])]]
  IN [kind |-> kind, timeMajor |-> timeMajor, half |-> FALSE, merge |-> merge,
      input |-> Frames(1, timeMajor), aux |-> IF aux THEN Frames(2, timeMajor) ELSE NoTensor,
      hidden |-> [d \in directions |-> MatrixOf(6, 2, units[d])], cellState |-> [d \in directions |-> << NoTensor, NoTensor >>],
      fw |-> WeightsFor("fw"), bw |-> IF kind = "bi_rnn" THEN WeightsFor("bw") ELSE NoTensor]
RnnCells ==
  {Rnn("rnn", TRUE, FALSE, FALSE)} \cup {Rnn("uni_rnn", timeMajor, FALSE, FALSE) : timeMajor \in BOOLEAN}
  \cup {Rnn("bi_rnn", timeMajor, merge, aux) : timeMajor \in BOOLEAN, merge \in BOOLEAN, aux \in BOOLEAN}
  \cup {[Rnn("bi_rnn", TRUE, FALSE, TRUE) EXCEPT !.bw.aux.cell = NoTensor],
        [Rnn("uni_rnn", TRUE, FALSE, FALSE) EXCEPT !.hidden.fw = << << 1, 2 >> >>]}

Svdf(rank, half, bias) ==
  [kind |-> "svdf", timeMajor |-> TRUE, half |-> half, merge |-> FALSE, input |-> Frames(1, TRUE), aux |-> NoTensor,
   rank |-> rank, features |-> MatrixOf(3, 4, 2), times |-> MatrixOf(4, 4, 3), fw |-> NoTensor,
   bias |-> IF bias THEN RowOf(5, 4 \div rank) ELSE NoTensor,
   hidden |-> [fw |-> << NoTensor, NoTensor >>],
   cellState |-> [fw |-> [b \in 1 .. 2 |-> [f \in 1 .. 4 |-> [k \in 1 .. 3 |-> 2 * Number(b, f, k)]]]]]
SvdfCells == {Svdf(rank, half, bias) : rank \in {1, 2, 3, 4}, half \in BOOLEAN, bias \in BOOLEAN}

QuantizedOf(weights) ==
  [kind |-> "quantized", timeMajor |-> TRUE, half |-> FALSE, merge |-> FALSE, input |-> Frames(1, TRUE), aux |-> NoTensor,
   fw |-> weights, cellClip |-> 0, projClip |-> 0, hidden |-> [fw |-> MatrixOf(6, 2, 2)], cellState |-> [fw |-> MatrixOf(5, 2, 2)]]
GivenWeights == DirectionOf(1, NoVariant, 2, 2, 2)
(* The input and the output state have the same weights, so that their order does not matter. *)
QuantizedLstm == QuantizedOf([GivenWeights EXCEPT !.recurrent = GivenWeights.input])
MCCells == LstmCells \cup Malformed \cup RnnCells \cup SvdfCells
           \cup {QuantizedLstm, [QuantizedLstm EXCEPT !.fw.bias.cell = << 1 >>]}
MCSigmoid(x) == x % 3
MCActivated(x) == (x % 7) - 3
MCRounded(x) == x - (x % 2)
MCNormalized(v) == [k \in 1 .. Len(v) |-> v[k] - v[1 + (k % Len(v))]]

(* With weights that differ, a quantized LSTM does not compute the gates of its      *)
(* documentation, which are those of its operands the other way about.             *)
ASSUME QuantizedWeightsAreSwapped ==
  LET c == QuantizedOf(GivenWeights)
      Exchanged == [GivenWeights EXCEPT !.input = GivenWeights.recurrent, !.recurrent = GivenWeights.input]
      In(b) == [x |-> c.input[1][b], h |-> c.hidden.fw[b]]
      Documented(d, g, k, b) == d.bias[g][k] + Dot(Weights(c, d, g, k), Seen(c, 1, b) \o c.hidden.fw[b])
  IN /\ \E g \in Gates, k, b \in 1 .. 2 : Connected(GivenWeights, g, k, In(b)) # Documented(GivenWeights, g, k, b)
     /\ \A g \in Gates, k, b \in 1 .. 2 : Connected(GivenWeights, g, k, In(b)) = Documented(Exchanged, g, k, b)
=============================================================================
