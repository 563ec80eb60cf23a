------------------------------ MODULE Recurrent ------------------------------
(***************************************************************************)
(* The recurrent operations: LSTM ("lstm", LSTM.cpp), RNN ("rnn"), SVDF ("svdf"), *)
(* QUANTIZED_16BIT_LSTM ("quantized"), which are one step of a recurrence, and   *)
(* the sequences UNIDIRECTIONAL_SEQUENCE_LSTM ("uni_lstm"), ..._RNN ("uni_rnn"), *)
(* BIDIRECTIONAL_SEQUENCE_LSTM ("bi_lstm") and ..._RNN ("bi_rnn").              *)
(*                                                                         *)
(* A cell is an operation with what is in its operands; weights are given for   *)
(* each direction and each gate, and an operand that is left out is NoTensor.  The  *)
(* rows of an auxiliary input are as long as those of the input, as LSTMs take them *)
(* to be.                                                                 *)
(* A step is for all batches at one time.  Of the operations that are one step, *)
(* each time is one execution, and the application gives to it the states that  *)
(* the one before wrote.                                                   *)
(*                                                                         *)
(* Numbers are integers; what the functions of floats are is left open, and so  *)
(* is what a conversion to fewer bits loses.  TENSOR_FLOAT16 is computed in     *)
(* float, but for RNNs, which accumulate in _Float16: they are only TENSOR_FLOAT32 *)
(* here.                                                                   *)
(***************************************************************************)
EXTENDS Integers, Sequences, SequencesExt, Folds

CONSTANTS
  Cells,               \* the operations, with what is in their operands
  Sigmoid(_),
  Activated(_),       \* params.activation
  Normalized(_),       \* MeanStddevNormalization of a row
  Rounded(_)           \* what is left of a number that is stored in fewer bits

VARIABLES
  cell,                \* the operation, NoCell if there is none
  data,                \* its input and auxiliary input, time major
  pass,                \* "prepare", "forward", "backward", "finish", "done", "refused" or "unforeseen"
  time,                \* the loop variable, from 1
  hidden, cellState,   \* output state and cell state, by direction and batch
  frames,              \* the output by direction and time, as it is computed
  outputs              \* the output operands, in their layout

recurrentVars == << cell, data, pass, time, hidden, cellState, frames, outputs >>

NoCell == [kind |-> "none"]
NoTensor == << >>
IsNull(operand) == operand = NoTensor

Gates == {"input", "forget", "cell", "output"}
Directions(c) == IF c.kind \in {"bi_lstm", "bi_rnn"} THEN {"fw", "bw"} ELSE {"fw"}
IsOneStep(c) == c.kind \in {"lstm", "rnn", "svdf", "quantized"}

-----------------------------------------------------------------------------
(* Vectors, and matrices as sequences of rows.                                *)
Dot(v, w) == FoldLeft(LAMBDA sum, term : sum + term, 0, [k \in DOMAIN v |-> v[k] * w[k]])
Narrow(v) == [k \in DOMAIN v |-> Rounded(v[k])]
NarrowRows(rows) == [r \in DOMAIN rows |-> Narrow(rows[r])]
ClipTo(x, clip) == IF clip > 0 THEN (IF x > clip THEN clip ELSE IF x < -clip THEN -clip ELSE x) ELSE x

IsMatrix(m, rows, columns) == Len(m) = rows /\ \A r \in 1 .. rows : Len(m[r]) = columns
IsVector(v, size) == Len(v) = size
Columns(m) == IF IsNull(m) THEN 0 ELSE Len(m[1])

(* transposeFirstTwoDimensions                                               *)
Transposed(tensor) ==
  [s \in 1 .. Len(tensor[1]) |-> [f \in 1 .. Len(tensor) |-> tensor[f][s]]]
TimeMajor(c, tensor) == IF c.timeMajor \/ IsNull(tensor) THEN tensor ELSE Transposed(tensor)

MaxTime(c) == IF c.timeMajor THEN Len(c.input) ELSE Len(c.input[1])
BatchSize(c) == IF c.timeMajor THEN Len(c.input[1]) ELSE Len(c.input)
InputSize(c) == Len(c.input[1][1])
SameFrames(c) == Len(c.aux) = Len(c.input) /\ Len(c.aux[1]) = Len(c.input[1])

-----------------------------------------------------------------------------
(* What is asked of the operands of a direction.  params is what is derived     *)
(* from the operands that are there.                                         *)
Params(d) ==
  [cifg |-> IsNull(d.input.input), peephole |-> ~ IsNull(d.peephole.output),
   norm |-> ~ IsNull(d.norm.output), projection |-> ~ IsNull(d.projection),
   projectionBias |-> ~ IsNull(d.projectionBias)]

AllOrNone(operands, among) ==
  (\A g \in among : IsNull(operands[g])) \/ (\A g \in among : ~ IsNull(operands[g]))

WeightsFit(c, d) ==
  LET nCell == Len(d.input.output)
      nOutput == Columns(d.recurrent.output)
      gates == IF IsNull(d.input.input) THEN Gates \ {"input"} ELSE Gates
      FitsIfThere(v) == IsNull(v) \/ IsVector(v, nCell)
  IN /\ \A g \in gates : IsMatrix(d.input[g], nCell, InputSize(c))
     /\ \A g \in gates : IsMatrix(d.recurrent[g], nCell, nOutput)
     /\ IsNull(d.input.input) => IsNull(d.recurrent.input) /\ IsNull(d.bias.input)
     /\ \A g \in {"input", "forget", "output"} : FitsIfThere(d.peephole[g])
     /\ AllOrNone(d.peephole, gates \ {"cell"})
     /\ IsNull(d.peephole.output) => IsNull(d.peephole.input)
     /\ \A g \in gates : IsVector(d.bias[g], nCell)
     /\ IsNull(d.projection) \/ IsMatrix(d.projection, nOutput, nCell)
     /\ IsNull(d.projectionBias) \/ IsVector(d.projectionBias, nOutput)
     /\ \A g \in Gates : FitsIfThere(d.norm[g])
     /\ AllOrNone(d.norm, gates) /\ \A g \in Gates \ gates : IsNull(d.norm[g])

StatesFit(c, direction) ==
  LET d == c[direction]
  IN /\ IsMatrix(c.hidden[direction], BatchSize(c), Columns(d.recurrent.output))
     /\ IsMatrix(c.cellState[direction], BatchSize(c), Len(d.input.output))

AuxOf(c, direction) == {c[direction].aux[g] : g \in {"forget", "cell", "output"}}
AuxWeights(c) == AuxOf(c, "fw") \cup AuxOf(c, "bw")

RnnFits(c, direction) ==
  LET d == c[direction]
      numUnits == Len(d.input.cell)
  IN /\ IsMatrix(d.input.cell, numUnits, InputSize(c))
     /\ IsMatrix(d.recurrent.cell, numUnits, numUnits)
     /\ IsVector(d.bias.cell, numUnits)
     /\ c.kind # "rnn" => IsMatrix(c.hidden[direction], BatchSize(c), numUnits)

SvdfFits(c) ==
  LET numFilters == Len(c.features)
  IN /\ numFilters % c.rank = 0
     /\ IsMatrix(c.features, numFilters, InputSize(c)) /\ Len(c.times) = numFilters
     /\ IsNull(c.bias) \/ IsVector(c.bias, numFilters \div c.rank)

(* The scales and zero points are not modelled.                               *)
QuantizedFits(c) ==
  LET outputSize == Len(c.hidden.fw[1])
  IN /\ \A g \in Gates : /\ IsMatrix(c.fw.input[g], outputSize, InputSize(c))
                         /\ IsMatrix(c.fw.recurrent[g], outputSize, outputSize)
                         /\ IsVector(c.fw.bias[g], outputSize)
     /\ IsMatrix(c.cellState.fw, BatchSize(c), outputSize)

LstmPrepares(c) ==
  /\ c.cellClip >= 0 /\ c.projClip >= 0
  /\ WeightsFit(c, c.fw)
  /\ IsNull(c.fw.projection) => IsNull(c.fw.projectionBias)
UniLstmPrepares(c) == WeightsFit(c, c.fw) /\ StatesFit(c, "fw")
BiLstmPrepares(c) ==
  /\ c.cellClip >= 0 /\ c.projClip >= 0
  /\ \A direction \in Directions(c) :
       /\ WeightsFit(c, c[direction])
       /\ IsNull(c[direction].projection) => IsNull(c[direction].projectionBias)
  /\ \/ \A m \in AuxWeights(c) : IsNull(m)
     \/ ~ IsNull(c.aux) /\ \A m \in AuxWeights(c) : ~ IsNull(m)
  /\ ~ IsNull(c.aux) => SameFrames(c)
BiRnnPrepares(c) ==
  \A direction \in Directions(c) :
    /\ RnnFits(c, direction)
    /\ IsNull(c[direction].aux.cell) <=> IsNull(c.aux)
    /\ ~ IsNull(c.aux) => /\ IsMatrix(c[direction].aux.cell, Len(c[direction].input.cell),
                                      Len(c.aux[1][1]))
                          /\ SameFrames(c)
IsPrepared(c) ==
  CASE c.kind = "lstm" -> LstmPrepares(c)
    [] c.kind = "uni_lstm" -> UniLstmPrepares(c)
    [] c.kind = "bi_lstm" -> BiLstmPrepares(c)
    [] c.kind = "bi_rnn" -> BiRnnPrepares(c)
    [] c.kind \in {"rnn", "uni_rnn"} -> RnnFits(c, "fw")
    [] c.kind = "svdf" -> SvdfFits(c)
    [] c.kind = "quantized" -> QuantizedFits(c)

(* params_ is that of the direction that was checked last.                      *)
ParamsOf(c, direction) == Params(c[IF c.kind = "bi_lstm" THEN "bw" ELSE direction])

(* prepare of an LSTM accepts what its step cannot follow: directions of two variants, *)
(* which share params_; an auxiliary input without weights, or without those of the  *)
(* input gate; states of another size; and, without a projection, an output that is  *)
(* not of the size of the cell, of which the step copies rows that are too short or   *)
(* too long.  The step then reads through a null pointer (zeros, of TENSOR_FLOAT16),  *)
(* out of its rows, or without regard to operands that are there.                   *)
IsForeseen(c) ==
  c.kind \in {"lstm", "uni_lstm", "bi_lstm"} =>
    \A direction \in Directions(c) :
      LET d == c[direction]
          p == ParamsOf(c, direction)
          nCell == Len(d.input.output)
      IN /\ p = Params(d)
         /\ p.projection \/ Columns(d.recurrent.output) = nCell
         /\ ~ IsNull(c.aux) => \A g \in IF p.cifg THEN Gates \ {"input"} ELSE Gates :
                                IsMatrix(d.aux[g], nCell, InputSize(c))
         /\ StatesFit(c, direction)

-----------------------------------------------------------------------------
(* One step for one batch: in has its inputs x and aux and the output state h; s is *)
(* its cell state.                                                         *)

(* The weighted inputs of a gate in a cell, and what its function is of.  Without layer *)
(* normalization the bias is there first, with it it is added last.                *)
Sum(p, d, gate, k, in, s) ==
  Dot(d.input[gate][k], in.x) + Dot(d.recurrent[gate][k], in.h)
  + (IF IsNull(in.aux) THEN 0 ELSE Dot(d.aux[gate][k], in.aux))
  + (IF p.peephole /\ gate # "cell" THEN d.peephole[gate][k] * s[k] ELSE 0)
Gate(p, d, gate, k, in, s) ==
  d.bias[gate][k]
  + (IF p.norm THEN d.norm[gate][k] * Normalized([j \in DOMAIN d.bias[gate] |-> Sum(p, d, gate, j, in, s)])[k]
     ELSE Sum(p, d, gate, k, in, s))

CellState(c, p, d, in, s) ==
  LET Forget(k) == Sigmoid(Gate(p, d, "forget", k, in, s))
      Admitted(k) == IF p.cifg THEN 1 - Forget(k) ELSE Sigmoid(Gate(p, d, "input", k, in, s))
  IN [k \in DOMAIN s |->
        ClipTo(Forget(k) * s[k] + Activated(Gate(p, d, "cell", k, in, s)) * Admitted(k), c.cellClip)]

(* What the output gate sees of the cell: its new state.  The mutant shows it the old one. *)
OldState(s, new) == s
SeenByOutput(s, new) == new

OutputState(c, p, d, in, s, new) ==
  LET gated == [k \in DOMAIN new |->
                  Sigmoid(Gate(p, d, "output", k, in, SeenByOutput(s, new))) * Activated(new[k])]
      Bias(k) == IF p.projectionBias THEN d.projectionBias[k] ELSE 0
  IN IF ~ p.projection THEN gated
     ELSE [k \in DOMAIN d.projection |-> ClipTo(Bias(k) + Dot(d.projection[k], gated), c.projClip)]

(* The loop over the auxiliary input is as long as the input.                   *)
RNNStep(d, in) ==
  LET AuxProduct(k) == IF IsNull(in.aux) THEN 0
                       ELSE Dot(SubSeq(in.aux, 1, Len(in.x)), d.aux.cell[k])
  IN [k \in DOMAIN d.bias.cell |->
        Activated(d.bias.cell[k] + Dot(d.input.cell[k], in.x) + Dot(d.recurrent.cell[k], in.h)
                   + AuxProduct(k))]

(* The state has a row for each filter.  The last column is for the new feature, and *)
(* is shifted out of the way at the end.                                        *)
Memory(c, in, s) == [f \in DOMAIN s |-> Append(Front(s[f]), Dot(c.features[f], in.x))]
Shifted(memory) == [f \in DOMAIN memory |-> Append(Tail(memory[f]), 0)]
SVDFOutput(c, in, s) ==
  LET memory == Memory(c, in, s)
      scratch == [f \in DOMAIN memory |-> Dot(c.times[f], memory[f])]
      Reduced(u) == FoldLeft(LAMBDA sum, term : sum + term, IF IsNull(c.bias) THEN 0 ELSE c.bias[u],
                             SubSeq(scratch, (u - 1) * c.rank + 1, u * c.rank))
  IN [u \in 1 .. Len(c.features) \div c.rank |-> Activated(Reduced(u))]

(* concatenateWeights puts the recurrent weights first, the step the input.      *)
Connected(d, gate, k, in) ==
  d.bias[gate][k] + Dot(d.recurrent[gate][k] \o d.input[gate][k], in.x \o in.h)
QuantizedState(d, in, s) ==
  [k \in DOMAIN s |->
     Rounded(Sigmoid(Connected(d, "input", k, in)) * Activated(Connected(d, "cell", k, in))
             + Sigmoid(Connected(d, "forget", k, in)) * s[k])]
QuantizedOutput(d, in, new) ==
  [k \in DOMAIN new |-> Rounded(Sigmoid(Connected(d, "output", k, in)) * Activated(new[k]))]

NewState(c, direction, in, s) ==
  CASE c.kind \in {"lstm", "uni_lstm", "bi_lstm"} -> CellState(c, ParamsOf(c, direction), c[direction], in, s)
    [] c.kind = "quantized" -> QuantizedState(c.fw, in, s)
    [] c.kind = "svdf" -> Shifted(Memory(c, in, s))
    [] c.kind \in {"rnn", "uni_rnn", "bi_rnn"} -> s
NewOutput(c, direction, in, s, new) ==
  CASE c.kind \in {"lstm", "uni_lstm", "bi_lstm"} ->
         OutputState(c, ParamsOf(c, direction), c[direction], in, s, new)
    [] c.kind = "quantized" -> QuantizedOutput(c.fw, in, new)
    [] c.kind = "svdf" -> SVDFOutput(c, in, s)
    [] c.kind \in {"rnn", "uni_rnn", "bi_rnn"} -> RNNStep(c[direction], in)

-----------------------------------------------------------------------------
(* What becomes of a cell that is not foreseen is left there.                       *)
PrepareCell ==
  /\ pass = "prepare" /\ cell # NoCell
  /\ IF ~ IsPrepared(cell)
     THEN pass' = "refused" /\ UNCHANGED << data, time, hidden, cellState, frames >>
     ELSE IF ~ IsForeseen(cell)
     THEN pass' = "unforeseen" /\ UNCHANGED << data, time, hidden, cellState, frames >>
     ELSE /\ pass' = "forward" /\ time' = 1
          /\ data' = << TimeMajor(cell, cell.input), TimeMajor(cell, cell.aux) >>
          /\ hidden' = cell.hidden /\ cellState' = cell.cellState
          /\ frames' = [d \in Directions(cell) |-> [t \in 1 .. MaxTime(cell) |-> << >>]]
  /\ UNCHANGED << cell, outputs >>

(* States in an operand of TENSOR_FLOAT16, as the next execution reads them.        *)
HiddenOf(direction, b) ==
  IF cell.half /\ IsOneStep(cell) THEN Narrow(hidden[direction][b]) ELSE hidden[direction][b]
StateOf(direction, b) ==
  IF ~ (cell.half /\ IsOneStep(cell)) THEN cellState[direction][b]
  ELSE IF cell.kind = "svdf" THEN NarrowRows(cellState[direction][b])
  ELSE Narrow(cellState[direction][b])

(* The step at time, in a direction: every batch reads the states of the step before. *)
Advance(direction) ==
  LET In(b) == [x |-> data[1][time][b], aux |-> IF IsNull(data[2]) THEN NoTensor ELSE data[2][time][b],
                h |-> HiddenOf(direction, b)]
  IN /\ cellState' = [cellState EXCEPT ![direction] =
                        [b \in DOMAIN @ |-> NewState(cell, direction, In(b), StateOf(direction, b))]]
     /\ hidden' = [hidden EXCEPT ![direction] =
                     [b \in DOMAIN @ |-> NewOutput(cell, direction, In(b), StateOf(direction, b),
                                                   cellState'[direction][b])]]
     /\ frames' = [frames EXCEPT ![direction][time] = hidden'[direction]]
     /\ UNCHANGED << cell, data, outputs >>

Forward ==
  /\ pass = "forward"
  /\ Advance("fw")
  /\ IF time < MaxTime(cell) THEN pass' = pass /\ time' = time + 1
     ELSE IF "bw" \in Directions(cell) THEN pass' = "backward" /\ time' = MaxTime(cell)
     ELSE pass' = "finish" /\ time' = time

Backward ==
  /\ pass = "backward"
  /\ Advance("bw")
  /\ IF time > 1 THEN pass' = pass /\ time' = time - 1 ELSE pass' = "finish" /\ time' = time

(* mergeThirdDimension, and the strides of an RNN that merges.                     *)
Merged(fw, bw) == [t \in DOMAIN fw |-> [b \in DOMAIN fw[t] |-> fw[t][b] \o bw[t][b]]]

(* Transposed back, merged, and stored in what the operands are of; the states of a *)
(* sequence stay where they are, which for a bidirectional LSTM are its own operands. *)
FinishCell ==
  /\ pass = "finish" /\ pass' = "done"
  /\ LET Stored(rows) == IF cell.half THEN NarrowRows(rows) ELSE rows
         Layout(f) == TimeMajor(cell, [t \in DOMAIN f |-> Stored(f[t])])
         StatesLeft(rows) == IF cell.kind = "svdf" /\ cell.half THEN [b \in DOMAIN rows |-> NarrowRows(rows[b])]
                             ELSE Stored(rows)
     IN /\ outputs' = IF Directions(cell) = {"fw"} THEN << Layout(frames.fw) >>
                      ELSE IF cell.merge THEN << Merged(Layout(frames.fw), Layout(frames.bw)) >>
                      ELSE << Layout(frames.fw), Layout(frames.bw) >>
        /\ hidden' = [d \in DOMAIN hidden |-> Stored(hidden[d])]
        /\ cellState' = [d \in DOMAIN cellState |-> StatesLeft(cellState[d])]
  /\ UNCHANGED << cell, data, time, frames >>

RecurrentInit(c) ==
  /\ cell = c /\ data = << >> /\ pass = "prepare" /\ time = 0
  /\ hidden = << >> /\ cellState = << >> /\ frames = << >> /\ outputs = << >>
RecurrentNext == PrepareCell \/ Forward \/ Backward \/ FinishCell

-----------------------------------------------------------------------------
(* The recurrence as it is defined, for one batch: all that a cell sees is one vector, *)
(* and the weights of its gates are the rows of one matrix, with the input's weights  *)
(* for the input and the recurrent weights for the output state, as NeuralNetworks.h   *)
(* names the operands: Connected has them the other way.  What is known after n      *)
(* steps is a pair of the output and the state.  A row is put together before it is  *)
(* read: TLC evaluates a function again at each application.                      *)
Together(row) == row \o << >>

TimeOf(c, direction, n) == IF direction = "fw" THEN n ELSE MaxTime(c) + 1 - n
RowAt(c, tensor, t, b) == IF c.timeMajor THEN tensor[t][b] ELSE tensor[b][t]
Seen(c, t, b) ==
  RowAt(c, c.input, t, b) \o (IF IsNull(c.aux) THEN << >> ELSE RowAt(c, c.aux, t, b))
Weights(c, d, gate, k) ==
  d.input[gate][k] \o (IF IsNull(c.aux) THEN << >> ELSE d.aux[gate][k]) \o d.recurrent[gate][k]

(* The gate of a cell, of all it sees and, through a peephole, of its state.        *)
DefinedGate(c, d, gate, seen, peephole) ==
  LET inner == Together([k \in DOMAIN d.bias[gate] |->
                  Dot(Weights(c, d, gate, k), seen)
                  + (IF IsNull(d.peephole[gate]) THEN 0 ELSE d.peephole[gate][k] * peephole[k])])
      row == IF IsNull(d.norm[gate]) THEN inner
             ELSE [k \in DOMAIN inner |-> d.norm[gate][k] * Normalized(inner)[k]]
  IN Together([k \in DOMAIN row |-> row[k] + d.bias[gate][k]])
DefinedState(c, d, seen, s) ==
  LET forget == DefinedGate(c, d, "forget", seen, s)
      input == DefinedGate(c, d, "input", seen, s)
      update == DefinedGate(c, d, "cell", seen, s)
      Admitted(k) == IF IsNull(d.input.input) THEN 1 - Sigmoid(forget[k]) ELSE Sigmoid(input[k])
      Next(k) == Sigmoid(forget[k]) * s[k] + Admitted(k) * Activated(update[k])
  IN Together([k \in DOMAIN s |->
                 IF c.kind = "quantized" THEN Rounded(Next(k)) ELSE ClipTo(Next(k), c.cellClip)])
DefinedOutput(c, d, seen, new) ==
  LET gate == DefinedGate(c, d, "output", seen, new)
      gated == Together([k \in DOMAIN new |-> Sigmoid(gate[k]) * Activated(new[k])])
      Projected(k) == (IF IsNull(d.projectionBias) THEN 0 ELSE d.projectionBias[k]) + Dot(d.projection[k], gated)
  IN IF c.kind = "quantized" THEN Narrow(gated)
     ELSE IF IsNull(d.projection) THEN gated
     ELSE Together([k \in DOMAIN d.projection |-> ClipTo(Projected(k), c.projClip)])

(* A filter of SVDF remembers its last features, and before them what its state began *)
(* with.                                                                   *)
Remembered(c, f, b, n) ==
  LET features == [t \in 1 .. n |-> Dot(c.features[f], c.input[t][b])]
      known == Front(c.cellState.fw[b][f])
               \o [t \in 1 .. n |-> IF t < n /\ c.half THEN Rounded(features[t]) ELSE features[t]]
  IN SubSeq(known, n, Len(known))
DefinedSvdf(c, b, n) ==
  LET filtered == Together([f \in DOMAIN c.features |-> Dot(c.times[f], Remembered(c, f, b, n))])
      Unit(u) == Dot([r \in 1 .. c.rank |-> 1], SubSeq(filtered, (u - 1) * c.rank + 1, u * c.rank))
  IN << [u \in 1 .. Len(c.features) \div c.rank |->
           Activated((IF IsNull(c.bias) THEN 0 ELSE c.bias[u]) + Unit(u))],
        [f \in DOMAIN c.features |-> Append(Tail(Remembered(c, f, b, n)), 0)] >>

DefinedRnn(c, d, seen) ==
  Together([k \in DOMAIN d.bias.cell |->
              Activated(d.bias.cell[k] + Dot(Weights(c, d, "cell", k), seen))])
(* The states of an LSTM in half precision pass through its operands.               *)
DefinedStep(c, direction, b, n, before) ==
  LET d == c[direction]
      Passed(v) == IF c.half /\ c.kind = "lstm" THEN Narrow(v) ELSE v
      seen == Seen(c, TimeOf(c, direction, n), b) \o Passed(before[1])
      new == DefinedState(c, d, seen, Passed(before[2]))
  IN IF c.kind = "svdf" THEN DefinedSvdf(c, b, n)
     ELSE IF c.kind \in {"rnn", "uni_rnn", "bi_rnn"} THEN << DefinedRnn(c, d, seen), before[2] >>
     ELSE << DefinedOutput(c, d, seen, new), new >>
DefinedAt(c, direction, b) ==
  LET after[n \in 0 .. MaxTime(c)] ==
        IF n = 0 THEN << c.hidden[direction][b], c.cellState[direction][b] >>
        ELSE DefinedStep(c, direction, b, n, after[n - 1])
  IN after

(* The row of the outputs for a time and a batch, in the layout they are in.        *)
OutputRow(c, direction, t, b) ==
  LET tensor == outputs[IF direction = "bw" /\ ~ c.merge THEN 2 ELSE 1]
      fwSize == Len(c.hidden.fw[1])
  IN IF Directions(c) = {"fw"} \/ ~ c.merge THEN RowAt(c, tensor, t, b)
     ELSE IF direction = "fw" THEN SubSeq(RowAt(c, tensor, t, b), 1, fwSize)
     ELSE SubSeq(RowAt(c, tensor, t, b), fwSize + 1, Len(RowAt(c, tensor, t, b)))

(* Every row of the outputs is what the recurrence of its batch and its direction    *)
(* gives at its time, and the states that are left are those after the last time,    *)
(* whatever the layout and the variant of an operation that is foreseen.  Of a        *)
(* quantized LSTM that is so where Connected agrees with Weights.                   *)
ComputesTheRecurrence ==
  pass = "done" =>
    \A direction \in Directions(cell), b \in 1 .. BatchSize(cell) :
      \E after \in {DefinedAt(cell, direction, b)} :
        LET last == after[MaxTime(cell)]
            AsStored(v) == IF cell.half THEN Narrow(v) ELSE v
            StateStored(s) == IF cell.half /\ cell.kind = "svdf" THEN NarrowRows(s) ELSE AsStored(s)
        IN /\ \A n \in 1 .. MaxTime(cell) :
                OutputRow(cell, direction, TimeOf(cell, direction, n), b) = AsStored(after[n][1])
           /\ hidden[direction][b] = AsStored(last[1])
           /\ cellState[direction][b] = StateStored(last[2])
=============================================================================
