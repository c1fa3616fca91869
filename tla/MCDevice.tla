------------------------------ MODULE MCDevice ------------------------------
(* The parts of the device program, on small instances for TLC.            *)
EXTENDS Device, TLC, SequencesExt

\* A target whose choice depends on every token that it attends to and on how many
\* there are: a weighted checksum.
Checksum(ctx) ==
  FoldLeft(LAMBDA acc, i : (3 * acc + i * ctx[i] + 1) % 7, 0, [i \in 1..Len(ctx) |-> i]) % 2
Binary == 0..1
TwoSlots == {"a", "b"}
TenBlocks == 0..9
TwoTables == "a" :> [b \in 0..4 |-> 2 * b] @@ "b" :> [b \in 0..4 |-> 2 * b + 1]
TwoPrompts == "a" :> <<1>> @@ "b" :> <<0, 1>>
AllAlike == {[x \in (0..9) \X (0..1) |-> t] : t \in 0..1}
FourRatios == <<1, 4, 4, 2>>
TwoRows == 0 :> [c \in 0..8 |-> c] @@ 1 :> [c \in 0..8 |-> 20 + c]
=============================================================================
