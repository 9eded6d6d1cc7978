------------------------------ MODULE MCBatcher ------------------------------
(***************************************************************************)
(* The batcher with an executor that may answer each request of a batch,   *)
(* or only some prefix of them, with a success or an error of its own.     *)
(***************************************************************************)
EXTENDS Batcher

CONSTANTS r1, r2, r3, b1, b2

MCReqs == {r1, r2, r3}
MCBuckets == {b1, b2}
MCHash == [r \in MCReqs |-> IF r = r3 THEN b2 ELSE b1]

MCAnswersFor(r) == {<<r, "ok">>}

\* Every slice of at most as many results as there are inputs.
MCExec(batch) ==
    {[i \in 1..n |-> <<batch[i], "ok">>] : n \in 0..Len(batch)}
=============================================================================
