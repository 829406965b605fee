----------------------------- MODULE MCWorkload -----------------------------
(***************************************************************************)
(* An instance of Workload for TLC: six tasks, of which two arrive at      *)
(* once, one at the end clock and one too late.                            *)
(***************************************************************************)
EXTENDS Workload, TLC

CONSTANTS t1, t2, t3, t4, t5, t6

MCArrival == t1 :> 2 @@ t2 :> 5 @@ t3 :> 5 @@ t4 :> 7 @@ t5 :> 8 @@ t6 :> 9
MCName == t1 :> 1 @@ t2 :> 2 @@ t3 :> 3 @@ t4 :> 4 @@ t5 :> 5 @@ t6 :> 6

Row(len, use) == [len |-> len, use |-> use]
MCRows == t1 :> <<Row(1, 1), Row(2, 1), Row(1, 0), Row(4, 1)>>
          @@ t2 :> <<Row(1, NoUse), Row(2, 1), Row(2, NoUse)>>
          @@ t3 :> <<Row(3, 0), Row(3, 2)>>
          @@ t4 :> << >>
          @@ t5 :> <<Row(1, 1)>>
          @@ t6 :> <<Row(1, 1)>>
=============================================================================
