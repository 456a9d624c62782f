---------------------------- MODULE MCTimestamp ----------------------------
(***************************************************************************)
(* The instance of Timestamp that TLC checks: instants before the ends of  *)
(* months and years, leap days, a century that is not a leap year, the     *)
(* first day of 1970 and one before it, and 11:11 on the 11th.  Foreign    *)
(* timestamps lie on both sides of every limit.                            *)
(***************************************************************************)
EXTENDS Timestamp

Instants ==
  { [day |-> -1, second |-> 86399], [day |-> 0, second |-> 0],
    [day |-> 11015, second |-> 43210],  \* 2000-02-28
    [day |-> 19692, second |-> 86399],  \* 2023-12-01
    [day |-> 19722, second |-> 3661],   \* 2023-12-31
    [day |-> 19754, second |-> 70000],  \* 2024-02-01
    [day |-> 19782, second |-> 80000],  \* 2024-02-29
    [day |-> 20120, second |-> 10],     \* 2025-02-01
    [day |-> 20158, second |-> 40260],  \* 2025-03-11, 11:11
    [day |-> 47540, second |-> 80000] } \* 2100-02-28

Texts ==
  [numbers : {1, 11, 30, 31, 32} \X {0, 23, 24} \X {59, 60}, suffix : {"h", "z", "/", "?"}]
  \cup [numbers : {<<0, 0, 0>>, <<23, 59, 59>>, <<23, 59, 60>>, <<11, 11, 11>>, <<99, 0, 0>>},
        suffix : {"h", "z"}]
=============================================================================
