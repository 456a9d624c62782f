------------------------------ MODULE Division ------------------------------
(***************************************************************************)
(* Division of the signed integers of Rust, which rounds towards zero: the *)
(* \div and % of TLA+ round down.                                          *)
(***************************************************************************)
EXTENDS Integers

Quotient(a, b) == IF a >= 0 THEN a \div b ELSE -((-a) \div b)

Remainder(a, b) == a - b * Quotient(a, b)
=============================================================================
