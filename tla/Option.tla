------------------------------- MODULE Option -------------------------------
(***************************************************************************)
(* Rust's Option: a value, or None where there is none.                    *)
(***************************************************************************)
CONSTANT None
=============================================================================
