----------------------------- MODULE MC_Mangling -----------------------------
(***************************************************************************)
(* Names that are empty, plain, a bare prefix of "tf." and already        *)
(* mangled; two dtypes; shapes of rank up to 2 with known, unknown and    *)
(* zero dimensions.                                                        *)
(***************************************************************************)
EXTENDS Mangling

CONSTANTS DT_FLOAT, DT_INT32

MCNames == { << >>, <<"x">>, <<"t", "f">>, <<"t", "f", ".", "x">> }
MCDataTypes == {DT_FLOAT, DT_INT32}
MCDimSizes == {"-1", "0", "2"}

=============================================================================
