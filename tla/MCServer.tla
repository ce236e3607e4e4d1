------------------------------ MODULE MCServer ------------------------------
(* Small counters stand for the 32-bit and the 16-bit identifiers, so that   *)
(* an uninitialised m_IDCnt can be in range, out of range or about to wrap.  *)
EXTENDS Server, TLC

Symmetry == Permutations(Conns)
=============================================================================
