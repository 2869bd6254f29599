----------------------------- MODULE MCBlkQueue -----------------------------
(***************************************************************************)
(* Small instances of BlkQueue for TLC.                                    *)
(***************************************************************************)
EXTENDS BlkQueue, TLC

(* Producers, consumers and elements are interchangeable.  Used only where *)
(* no liveness property is checked.                                        *)
Symmetry == Permutations(Producers) \cup Permutations(Consumers)
              \cup Permutations(Elements)
=============================================================================
