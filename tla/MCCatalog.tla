----------------------------- MODULE MCCatalog -----------------------------
EXTENDS Catalog

CONSTANTS v1, v2

(* Two costs of one variant, and both variants.                             *)
MCRequested == {[v \in {v1} |-> 1], [v \in {v1} |-> 2], [v \in {v1, v2} |-> 1]}
=============================================================================
