------------------------------ MODULE Genomes ------------------------------
(***************************************************************************)
(* The genomes of the four families side by side: the hierarchies of       *)
(* Stratograph, the circuits of Primordia, the blocks of Prism and the     *)
(* graphs of Topograph. They share no state, and one promise.              *)
(***************************************************************************)
EXTENDS HierarchyGenome, CircuitGenome, BlockGenome, GraphGenome

\* Whatever edits a genome goes through, in whatever order, and whomever it is
\* crossed with, it is one its own validation and its compiler accept: no
\* search is ended by the ValueError of a child it drew itself.
GenomesStayExecutable ==
  HierarchiesStayExecutable /\ CircuitsStayExecutable /\ ModelsStayExecutable
=============================================================================
