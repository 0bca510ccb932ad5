-------------------------- MODULE MCBenchmarkService --------------------------
(* Two benchmarks one after the other, two stop requests that may overlap, *)
(* a pool of one or two workers that can grow, shrink and grow again.      *)
EXTENDS BenchmarkService

CONSTANTS c1, c2
=============================================================================
