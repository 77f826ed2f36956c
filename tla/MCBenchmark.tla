---------------------------- MODULE MCBenchmark ----------------------------
EXTENDS Benchmark

MCReprs == RawSource \cup ProjectKind \cup CargoPackage \cup CargoBuildResult
=============================================================================
