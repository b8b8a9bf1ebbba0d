---------------------------- MODULE MCOptimizationLoop ----------------------------
EXTENDS OptimizationLoop, TLC

=============================================================================
