---------------------------- MODULE MCExperimentRun ----------------------------
EXTENDS ExperimentRun, TLC

=============================================================================
