------------------------ MODULE MCDistributedTraining ------------------------
EXTENDS DistributedTraining
=============================================================================
