---------------------------- MODULE MCProjection ---------------------------
EXTENDS Projection
============================================================================
