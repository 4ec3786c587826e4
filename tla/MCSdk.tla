-------------------------------- MODULE MCSdk --------------------------------
EXTENDS Sdk

\* The seeds of core_portme.c for a performance, a validation and a profile
\* run, with a third of TOTAL_DATA_SIZE.
MCSeeds == {[seed1 |-> 0, seed2 |-> 0, seed3 |-> 102, size |-> 666],
            [seed1 |-> 13333, seed2 |-> 13333, seed3 |-> 102, size |-> 666],
            [seed1 |-> 8, seed2 |-> 8, seed3 |-> 8, size |-> 400]}
=============================================================================
