-------------------------------- MODULE MCClassC --------------------------------
\* Instances of ClassC: the windows on one frequency and on two.
EXTENDS ClassC

MCFreqPairs == { <<1, 1>>, <<1, 2>> }
================================================================================
