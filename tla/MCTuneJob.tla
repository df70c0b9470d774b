------------------------------ MODULE MCTuneJob ------------------------------
EXTENDS TuneJob

TwoCandidates == <<8, 12>>
OneHost       == <<"first">>
=============================================================================
