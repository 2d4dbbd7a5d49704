---------------------------- MODULE MCQualityLoop ----------------------------
EXTENDS QualityLoop
CONSTANTS e1, s1, s2
\* class s1 is found in "class s2"
MCCovers == {<<s1, s2>>}
\* without services.py, as in tests/test_repair_agent.py:292; and without api.py,
\* with one of the other files and one that does not exist
MCListings ==
  {[code |-> {"models", "api"}, others |-> 0, absent |-> 0],
   [code |-> {"services"}, others |-> 1, absent |-> 1]}
=============================================================================
