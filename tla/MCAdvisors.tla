----------------------------- MODULE MCAdvisors -----------------------------
EXTENDS Advisors
\* three items, for a third; one, for all or nothing; none at all
MCMaxItems == [api |-> 3, database |-> 0, services |-> 0, config |-> 1]
=============================================================================
