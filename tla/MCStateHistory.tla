--------------------------- MODULE MCStateHistory ---------------------------
EXTENDS StateHistory

\* No filter, one address, a topic at each position, a wildcard before a topic, alternatives,
\* and two topics that no log has together.
MCFilters ==
    {[addresses |-> NoAddresses, topics |-> NoTopics],
     [addresses |-> {1}, topics |-> NoTopics],
     [addresses |-> NoAddresses, topics |-> <<{1}>>],
     [addresses |-> NoAddresses, topics |-> <<{}, {1}>>],
     [addresses |-> {2}, topics |-> <<{1, 2}, {0}>>],
     [addresses |-> NoAddresses, topics |-> <<{2}, {1}>>],
     [addresses |-> NoAddresses, topics |-> <<{1}, {7}>>]}
=============================================================================
