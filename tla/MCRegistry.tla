------------------------------- MODULE MCRegistry -------------------------------
\* Chains for Registry: a validator "s", miners "a" and "b".
EXTENDS Registry

\* b joins and later takes the UID of a, which comes back under b's.
Swapped == <<<<"s", "a">>, <<"s", "a", "b">>, <<"s", "b", "a">>>>

\* The subnet gets smaller, and a comes back at the UID it had.
Shrunk == <<<<"s", "a", "b">>, <<"s", "b">>, <<"s", "a", "b">>>>

\* The validator is not registered for a while.
Unregistered == <<<<"s", "a">>, <<"b", "a">>, <<"s", "a">>>>

MCChains == {Swapped, Shrunk, Unregistered}
===============================================================================
