-------------------------- MODULE MCProviderStore --------------------------
EXTENDS ProviderStore

CONSTANTS k1, k2, p1, p2

MCRecords == {<<k1, p1>>, <<k1, p2>>, <<k2, p1>>}
=============================================================================
