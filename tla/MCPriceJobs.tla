---------------------------- MODULE MCPriceJobs ----------------------------
EXTENDS PriceJobs, TLC
CONSTANTS bitcoin, wrapped, other

MCCoins == {bitcoin, wrapped, other}
MCListings == {MCCoins, {bitcoin, wrapped}, {}}
MCAnswers == {MCCoins, {other}}
Symmetry == Permutations({bitcoin, wrapped})
=============================================================================
