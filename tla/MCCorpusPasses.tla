--------------------------- MODULE MCCorpusPasses ---------------------------
\* Three records: a legacy one, one with a protobuf and the same game, and one
\* that arrives.
EXTENDS CorpusPasses

MCGameOf == <<"g", "g", "h">>

MCParties == {{"metadata", "refetch"}, {"claims", "ingest"}, {"scores", "refetch"},
              {"reconvert", "ingest"}, {"export", "refetch"}, {"metadata", "reconvert"}}
=============================================================================
