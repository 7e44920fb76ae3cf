----------------------------- MODULE MCEventIngest -----------------------------
\* The instance for TLC: a parser that inserts within its loop, one that starts
\* with the plugins' events, one that reads one event, one that swallows errors,
\* and the catch-all; an analysis of two queries and one that keeps empty results.
EXTENDS EventIngest

CONSTANTS c1, c2
MCCatOf == [r \in Records |-> IF r = 1 THEN c1 ELSE c2]
MCParsers == {Evtx, Registry, Prefetch, Browser, FileMetadata}
MCAnalyses == {BrowsedUrls(c1), ExecutionEvidence}
=============================================================================
