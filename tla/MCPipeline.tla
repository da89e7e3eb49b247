----------------------------- MODULE MCPipeline -----------------------------
\* Pipeline on every program of up to MaxEvents events.
EXTENDS Pipeline
=============================================================================
