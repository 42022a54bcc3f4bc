---------------------------- MODULE MCToolCalls ----------------------------
EXTENDS ToolCalls

CONSTANTS bash, fetch, mcp
=============================================================================
