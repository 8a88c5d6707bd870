---------------------------- MODULE MCMemoryStore ----------------------------
EXTENDS MemoryStore, MCPlatform
=============================================================================
