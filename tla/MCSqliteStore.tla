---------------------------- MODULE MCSqliteStore ----------------------------
EXTENDS SqliteStore, MCPlatform
=============================================================================
