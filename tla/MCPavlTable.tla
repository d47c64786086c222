---------------------------- MODULE MCPavlTable ----------------------------
EXTENDS PavlTable

\* Items 1 .. 9; item 8 has the key of item 3 and item 9 that of item 6.
MCKey == <<1, 2, 3, 4, 5, 6, 7, 3, 6>>
=============================================================================
