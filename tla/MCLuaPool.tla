----------------------------- MODULE MCLuaPool -----------------------------
(* Instances of LuaPool for TLC.                                            *)
EXTENDS LuaPool

CONSTANTS t1, t2, t3
=============================================================================
