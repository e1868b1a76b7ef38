----------------------------- MODULE MCRedisOutput -----------------------------
(* Instances of RedisOutput for TLC.                                        *)
EXTENDS RedisOutput
===============================================================================
