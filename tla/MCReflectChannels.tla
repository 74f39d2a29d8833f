--------------------------- MODULE MCReflectChannels ---------------------------
(* Instances of ReflectChannels for TLC.                                      *)
EXTENDS ReflectChannels, TLC

(* Channels, addresses and users are interchangeable.                         *)
Symmetric == Permutations(Channels) \cup Permutations(Addrs) \cup Permutations(Users)
================================================================================
