---------------------------- MODULE MCThreadPool ----------------------------
(* Without the managing thread: three threads, two of which are woken.     *)
(* With it: one to four threads; the modulus of unsigned int is one that,  *)
(* like 2^32, leaves 96 modulo 100.                                        *)
EXTENDS Pools
=============================================================================
