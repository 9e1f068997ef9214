------------------------------- MODULE MCBondCall -------------------------------
(***************************************************************************)
(* A read and a write of a shared session, which race for its connections, *)
(* and a write with a session of its own.                                  *)
(***************************************************************************)
EXTENDS BondCall

CONSTANTS get, put, post

MCCall == {get, put, post}
MCRead == {get}
MCOwn  == {post}
=================================================================================
