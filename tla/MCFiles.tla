------------------------------- MODULE MCFiles -------------------------------
(* A small instance of Files: one name, relative to the current directory,  *)
(* and ".." of an absolute path.                                            *)
EXTENDS Files

MCPaths == {<<"a">>, <<"/", "a", "..">>}
=============================================================================
