--------------------------- MODULE MCGovernedWrite ---------------------------
(***************************************************************************)
(* GovernedWrite for TLC: an MCP server process and a CLI process of the   *)
(* same user.                                                              *)
(***************************************************************************)
EXTENDS GovernedWrite, TLC

CONSTANTS server, cli, s1, c1, u1

\* Two processes of one thread, and the tool body of an undo_apply the server runs.
TwoProcs == s1 :> server @@ u1 :> server @@ c1 :> cli
UndoByS1 == s1 :> s1 @@ u1 :> s1 @@ c1 :> c1

\* The server makes two calls, the first with an inverse in it or without, the CLI one.
FourCalls == s1 :> 2 @@ u1 :> 1 @@ c1 :> 1

=============================================================================
