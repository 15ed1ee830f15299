---------------------------- MODULE MCSecretStore ----------------------------
(***************************************************************************)
(* Two commands at a time, two targets of which one may do without AUTH,   *)
(* and a .env with a secret for each.                                      *)
(***************************************************************************)
EXTENDS SecretStore, TLC

CONSTANTS cache1, broker1, s1

OldEnv == cache1 :> s1 @@ broker1 :> s1

\* Once two commands clashed only SwappedWhole and ConnectionsFromStore say anything: such
\* a run is followed to the end of the second change.  Two init dialogs at once are
\* followed for one change.
Followed == /\ clashed => edits <= 2
            /\ (\A p \in Procs : job[p] = "init") => edits <= 1

Alike == Permutations(Procs) \cup Permutations(Passwords)

=============================================================================
