------------------------------ MODULE MCOAuth ------------------------------
(* The two kinds of credentials a login leads to, one of them per behaviour:   *)
(* OAuth runs, or Sessions does, and the variables of the other stay as they   *)
(* began.                                                                      *)
EXTENDS Logins, TLC

VARIABLE which

sVars == <<store, sUser, epoch, sess, idx, used, sReq, dead, late>>

MCInit ==
  /\ which \in {"oauth", "sessions"}
  /\ Init /\ S!Init
  /\ which = "oauth" => store = "memory"

MCNext ==
  /\ UNCHANGED which
  /\ \/ which = "oauth" /\ Next /\ UNCHANGED sVars
     \/ which = "sessions" /\ S!Next /\ UNCHANGED vars

MCSpec == MCInit /\ [][MCNext]_<<which, vars, sVars>>

Sym == UNION {Permutations(Reqs), Permutations(Tokens), Permutations(Scopes)}
=============================================================================
