----------------------------- MODULE MCServices -----------------------------
(* Each part on an instance of its own size: one mount or two, two tasks of  *)
(* a kind, and an htpasswd file that is edited, removed and made again.      *)
EXTENDS Services, TLC

CONSTANTS m1, m2, t1, s1, s2, a1, a2, f1, f2, ann, bob, pw1, pw2, q1, q2

OneUnit == t1 :> 1

\* A text that holds a StreamUrl of its own behind a ';': as a title it becomes
\* two fields.
AsItIs == t1 :> t1
AUrl == t1 :> [title |-> NoText, url |-> t1]

\* Once a listener is out of step, nothing more is said of it.
InStep == ~adrift

FileVersions == <<ann :> pw1, Missing, ann :> pw2 @@ bob :> pw2, Missing>>
BobIsStatic == bob :> pw1
FileThenStatic == <<"htpasswd", "static">>
=============================================================================
