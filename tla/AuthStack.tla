----------------------------- MODULE AuthStack -----------------------------
(***************************************************************************)
(* The authentication stack (crabster-core/src/auth/mod.rs): requests go   *)
(* along a chain of providers on several threads, while the htpasswd file  *)
(* is edited.  The htpasswd provider looks at the time of the file, then   *)
(* locks its copy and loads the file when that time is another than its    *)
(* copy's, then reads the copy under a lock of its own.                    *)
(*                                                                         *)
(* An edit makes the next version of the file.  Each has its own time; a   *)
(* file that is not there has none, and reads as an empty one.             *)
(***************************************************************************)
EXTENDS Integers, Sequences

CONSTANTS Users, Passwords,
          Versions,     \* bound: the versions that the file goes through; each
                        \* gives some users a password, or is Missing
          Missing,
          Chain,        \* the kinds of the providers
          StaticUsers,  \* the passwords of the static provider
          Tasks         \* requests

Kinds == {"htpasswd", "static", "anonymous", "url"}

ASSUME AuthAssumption ==
  /\ Chain \in Seq(Kinds) /\ Len(Versions) > 0
  /\ DOMAIN StaticUsers \subseteq Users

VARIABLES
  version,  \* the file
  copy,     \* HtpasswdData: its users, its last_modified, and the version
            \* they were read from (history)
  task      \* where each request is

authVars == <<version, copy, task>>

None == 0
Empty == [u \in {} |-> 0]

Content(v) == IF Versions[v] = Missing THEN Empty ELSE Versions[v]

\* A version's number is its time.
TimeOf(v) == IF Versions[v] = Missing THEN None ELSE v

Loaded(v, time) == [users |-> Content(v), last_modified |-> time, of |-> v]

NewTask == [pc |-> "idle", at |-> 1, user |-> None, pass |-> None, time |-> None,
            began |-> 1, answer |-> "none"]

\* HtpasswdProvider::new loads the file once.
AuthInit ==
  /\ version = 1 /\ copy = Loaded(1, TimeOf(1))
  /\ task = [t \in Tasks |-> NewTask]

\* The file is edited, removed or made.
Edit ==
  /\ version < Len(Versions)
  /\ version' = version + 1
  /\ UNCHANGED <<copy, task>>

TaskStep(t, to) == task' = [task EXCEPT ![t] = to]

\* A request comes, with credentials or without.
Authenticate(t) ==
  /\ task[t].pc = "idle"
  /\ \E cred \in (Users \X Passwords) \cup {<<None, None>>} :
       TaskStep(t, [NewTask EXCEPT !.pc = "provider", !.user = cred[1], !.pass = cred[2],
                                   !.began = version])
  /\ UNCHANGED <<version, copy>>

Settles(t, answer) == [task[t] EXCEPT !.pc = "answered", !.answer = answer]
Deferred(t) == [task[t] EXCEPT !.pc = "provider", !.at = @ + 1]

\* Who is where in a map from users to passwords.
Matches(users, u, p) == u \in DOMAIN users /\ users[u] = p

\* The static provider never defers;
StaticAnswer(u, p) == IF Matches(StaticUsers, u, p) THEN "allow" ELSE "deny"

\* nor does an url provider, which asks a server: its answer is open, and one
\* that redirects lets the user in too.
UrlAnswers == {"allow", "deny"}

\* The answers of a provider that has no file.
Answers(kind, u, p) ==
  CASE kind = "anonymous" -> {"allow"}
    [] kind = "static" -> {StaticAnswer(u, p)}
    [] kind = "url" -> UrlAnswers

\* The chain has come to its end, or to a provider that answers at once.
AskProvider(t) ==
  LET at == task[t].at IN
  /\ task[t].pc = "provider"
  /\ IF at > Len(Chain) THEN TaskStep(t, Settles(t, "deny"))
     ELSE IF Chain[at] # "htpasswd"
     THEN \E answer \in Answers(Chain[at], task[t].user, task[t].pass) :
            TaskStep(t, Settles(t, answer))
     ELSE IF task[t].user = None THEN TaskStep(t, Settles(t, "deny"))
     ELSE TaskStep(t, [task[t] EXCEPT !.pc = "reload", !.time = TimeOf(version)])
  /\ UNCHANGED <<version, copy>>

\* Mutant: the time is looked up under the lock, behind the content of the
\* version that was there before.
ReloadLate(t) ==
  /\ task[t].pc = "reload"
  /\ copy' = IF TimeOf(version) = copy.last_modified THEN copy
             ELSE Loaded(task[t].began, TimeOf(version))
  /\ TaskStep(t, [task[t] EXCEPT !.pc = "check"])
  /\ UNCHANGED version

\* reload, under the lock: the copy is of the file's present content and of
\* the time that was looked up before.
Reload(t) ==
  /\ task[t].pc = "reload"
  /\ copy' = IF task[t].time = copy.last_modified THEN copy
             ELSE Loaded(version, task[t].time)
  /\ TaskStep(t, [task[t] EXCEPT !.pc = "check"])
  /\ UNCHANGED version

\* An unknown user is left to the next provider, a known one is not.
Check(t) ==
  LET u == task[t].user
  IN  /\ task[t].pc = "check"
      /\ TaskStep(t, IF u \notin DOMAIN copy.users THEN Deferred(t)
                     ELSE Settles(t, IF Matches(copy.users, u, task[t].pass)
                                      THEN "allow" ELSE "deny"))
      /\ UNCHANGED <<version, copy>>

\* The answer is out; the connection's next request is another one.
Finish(t) ==
  /\ task[t].pc = "answered"
  /\ TaskStep(t, NewTask)
  /\ UNCHANGED <<version, copy>>

AuthNext ==
  Edit \/ \E t \in Tasks : Authenticate(t) \/ AskProvider(t) \/ Reload(t) \/ Check(t) \/ Finish(t)

AuthSpec == AuthInit /\ [][AuthNext]_authVars
-----------------------------------------------------------------------------
\* A provider leaves a user to the next one when it has a file, of version v,
\* without that user.
Defers(k, v, u) == Chain[k] = "htpasswd" /\ u # None /\ u \notin DOMAIN Content(v)

\* What the k-th provider may answer to a user that it does not leave.
VerdictsOf(k, v, u, p) ==
  IF k > Len(Chain) THEN {"deny"}
  ELSE IF Chain[k] # "htpasswd" THEN Answers(Chain[k], u, p)
  ELSE {IF u # None /\ Matches(Content(v), u, p) THEN "allow" ELSE "deny"}

\* The providers that are asked: each has been left the user by all before it.
Asked(v, u) == {k \in 1 .. Len(Chain) + 1 : \A j \in 1 .. k - 1 : Defers(j, v, u)}

\* What the chain may answer when the file has version v: the last of those
\* that are asked decides.
Verdicts(v, u, p) ==
  UNION {VerdictsOf(k, v, u, p) :
           k \in {i \in Asked(v, u) : i > Len(Chain) \/ ~Defers(i, v, u)}}

\* "The file is reloaded automatically when its mtime changes" (auth 181): a
\* request is answered as the whole chain would by one version of the file that
\* was current while it ran, although the time and the content are looked up
\* apart and other requests reload between; and a known user with a wrong
\* password is not let in by a weaker provider.  Set aside are requests that
\* found no file: a load of one that had just been made keeps no time, and the
\* copy is then kept when it is removed.
AnswerCurrent ==
  \A t \in Tasks :
    task[t].pc = "answered" /\ (task[t].user = None \/ task[t].time # None) =>
      \E v \in task[t].began .. version :
        task[t].answer \in Verdicts(v, task[t].user, task[t].pass)
=============================================================================
