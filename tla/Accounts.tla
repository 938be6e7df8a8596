------------------------------ MODULE Accounts ------------------------------
(***************************************************************************)
(* The accounts (crabster-db): the bootstrap of the default account at the *)
(* start of the server, which may be killed or fail at each statement; the *)
(* accounts of the REST API; and the admission of a source, which reads    *)
(* the mount's configuration, the account and the number of its mounts one *)
(* query after the other.  The database outlives the server.               *)
(***************************************************************************)
EXTENDS Integers, FiniteSets, MountPoints

CONSTANTS AccountIds,
          NoAccount,       \* a source that no account answers for
          PlanLimits,      \* max_sources of each plan (1, 5, 50)
          DefaultLimit,    \* and of the default account (50)
          Feeders,         \* source connections
          ShoutcastMount,  \* shoutcast_mount of the file configuration
          NoMount,         \* the absence of one
          RootMount        \* "/"

ASSUME AccountsAssumption ==
  /\ NoAccount \notin AccountIds
  /\ PlanLimits \subseteq Nat \ {0} /\ DefaultLimit \in PlanLimits
  /\ NoMount \notin Mounts /\ ShoutcastMount \in Mounts \cup {NoMount}
  /\ RootMount \in Mounts

VARIABLES
  phase,     \* where the server is
  accounts,  \* max_sources of the accounts of the database
  admin,     \* the users have an administrator
  configs,   \* the mount_configs, as pairs of an account and a mount
  feeder,    \* where each source connection is
  torn       \* history: the server stopped between the two inserts

accountVars == <<phase, accounts, admin, configs, feeder, torn>>

Idle == [pc |-> "idle", mount |-> RootMount, account |-> NoAccount, limit |-> 0]

AccountsInit ==
  /\ phase = "down" /\ accounts = [a \in {} |-> 0] /\ admin = FALSE /\ configs = {}
  /\ feeder = [f \in Feeders |-> Idle] /\ torn = FALSE

-----------------------------------------------------------------------------
\* The database is opened and its tables are there, or the server does
\* without.
OpenDatabase ==
  /\ phase = "down" /\ phase' \in {"opened", "without"}
  /\ UNCHANGED <<accounts, admin, configs, feeder, torn>>

\* register_default_admin: it does nothing when there is an account.
CountAccounts ==
  /\ phase = "opened"
  /\ phase' = IF DOMAIN accounts = {} THEN "empty" ELSE "up"
  /\ UNCHANGED <<accounts, admin, configs, feeder, torn>>

WithAccount(a, limit) == [x \in DOMAIN accounts \cup {a} |-> IF x = a THEN limit ELSE accounts[x]]

InsertAccount ==
  /\ phase = "empty" /\ phase' = "inserted"
  /\ \E a \in AccountIds : accounts' = WithAccount(a, DefaultLimit)
  /\ UNCHANGED <<admin, configs, feeder, torn>>

\* Mutant: an insert that fails goes unnoticed.
InsertUserUnchecked ==
  /\ phase = "inserted" /\ phase' = "up" /\ admin' \in BOOLEAN
  /\ UNCHANGED <<accounts, configs, feeder, torn>>

InsertUser ==
  /\ phase = "inserted" /\ phase' = "up" /\ admin' = TRUE
  /\ UNCHANGED <<accounts, configs, feeder, torn>>

\* The server is killed, or a statement of the bootstrap fails, which ends it.
Stop ==
  /\ phase # "down" /\ phase' = "down"
  /\ torn' = (torn \/ phase = "inserted")
  /\ feeder' = [f \in Feeders |-> Idle]
  /\ UNCHANGED <<accounts, admin, configs>>

\* POST /accounts.
CreateAccount(a) ==
  /\ phase = "up" /\ a \notin DOMAIN accounts
  /\ \E limit \in PlanLimits : accounts' = WithAccount(a, limit)
  /\ UNCHANGED <<phase, admin, configs, feeder, torn>>

\* A mount is configured; nothing in the server does it, so a tool beside it.
CreateMountConfig(a, m) ==
  /\ a \in DOMAIN accounts /\ <<a, m>> \notin configs
  /\ configs' = configs \cup {<<a, m>>}
  /\ UNCHANGED <<phase, accounts, admin, feeder, torn>>

-----------------------------------------------------------------------------
Serving == phase \in {"up", "without"}
ConfiguredFor(m) == IF phase = "without" THEN {} ELSE {a \in AccountIds : <<a, m>> \in configs}

FeederStep(f, to) ==
  /\ Serving
  /\ feeder' = [feeder EXCEPT ![f] = to]
  /\ UNCHANGED <<phase, accounts, admin, configs, torn>>

\* An HTTP source asks for a mount.  The registry of the sources is not part
\* of this module (SourceStream has it): it may turn the source away here,
\* which leaves it idle.
Ask(f, m) ==
  /\ feeder[f].pc = "idle"
  /\ FeederStep(f, [Idle EXCEPT !.pc = "config", !.mount = m])

\* get_mount_config: one of the configurations of the mount, or none, and then
\* the global password decides.  The query may fail, as may those after it, and
\* then the source is turned away.
LookupConfig(f) ==
  /\ feeder[f].pc = "config"
  /\ \/ \E a \in ConfiguredFor(feeder[f].mount) :
          FeederStep(f, [feeder[f] EXCEPT !.pc = "account", !.account = a])
     \/ /\ ConfiguredFor(feeder[f].mount) = {}
        /\ FeederStep(f, [feeder[f] EXCEPT !.pc = "register"])
     \/ FeederStep(f, Idle)

\* check_account_quota: get_account,
ReadAccount(f) ==
  /\ feeder[f].pc = "account"
  /\ \/ FeederStep(f, [feeder[f] EXCEPT !.pc = "count", !.limit = accounts[feeder[f].account]])
     \/ FeederStep(f, Idle)

\* get_account_source_count: the mounts that the account has configured.
SourceCount(a) == Cardinality({m \in Mounts : <<a, m>> \in configs})

\* Mutant: the count is not compared.
CountSourcesOnly(f) ==
  /\ feeder[f].pc = "count"
  /\ \/ FeederStep(f, [feeder[f] EXCEPT !.pc = "register"])
     \/ FeederStep(f, Idle)

\* and the count.  Below the limit the mount's own password decides.
CountSources(f) ==
  /\ feeder[f].pc = "count"
  /\ \/ /\ SourceCount(feeder[f].account) < feeder[f].limit
        /\ FeederStep(f, [feeder[f] EXCEPT !.pc = "register"])
     \/ FeederStep(f, Idle)

\* find_mount_by_source_password: one of the mounts that are configured.
PasswordMounts == {m \in Mounts : ConfiguredFor(m) # {}}

\* The mounts that the password of a Shoutcast source can stand for.
ShoutcastMounts ==
  IF ShoutcastMount # NoMount THEN {ShoutcastMount} ELSE PasswordMounts \cup {RootMount}

\* A Shoutcast source is told its mount; no quota is read.
AskShoutcast(f) ==
  /\ feeder[f].pc = "idle"
  /\ \E m \in ShoutcastMounts :
       FeederStep(f, [Idle EXCEPT !.pc = "register", !.mount = m])

\* The source is registered, or the registry has another source on its mount.
Register(f) ==
  /\ feeder[f].pc = "register"
  /\ \/ FeederStep(f, [feeder[f] EXCEPT !.pc = "live"])
     \/ FeederStep(f, Idle)

SourceGone(f) == feeder[f].pc = "live" /\ FeederStep(f, Idle)

AccountsNext ==
  \/ OpenDatabase \/ CountAccounts \/ InsertAccount \/ InsertUser \/ Stop
  \/ \E a \in AccountIds :
       CreateAccount(a) \/ \E m \in Mounts : CreateMountConfig(a, m)
  \/ \E f \in Feeders :
       \/ \E m \in Mounts : Ask(f, m)
       \/ LookupConfig(f) \/ ReadAccount(f) \/ CountSources(f)
       \/ AskShoutcast(f) \/ Register(f) \/ SourceGone(f)

AccountsSpec == AccountsInit /\ [][AccountsNext]_accountVars
-----------------------------------------------------------------------------
\* A server that has its database lets its administrator in, unless a start was
\* cut short between the two inserts (db auth 122, 136): then there is an
\* account, no later start makes up for the user, and nobody can log in.
BootstrapHasAdmin == phase = "up" /\ ~torn => admin

\* The mounts that an account's sources feed are fewer than its limit (a source
\* is refused as soon as the account has as many configured: tenant/mod.rs:486),
\* whatever is configured between the queries of the sources that are being
\* admitted.  A Shoutcast source does not count, as no quota is read for it.
QuotaKept ==
  \A a \in DOMAIN accounts :
    Cardinality({feeder[f].mount : f \in {g \in Feeders :
                   feeder[g].pc = "live" /\ feeder[g].account = a}}) < accounts[a]
=============================================================================
