------------------------------ MODULE Libvxdb ------------------------------
(***************************************************************************)
(* libvxdb: handles to databases.  vxdb_load() turns the name of a         *)
(* database into that of a driver, loads the driver's shared library, puts *)
(* a dummy function wherever the driver has none, and initialises it.      *)
(***************************************************************************)
EXTENDS Integers, FiniteSets

CONSTANTS
  Handle,     \* the handles of one process
  Driver,     \* drivers
  None,       \* no driver, no answer
  Database,   \* names a caller may give, "*" among them
  Conf,       \* the driver that each db_<name>.conf names, None if there is none
  Default,    \* DEFAULT_DATABASE of libvxdb.conf, or None
  Provides    \* the functions that each driver has

ASSUME LoaderAssumption ==
  /\ None \notin Driver /\ IsFiniteSet(Handle)
  /\ DOMAIN Conf = Database \ {"*"} /\ \A n \in DOMAIN Conf : Conf[n] \in Driver \cup {None}
  /\ Default \in DOMAIN Conf \cup {None}
  /\ DOMAIN Provides = Driver

VARIABLES
  drv,   \* the driver of each loaded handle
  dl     \* how often each shared library has been opened and not closed

Changes   == {"useradd", "usermod", "userdel", "groupadd", "groupmod", "groupdel",
              "sgmapadd", "sgmapdel"}
UserTrav  == {"usertrav_init", "usertrav_walk", "usertrav_free"}
GroupTrav == {"grouptrav_init", "grouptrav_walk", "grouptrav_free"}
Single    == Changes \cup {"init", "open", "close", "exit", "modctl", "lock", "unlock",
                           "getpwuid", "getpwnam", "getgrgid", "getgrnam", "sgmapget"}

\* What the vxdummy_ functions return: success for what needs no doing, the
\* handle as traverser, an error number for a change; nothing is found or counted.
dummy(f) ==
  IF f \in {"init", "open", "lock", "unlock"} THEN "1"
  ELSE IF f \in Changes \ {"sgmapdel"} THEN "-EPERM"
  ELSE IF f \in {"usertrav_init", "grouptrav_init"} THEN "vp"
  ELSE "0"

\* The driver's functions with the dummies filled in; the three traversal
\* functions only if all of them are missing.
vxdb_fix_vtable(d) ==
  LET has == Provides[d]
      fill(trio) == IF trio \cap has = {} THEN trio ELSE {}
  IN  [f \in has \cup Single \cup fill(UserTrav) \cup fill(GroupTrav) |->
         IF f \in has THEN d ELSE "dummy"]

Has(h, f) == vxdb_fix_vtable(drv[h])[f] # "dummy"

\* The driver for a name; None when there is nothing to load.
vxdb_config(name) ==
  LET real == IF name = "*" THEN Default ELSE name
  IN  IF real = None THEN None ELSE Conf[real]

LoadInit ==
  /\ drv = [h \in Handle |-> None]
  /\ dl = [d \in Driver |-> 0]

\* Where vxdb_load() may fail.  The library is open from "dlsym" on.
Stage == {"config", "dlopen", "dlsym", "init", "done"}
Opened(stage) == stage \in {"dlsym", "init", "done"}

\* mutant: a driver that cannot be initialised stays loaded
vxdb_cleanup_KeepsInit(stage) == stage # "init"

\* Whether vxdb_cleanup() closes the library after a failure.
vxdb_cleanup(stage) == Opened(stage)

vxdb_load(h, name, stage) ==
  /\ drv[h] = None
  /\ LET d == vxdb_config(name)
     IN  /\ (d = None) <=> (stage = "config")
         /\ stage = "init" => "init" \in Provides[d]
         /\ IF stage = "done"
              THEN /\ drv' = [drv EXCEPT ![h] = d]
                   /\ dl' = [dl EXCEPT ![d] = @ + 1]
              ELSE /\ dl' = IF Opened(stage) /\ ~vxdb_cleanup(stage)
                              THEN [dl EXCEPT ![d] = @ + 1] ELSE dl
                   /\ UNCHANGED drv

vxdb_unload(h) ==
  /\ drv[h] # None
  /\ drv' = [drv EXCEPT ![h] = None]
  /\ dl' = [dl EXCEPT ![drv[h]] = @ - 1]

-----------------------------------------------------------------------------
(* A library is open once for every handle that uses it, and not at all      *)
(* after a failure at any point of loading.                                  *)
NoLeak == \A d \in Driver : dl[d] = Cardinality({h \in Handle : drv[h] = d})
=============================================================================
