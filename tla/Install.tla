------------------------------ MODULE Install ------------------------------
(***************************************************************************)
(* What the commands of one user do to config.json and to the two key      *)
(* files: `shr install` creates them, every other command loads them, and  *)
(* generates keys when a key file is missing. Each command is a process;   *)
(* nothing is locked, a file is truncated when it is opened for writing    *)
(* and gets its contents when the stream is destroyed.                     *)
(***************************************************************************)
EXTENDS Naturals, FiniteSets

CONSTANTS
    Cmd,            \* commands, one process each
    Kind,           \* "install", "config" or "whoami" (any other command)
    Port,           \* port numbers, without 0
    DefaultPort,    \* SHR_DEFAULT_PORT
    Faults          \* the faults the environment may inject

FaultKinds ==
    { "crash",      \* a command dies
      "open",       \* a file cannot be opened
      "disk",       \* a buffered write is lost when the stream is closed
      "db" }        \* the database cannot be opened, or its schema not created

ASSUME KindAssumption == Kind \in [Cmd -> {"install", "config", "whoami"}]
ASSUME PortAssumption == Port \subseteq Nat \ {0} /\ DefaultPort \in Port
ASSUME FaultAssumption == Faults \subseteq FaultKinds

VARIABLES
    config,         \* config.json
    priv, pub,      \* identity.key and identity.pub
    ipc,            \* where a command is
    user_id,        \* its cfg_.user_id: the uuid of the install that made it
    port,           \* its cfg_.listen_port
    env,            \* SHR_PORT in its environment, 0 when it is not set
    loaded,         \* what its last Config::load returned
    shown,          \* the identities that have been printed
    lost,           \* has a write of config.json been lost?
    together,       \* history: who has generated keys beside whom
    overlap         \* history: have two installs run at the same time?

vars == <<config, priv, pub, ipc, user_id, port, env, loaded, shown, lost,
          together, overlap>>

\* generate_uuid and generate_keypair never return the same value twice, so
\* an identity and a key are named after the command that has made them.
None == [by |-> "nobody"]
By(c) == [by |-> "cmd", cmd |-> c]
Fresh == {By(c) : c \in Cmd}

\* A file: absent, truncated, or complete.
Absent == [st |-> "absent"]
Truncated == [st |-> "truncated"]
KeyFile(k) == [st |-> "whole", key |-> k]
Whole(f) == f.st = "whole"

\* A complete config.json has the identity, the port and, after an edit, maybe
\* a value of the wrong type: of listen_port, or of a field that load reads
\* later.
Wrong == {"none", "listen_port", "later"}
ConfigFile(id, p, w) == [st |-> "whole", id |-> id, port |-> p, wrong |-> w]

Ended == {"done", "failed", "dead"}

Goto(c, l) == ipc' = [ipc EXCEPT ![c] = l]

\* The command prints its identity, "(not installed)" for None, and ends.
Show(c, id) ==
    /\ shown' = shown \cup ({id} \ {None})
    /\ Goto(c, "done")
----------------------------------------------------------------------------
(* Config::load.                                                           *)

\* A mutant of Effective: SHR_PORT is not applied once more at the end.
Bug_FileWins(c, p) == p

\* apply_env_overrides, once more after the file has been read.
Effective(c, p) == IF env[c] # 0 THEN env[c] ELSE p

\* Install c is under way.
Installing(c) == Kind[c] = "install" /\ ipc[c] \notin Ended \cup {"new"}

\* A command starts, whatever others are doing.
Begin(c) ==
    /\ ipc[c] = "new"
    /\ overlap' = \/ overlap
                  \/ Kind[c] = "install" /\ \E d \in Cmd : Installing(d)

\* load returns b and leaves the port p and the identity i in cfg_.
Leaves(c, b, p, i) ==
    /\ loaded' = [loaded EXCEPT ![c] = b]
    /\ port' = [port EXCEPT ![c] = p]
    /\ user_id' = [user_id EXCEPT ![c] = i]

\* There is no config.json: the defaults, and the identity cfg_ had before.
Defaults(c) ==
    /\ config.st = "absent"
    /\ Leaves(c, TRUE, Effective(c, DefaultPort), user_id[c])

Loads(c) ==
    /\ Whole(config)
    /\ config.wrong = "none"
    /\ Leaves(c, TRUE, Effective(c, config.port), config.id)

\* The file cannot be opened, or is empty and not parsed.
CannotParse == config.st = "truncated" \/ (Whole(config) /\ "open" \in Faults)

\* What cfg_ holds when the assignment of the wrong value throws: the fields
\* before it, and no second apply_env_overrides.
HalfWay(c) ==
    /\ Whole(config)
    /\ config.wrong # "none"
    /\ Leaves(c, FALSE,
              IF config.wrong = "later" THEN config.port ELSE Effective(c, DefaultPort),
              config.id)

LoadFails(c) ==
    \/ CannotParse /\ Leaves(c, FALSE, Effective(c, DefaultPort), user_id[c])
    \/ HalfWay(c)

\* A mutant of LoadBroken: an unreadable file counts as none.
Bug_LoadIgnored(c) ==
    /\ Begin(c)
    /\ LoadFails(c)
    /\ Goto(c, [install |-> "install", config |-> "done", whoami |-> "failed"][Kind[c]])
    /\ UNCHANGED <<config, priv, pub, env, shown, lost, together>>

\* `shr config` prints the defaults, `shr install` goes on and any other
\* command gives up.
LoadDefaults(c) ==
    /\ Begin(c)
    /\ Defaults(c)
    /\ Goto(c, [install |-> "install", config |-> "done", whoami |-> "failed"][Kind[c]])
    /\ UNCHANGED <<config, priv, pub, env, shown, lost, together>>

\* load fails: every command gives up, but `shr config` loads once more.
LoadBroken(c) ==
    /\ Begin(c)
    /\ LoadFails(c)
    /\ Goto(c, IF Kind[c] = "config" THEN "reload" ELSE "failed")
    /\ UNCHANGED <<config, priv, pub, env, shown, lost, together>>

\* cmd_install stops here, the others go on with init_app.
LoadInstalled(c) ==
    /\ Begin(c)
    /\ Loads(c)
    /\ IF Kind[c] = "install" THEN Show(c, config.id)
       ELSE Goto(c, "open") /\ UNCHANGED shown
    /\ UNCHANGED <<config, priv, pub, env, lost, together>>

\* cmd_config after a failed init_app: the result of the second load is not
\* looked at, and whatever it has left in cfg_ is printed.
Reload(c) ==
    /\ ipc[c] = "reload"
    /\ Defaults(c) \/ Loads(c) \/ LoadFails(c)
    /\ Show(c, user_id'[c])
    /\ UNCHANGED <<config, priv, pub, env, lost, together, overlap>>
----------------------------------------------------------------------------
(* Identity::install and Crypto::load_or_generate_keypair.                 *)

\* A mutant of InstallBegin: the identity is not put into the configuration.
Bug_NoUserId(c) ==
    /\ ipc[c] = "install"
    /\ Goto(c, "keys")
    /\ UNCHANGED <<config, priv, pub, user_id, port, env, loaded, shown, lost,
                   together, overlap>>

\* A new identity, in memory only.
InstallBegin(c) ==
    /\ ipc[c] = "install"
    /\ user_id' = [user_id EXCEPT ![c] = By(c)]
    /\ Goto(c, "keys")
    /\ UNCHANGED <<config, priv, pub, port, env, loaded, shown, lost,
                   together, overlap>>

\* Where an error leaves a command.
Abort(c) == Goto(c, IF Kind[c] = "config" THEN "reload" ELSE "failed")

\* The keys are there: install saves the configuration, any other command is
\* initialised and does its work.
KeysReady(c) ==
    IF Kind[c] = "install" THEN Goto(c, "save") /\ UNCHANGED shown
    ELSE Show(c, user_id[c])

KeysExist == priv # Absent /\ pub # Absent

\* A mutant of LoadKeys: key files that cannot be opened are made again.
Bug_Regenerate(c) ==
    /\ ipc[c] = "keys"
    /\ KeysExist
    /\ \/ KeysReady(c)
       \/ "open" \in Faults /\ Goto(c, "openPriv") /\ UNCHANGED shown
    /\ UNCHANGED <<config, priv, pub, user_id, port, env, loaded, lost,
                   together, overlap>>

\* Both files are opened and 32 bytes are read from each. A file that has
\* fewer goes unnoticed.
LoadKeys(c) ==
    /\ ipc[c] = "keys"
    /\ KeysExist
    /\ \/ KeysReady(c)
       \/ "open" \in Faults /\ Abort(c) /\ UNCHANGED shown
    /\ UNCHANGED <<config, priv, pub, user_id, port, env, loaded, lost,
                   together, overlap>>

\* Those who are between their look at the key files and their last write.
Making == {"openPriv", "openPub", "openPubOnly", "closePub", "closePriv"}
Makers == {d \in Cmd : ipc[d] \in Making}

\* A key pair is generated, whatever another command does meanwhile.
MakeKeys(c) ==
    /\ ipc[c] = "keys"
    /\ ~KeysExist
    /\ Goto(c, "openPriv")
    /\ together' = together \cup {{c, d} : d \in Makers}
    /\ UNCHANGED <<config, priv, pub, user_id, port, env, loaded, shown, lost,
                   overlap>>

\* Both files are opened, the second one even if the first could not be.
OpenPriv(c) ==
    /\ ipc[c] = "openPriv"
    /\ \/ priv' = Truncated /\ Goto(c, "openPub")
       \/ "open" \in Faults /\ UNCHANGED priv /\ Goto(c, "openPubOnly")
    /\ UNCHANGED <<config, pub, user_id, port, env, loaded, shown, lost,
                   together, overlap>>

\* A mutant of OpenPub: nobody looks whether the files could be opened, and
\* what is written to a stream that is not open is lost.
Bug_OpensUnchecked(c) ==
    /\ \/ ipc[c] = "openPub" /\ pub' = Truncated /\ Goto(c, "closePub")
       \/ ipc[c] = "openPubOnly" /\ pub' = KeyFile(By(c)) /\ Goto(c, "save")
       \/ "open" \in Faults /\ ipc[c] = "openPub" /\ UNCHANGED pub /\ Goto(c, "closePriv")
    /\ UNCHANGED <<config, priv, user_id, port, env, loaded, shown, lost,
                   together, overlap>>

OpenPub(c) ==
    /\ \/ ipc[c] = "openPub" /\ pub' = Truncated /\ Goto(c, "closePub")
       \/ ipc[c] = "openPubOnly" /\ pub' = Truncated /\ Abort(c)
       \/ /\ "open" \in Faults
          /\ ipc[c] \in {"openPub", "openPubOnly"}
          /\ UNCHANGED pub
          /\ Abort(c)
    /\ UNCHANGED <<config, priv, user_id, port, env, loaded, shown, lost,
                   together, overlap>>

\* The streams are destroyed in reverse order, and only now written.
ClosePub(c) ==
    /\ ipc[c] = "closePub"
    /\ \/ pub' = KeyFile(By(c))
       \/ "disk" \in Faults /\ UNCHANGED pub
    /\ Goto(c, "closePriv")
    /\ UNCHANGED <<config, priv, user_id, port, env, loaded, shown, lost,
                   together, overlap>>

ClosePriv(c) ==
    /\ ipc[c] = "closePriv"
    /\ \/ priv' = KeyFile(By(c))
       \/ "disk" \in Faults /\ UNCHANGED priv
    /\ KeysReady(c)
    /\ UNCHANGED <<config, pub, user_id, port, env, loaded, lost, together,
                   overlap>>
----------------------------------------------------------------------------
(* Config::save, and the database.                                         *)

SaveOpen(c) ==
    /\ ipc[c] = "save"
    /\ \/ config' = Truncated /\ Goto(c, "close")
       \/ "open" \in Faults /\ UNCHANGED config /\ Goto(c, "failed")
    /\ UNCHANGED <<priv, pub, user_id, port, env, loaded, shown, lost,
                   together, overlap>>

\* The stream still was good() when save looked; a lost write goes unnoticed.
SaveClose(c) ==
    /\ ipc[c] = "close"
    /\ \/ config' = ConfigFile(user_id[c], port[c], "none") /\ UNCHANGED lost
       \/ "disk" \in Faults /\ UNCHANGED config /\ lost' = TRUE
    /\ Goto(c, "open")
    /\ UNCHANGED <<priv, pub, user_id, port, env, loaded, shown, together,
                   overlap>>

\* Database::open: last in cmd_install, before the keys in init_app.
OpenDatabase(c) ==
    /\ ipc[c] = "open"
    /\ \/ IF Kind[c] = "install" THEN Show(c, user_id[c])
          ELSE Goto(c, "keys") /\ UNCHANGED shown
       \/ "db" \in Faults /\ Abort(c) /\ UNCHANGED shown
    /\ UNCHANGED <<config, priv, pub, user_id, port, env, loaded, lost,
                   together, overlap>>

command(c) ==
    \/ LoadDefaults(c) \/ LoadBroken(c) \/ LoadInstalled(c) \/ Reload(c)
    \/ InstallBegin(c) \/ LoadKeys(c) \/ MakeKeys(c) \/ OpenPriv(c) \/ OpenPub(c)
    \/ ClosePub(c) \/ ClosePriv(c) \/ SaveOpen(c) \/ SaveClose(c)
    \/ OpenDatabase(c)
----------------------------------------------------------------------------
(* The environment.                                                        *)

\* A command dies; what its streams hold is lost.
Crash(c) ==
    /\ "crash" \in Faults
    /\ ipc[c] \notin Ended \cup {"new"}
    /\ Goto(c, "dead")
    /\ UNCHANGED <<config, priv, pub, user_id, port, env, loaded, shown, lost,
                   together, overlap>>

\* The user edits config.json by hand, but not the identity in it: another
\* port, or a value of the wrong type.
EditConfig(p, w) ==
    /\ Whole(config)
    /\ config' = ConfigFile(config.id, p, w)
    /\ UNCHANGED <<priv, pub, ipc, user_id, port, env, loaded, shown, lost,
                   together, overlap>>

Init ==
    /\ config = Absent
    /\ priv = Absent
    /\ pub = Absent
    /\ ipc = [c \in Cmd |-> "new"]
    /\ user_id = [c \in Cmd |-> None]
    /\ port = [c \in Cmd |-> 0]
    /\ env \in [Cmd -> Port \cup {0}]
    /\ loaded = [c \in Cmd |-> FALSE]
    /\ shown = {}
    /\ lost = FALSE
    /\ together = {}
    /\ overlap = FALSE

Next ==
    \/ \E c \in Cmd : command(c) \/ Crash(c)
    \/ \E p \in Port, w \in Wrong : EditConfig(p, w)

Spec == Init /\ [][Next]_vars
----------------------------------------------------------------------------
(* Properties.                                                             *)

TypeOK ==
    LET Ids == Fresh \cup {None}
        KeyFiles == {Absent, Truncated} \cup {KeyFile(k) : k \in Fresh}
    IN  /\ config \in {Absent, Truncated} \cup
               {ConfigFile(i, p, w) : i \in Fresh, p \in Port, w \in Wrong}
        /\ priv \in KeyFiles
        /\ pub \in KeyFiles
        /\ ipc \in [Cmd -> Ended \cup
             {"new", "install", "keys", "openPriv", "openPub", "openPubOnly",
              "closePub", "closePriv", "save", "close", "open", "reload"}]
        /\ user_id \in [Cmd -> Ids]
        /\ port \in [Cmd -> Port \cup {0}]
        /\ env \in [Cmd -> Port \cup {0}]
        /\ shown \subseteq Fresh
        /\ loaded \in [Cmd -> BOOLEAN]
        /\ lost \in BOOLEAN
        /\ together \subseteq SUBSET Cmd
        /\ overlap \in BOOLEAN

\* An identity the user has been told stays the identity of the installation:
\* whatever crashes or fails afterwards, config.json holds it, unless the very
\* write that stored it was lost without install noticing, or two installs have
\* run at the same time. In particular no two commands print different
\* identities.
ShownIsStored ==
    ~overlap => /\ \A id, other \in shown : id = other
                /\ \A id \in shown : IF lost THEN config = Truncated
                                     ELSE Whole(config) /\ config.id = id

\* Two complete key files hold the two halves of one key pair, or of the pairs
\* of two commands that were generating keys at the same time.
KeysBelong ==
    Whole(priv) /\ Whole(pub) =>
        priv = pub \/ {priv.key.cmd, pub.key.cmd} \in together

\* A complete key pair is replaced by nobody, be it an install that follows a
\* failed or crashed one or init_app of another command, but by a command that
\* was generating keys beside the one whose private key is there.
KeysStayPut ==
    [][Whole(priv) /\ Whole(pub) =>
         \/ UNCHANGED <<priv, pub>>
         \/ \E c \in Makers : {c, priv.key.cmd} \in together]_vars

\* SHR_PORT decides the port of every command whose last load has returned
\* true, whatever the file says and whatever an earlier load has left behind.
EnvWins ==
    \A c \in Cmd : loaded[c] /\ env[c] # 0 => port[c] = env[c]

\* README, Features: the key pair is generated at install time and stored. Two
\* installs at once are left aside: there a second may finish before the first.
InstalledHasKeys == Whole(config) /\ ~overlap => Whole(priv) /\ Whole(pub)
============================================================================
