---------------------------- MODULE InstallProofs ----------------------------
(***************************************************************************)
(* Theorems about Install, for any number of commands of every kind that   *)
(* overlap as they like, any ports and environments, every set of faults.  *)
(***************************************************************************)
EXTENDS Install, TLAPS

----------------------------------------------------------------------------
(* Files.                                                                  *)

Ids == Fresh \cup {None}
KeyFiles == {Absent, Truncated} \cup {KeyFile(k) : k \in Fresh}
Configs == {Absent, Truncated}
           \cup {ConfigFile(i, p, w) : i \in Fresh, p \in Port, w \in Wrong}

\* The three states of a file are different, and there are no others.
LEMMA FileStates ==
    /\ Absent # Truncated /\ ~Whole(Absent) /\ ~Whole(Truncated)
    /\ \A k : Whole(KeyFile(k)) /\ KeyFile(k).key = k
    /\ \A i, p, w : /\ Whole(ConfigFile(i, p, w))
                    /\ ConfigFile(i, p, w).id = i /\ ConfigFile(i, p, w).port = p
    /\ \A f \in KeyFiles \cup Configs : f = Absent \/ f = Truncated \/ Whole(f)
    /\ Absent.st = "absent" /\ Truncated.st = "truncated"
  BY DEF Absent, Truncated, Whole, KeyFile, ConfigFile, KeyFiles, Configs

\* The state of a file is what its tag says.
LEMMA FileTags ==
    ASSUME NEW f \in KeyFiles \cup Configs
    PROVE  /\ f.st = "absent" <=> f = Absent
           /\ f.st = "truncated" <=> f = Truncated
           /\ f.st = "whole" <=> Whole(f)
  BY FileStates DEF Whole

\* A complete config.json holds an identity and a port.
LEMMA ConfigFields ==
    ASSUME NEW f \in Configs, Whole(f)
    PROVE  f.id \in Fresh /\ f.port \in Port
  <1>1. PICK i \in Fresh, p \in Port, w \in Wrong : f = ConfigFile(i, p, w)
    BY FileStates DEF Configs
  <1> QED
    BY <1>1, FileStates

\* Nobody's identity is not an identity.
LEMMA NoneIsNoId == None \notin Fresh
  BY DEF None, Fresh, By

\* The port a command uses is a port.
LEMMA EffectiveType ==
    ASSUME NEW c \in Cmd, NEW p \in Port, env \in [Cmd -> Port \cup {0}]
    PROVE  /\ Effective(c, p) \in Port
           /\ env[c] # 0 => Effective(c, p) = env[c]
  BY DEF Effective
----------------------------------------------------------------------------
(* Types.                                                                  *)

Stages == Ended \cup
    {"new", "install", "keys", "openPriv", "openPub", "openPubOnly",
     "closePub", "closePriv", "save", "close", "open", "reload"}

\* From the moment a command has an identity it also has a port: what it saves
\* is a configuration. TypeOK is not inductive without this.
Identified ==
    \A c \in Cmd :
        /\ ipc[c] \notin Ended \cup {"new", "install", "reload"} => user_id[c] \in Fresh
        /\ ipc[c] # "new" => port[c] \in Port
        /\ ipc[c] \in {"new", "install"} => user_id[c] = None

TypeInv == TypeOK /\ Identified

\* The initial state has the type.
LEMMA InitType == Init => TypeInv
  <1> SUFFICES ASSUME Init PROVE TypeInv
    OBVIOUS
  <1>1. TypeOK
    <2>1. lost \in BOOLEAN
      BY DEF Init
    <2>2. /\ config \in Configs /\ priv \in KeyFiles /\ pub \in KeyFiles
      BY DEF Init, Configs, KeyFiles
    <2>3. ipc \in [Cmd -> Stages]
      BY DEF Init, Stages
    <2>4. /\ user_id \in [Cmd -> Ids] /\ port \in [Cmd -> Port \cup {0}]
          /\ env \in [Cmd -> Port \cup {0}] /\ shown \subseteq Fresh
      BY DEF Init, Ids
    <2>5. loaded \in [Cmd -> BOOLEAN] /\ together \subseteq SUBSET Cmd
          /\ overlap \in BOOLEAN
      BY DEF Init
    <2> QED
      BY <2>1, <2>2, <2>3, <2>4, <2>5 DEF TypeOK, Configs, KeyFiles, Stages, Ids
  <1>2. Identified
    BY DEF Init, Identified, Ended
  <1> QED
    BY <1>1, <1>2 DEF TypeInv

\* A step that moves one command to another place, and leaves it with an
\* identity and a port where it needs them, preserves the type.
LEMMA MoveType ==
    ASSUME TypeInv, NEW c \in Cmd, NEW l \in Stages, Goto(c, l),
           config' \in Configs, priv' \in KeyFiles, pub' \in KeyFiles,
           shown' \subseteq Fresh, lost' \in BOOLEAN, UNCHANGED env,
           loaded' \in [Cmd -> BOOLEAN], together' \subseteq SUBSET Cmd, overlap' \in BOOLEAN,
           NEW i \in Ids, user_id' = [user_id EXCEPT ![c] = i],
           NEW p \in Port, port' = [port EXCEPT ![c] = p],
           l \in Ended \cup {"reload"} \/ (l = "install" /\ i = None)
               \/ (l \notin {"new", "install"} /\ i \in Fresh)
    PROVE  TypeInv'
  <1>1. TypeOK'
    BY DEF TypeInv, TypeOK, Goto, Stages, Ids, KeyFiles, Configs
  <1>2. Identified'
    <2>1. /\ ipc \in [Cmd -> Stages] /\ user_id \in [Cmd -> Ids]
          /\ port \in [Cmd -> Port \cup {0}]
      BY DEF TypeInv, TypeOK, Stages, Ids
    <2> QED
      BY <2>1 DEF TypeInv, Identified, Goto, Ended
  <1> QED
    BY <1>1, <1>2 DEF TypeInv

\* The same for a step that leaves identity and port alone.
LEMMA StepType ==
    ASSUME TypeInv, NEW c \in Cmd, NEW l \in Stages, Goto(c, l),
           config' \in Configs, priv' \in KeyFiles, pub' \in KeyFiles,
           shown' \subseteq Fresh, lost' \in BOOLEAN,
           together' \subseteq SUBSET Cmd, overlap' \in BOOLEAN,
           UNCHANGED <<user_id, port, env, loaded>>, ipc[c] # "new",
           l \in Ended \cup {"reload"}
               \/ (l # "new" /\ l # "install" /\ user_id[c] \in Fresh)
    PROVE  TypeInv'
  <1>1. /\ user_id[c] \in Ids /\ port[c] \in Port
        /\ user_id' = [user_id EXCEPT ![c] = user_id[c]]
        /\ port' = [port EXCEPT ![c] = port[c]]
        /\ loaded' \in [Cmd -> BOOLEAN]
    BY DEF TypeInv, TypeOK, Identified, Ids
  <1> HIDE DEF TypeInv
  <1> QED
    BY <1>1, MoveType

\* What is printed is an identity.
LEMMA ShowType ==
    ASSUME NEW c \in Cmd, NEW i \in Ids, shown \subseteq Fresh, Show(c, i)
    PROVE  shown' \subseteq Fresh /\ Goto(c, "done")
  BY DEF Show, Ids

\* Whatever load does, it leaves a port, and an identity or nobody's.
LEMMA LoadType ==
    ASSUME TypeInv, NEW c \in Cmd, Defaults(c) \/ Loads(c) \/ LoadFails(c)
    PROVE  /\ loaded' \in [Cmd -> BOOLEAN]
           /\ \E i \in Ids, p \in Port :
                /\ user_id' = [user_id EXCEPT ![c] = i]
                /\ port' = [port EXCEPT ![c] = p]
                /\ i = user_id[c] \/ i \in Fresh
                /\ Loads(c) => i \in Fresh
                /\ Defaults(c) => i = user_id[c]
  <1>1. /\ config \in Configs /\ loaded \in [Cmd -> BOOLEAN] /\ user_id[c] \in Ids
        /\ env \in [Cmd -> Port \cup {0}] /\ DefaultPort \in Port /\ Fresh \subseteq Ids
    BY PortAssumption DEF TypeInv, TypeOK, Configs, Ids
  <1>2. Effective(c, DefaultPort) \in Port
    BY <1>1, EffectiveType
  <1>3. ASSUME Whole(config)
        PROVE  /\ config.id \in Fresh /\ config.port \in Port
               /\ Effective(c, config.port) \in Port
    BY <1>1, <1>3, ConfigFields, EffectiveType
  <1>4. ASSUME NEW b \in BOOLEAN, NEW p \in Port, NEW i \in Ids, Leaves(c, b, p, i)
        PROVE  /\ loaded' \in [Cmd -> BOOLEAN]
               /\ user_id' = [user_id EXCEPT ![c] = i]
               /\ port' = [port EXCEPT ![c] = p]
    BY <1>1, <1>4 DEF Leaves
  <1>5. CASE Defaults(c)
    <2>1. ~Whole(config)
      BY <1>5 DEF Defaults, Whole
    <2> QED
      BY <1>1, <1>2, <1>4, <1>5, <2>1 DEF Defaults, Loads
  <1>6. CASE Loads(c)
    <2>1. ~Defaults(c)
      BY <1>6 DEF Defaults, Loads, Whole
    <2> QED
      BY ZenonT(30), <1>1, <1>3, <1>4, <1>6, <2>1 DEF Loads
  <1>7. CASE LoadFails(c)
    <2>1. \E i \in Ids, p \in Port : Leaves(c, FALSE, p, i) /\ (i = user_id[c] \/ i \in Fresh)
      BY <1>1, <1>2, <1>3, <1>7 DEF LoadFails, HalfWay
    <2>2. CASE Loads(c)
      BY <1>6, <2>2
    <2>3. CASE Defaults(c)
      BY <1>5, <2>3
    <2> QED
      BY <1>4, <2>1, <2>2, <2>3
  <1> QED
    BY <1>5, <1>6, <1>7

\* Every step preserves the type.
LEMMA NextType == TypeInv /\ [Next]_vars => TypeInv'
  <1> SUFFICES ASSUME TypeInv, [Next]_vars PROVE TypeInv'
    OBVIOUS
  <1>t. /\ config \in Configs /\ priv \in KeyFiles /\ pub \in KeyFiles
        /\ ipc \in [Cmd -> Stages]
        /\ user_id \in [Cmd -> Ids]
        /\ env \in [Cmd -> Port \cup {0}]
        /\ shown \subseteq Fresh /\ lost \in BOOLEAN
        /\ loaded \in [Cmd -> BOOLEAN] /\ together \subseteq SUBSET Cmd
        /\ overlap \in BOOLEAN
    BY DEF TypeInv, TypeOK, Stages, Ids, KeyFiles, Configs
  <1>o. \A c \in Cmd : Begin(c) => overlap' \in BOOLEAN
    BY <1>t DEF Begin
  <1>k. \A c \in Cmd : Kind[c] \in {"install", "config", "whoami"}
    BY KindAssumption
  <1>d. DefaultPort \in Port
    BY PortAssumption
  <1>i. \A c \in Cmd : ipc[c] \notin Ended \cup {"new", "install", "reload"}
                       => user_id[c] \in Fresh
    BY DEF TypeInv, Identified
  <1>n. \A c \in Cmd : ipc[c] \in {"new", "install"} => user_id[c] = None
    BY DEF TypeInv, Identified
  <1>s. {"done", "failed", "dead", "new", "install", "keys", "openPriv", "openPub",
         "openPubOnly", "closePub", "closePriv", "save", "close", "open", "reload"}
        \subseteq Stages
    BY DEF Stages, Ended
  <1>f. Truncated \in Configs /\ Truncated \in KeyFiles
        /\ \A c \in Cmd : KeyFile(By(c)) \in KeyFiles /\ By(c) \in Fresh
    BY DEF Configs, KeyFiles, Fresh
  <1>g. \A c \in Cmd : Fresh \subseteq Ids /\ None \in Ids
    BY DEF Ids
  <1>1. ASSUME NEW c \in Cmd, LoadDefaults(c) PROVE TypeInv'
    <2> DEFINE l == [install |-> "install", config |-> "done", whoami |-> "failed"][Kind[c]]
    <2>1. /\ l \in Stages
          /\ l = "install" \/ l \in Ended
      BY <1>k, <1>s DEF Ended
    <2>2. Goto(c, l)
      BY <1>1 DEF LoadDefaults
    <2> HIDE DEF l
    <2>3. /\ loaded' \in [Cmd -> BOOLEAN] /\ user_id[c] = None
          /\ \E p \in Port : /\ user_id' = [user_id EXCEPT ![c] = None]
                             /\ port' = [port EXCEPT ![c] = p]
      BY <1>1, <1>n, LoadType DEF LoadDefaults, Begin
    <2> QED
      BY <1>1, <1>o, <1>t, <1>g, <2>1, <2>2, <2>3, MoveType DEF LoadDefaults
  <1>2. ASSUME NEW c \in Cmd, LoadBroken(c) PROVE TypeInv'
    <2>1. PICK l \in {"reload", "failed"} : Goto(c, l)
      BY <1>2 DEF LoadBroken
    <2>2. l \in Stages /\ l \in Ended \cup {"reload"}
      BY <1>s DEF Ended
    <2> QED
      BY <1>2, <1>o, <1>t, <2>1, <2>2, LoadType, MoveType DEF LoadBroken
  <1>3. ASSUME NEW c \in Cmd, LoadInstalled(c) PROVE TypeInv'
    <2>1. PICK i \in Fresh, p \in Port : /\ user_id' = [user_id EXCEPT ![c] = i]
                                         /\ port' = [port EXCEPT ![c] = p]
      BY <1>3, LoadType DEF LoadInstalled
    <2>2. config.id \in Ids
      BY <1>3, <1>t, <1>g, ConfigFields DEF LoadInstalled, Loads
    <2>3. PICK l \in {"done", "open"} : Goto(c, l) /\ shown' \subseteq Fresh
      BY <1>3, <1>t, <2>2, ShowType DEF LoadInstalled
    <2>4. l \in Stages /\ l \notin {"new", "install"}
      BY <1>s
    <2>5. loaded' \in [Cmd -> BOOLEAN]
      BY <1>3, LoadType DEF LoadInstalled
    <2> QED
      BY <1>3, <1>o, <1>t, <1>g, <2>1, <2>3, <2>4, <2>5, MoveType
         DEF LoadInstalled
  <1>4. ASSUME NEW c \in Cmd, Reload(c) PROVE TypeInv'
    <2>1. /\ Goto(c, "done")
          /\ "done" \in Stages /\ "done" \in Ended
          /\ Show(c, user_id'[c])
      BY <1>4, <1>s DEF Reload, Show, Ended
    <2>2. PICK i \in Ids, p \in Port :
             user_id' = [user_id EXCEPT ![c] = i] /\ port' = [port EXCEPT ![c] = p]
      BY <1>4, LoadType DEF Reload
    <2>3. loaded' \in [Cmd -> BOOLEAN]
      BY <1>4, LoadType DEF Reload
    <2>4. shown' \subseteq Fresh
      BY <2>1, <2>2, <1>t, ShowType
    <2> QED
      BY <1>4, <1>t, <2>1, <2>2, <2>3, <2>4, MoveType DEF Reload
  <1>5. ASSUME NEW c \in Cmd, InstallBegin(c) PROVE TypeInv'
    <2>1. port' = [port EXCEPT ![c] = port[c]] /\ port[c] \in Port
      BY <1>5 DEF InstallBegin, TypeInv, TypeOK, Identified
    <2>2. /\ Goto(c, "keys") /\ "keys" \in Stages
          /\ user_id' = [user_id EXCEPT ![c] = By(c)] /\ By(c) \in Fresh
          /\ By(c) \in Ids
      BY <1>5, <1>f, <1>g, <1>s DEF InstallBegin
    <2>3. /\ config' \in Configs /\ priv' \in KeyFiles /\ pub' \in KeyFiles
          /\ shown' \subseteq Fresh /\ lost' \in BOOLEAN /\ UNCHANGED env
          /\ loaded' \in [Cmd -> BOOLEAN] /\ together' \subseteq SUBSET Cmd
          /\ overlap' \in BOOLEAN
      BY <1>5, <1>t DEF InstallBegin
    <2> QED
      BY <2>1, <2>2, <2>3, MoveType
  <1>a. ASSUME NEW c \in Cmd, Abort(c)
        PROVE  \E l \in Stages : Goto(c, l) /\ l \in Ended \cup {"reload"}
    BY <1>a, <1>s DEF Abort, Ended
  <1>b. ASSUME NEW c \in Cmd, user_id[c] \in Fresh, KeysReady(c)
        PROVE  /\ shown' \subseteq Fresh
               /\ \E l \in Stages : Goto(c, l) /\ l # "new" /\ l # "install"
    <2>1. CASE Kind[c] = "install"
      BY <1>b, <2>1, <1>t, <1>s DEF KeysReady
    <2>2. CASE Kind[c] # "install"
      BY <1>b, <2>2, <1>t, <1>s, <1>g, ShowType DEF KeysReady
    <2> QED
      BY <2>1, <2>2
  <1>6. ASSUME NEW c \in Cmd, LoadKeys(c) PROVE TypeInv'
    <2>1. user_id[c] \in Fresh /\ ipc[c] # "new"
      BY <1>6, <1>i DEF LoadKeys, Ended
    <2>2. CASE KeysReady(c)
      BY <1>6, <1>b, <1>t, <2>1, <2>2, StepType DEF LoadKeys
    <2>3. CASE Abort(c) /\ UNCHANGED shown
      BY <1>6, <1>a, <1>t, <2>1, <2>3, StepType DEF LoadKeys
    <2> QED
      BY <1>6, <2>2, <2>3 DEF LoadKeys
  <1>7. ASSUME NEW c \in Cmd, MakeKeys(c) PROVE TypeInv'
    <2>1. user_id[c] \in Fresh /\ ipc[c] # "new"
      BY <1>7, <1>i DEF MakeKeys, Ended
    <2>2. together' \subseteq SUBSET Cmd
      BY <1>7, <1>t DEF MakeKeys, Makers
    <2> QED
      BY <1>7, <1>t, <1>s, <2>1, <2>2, StepType DEF MakeKeys
  <1>8. ASSUME NEW c \in Cmd, OpenPriv(c) PROVE TypeInv'
    <2>1. user_id[c] \in Fresh /\ ipc[c] # "new"
      BY <1>8, <1>i DEF OpenPriv, Ended
    <2>2. PICK l \in {"openPub", "openPubOnly"} : Goto(c, l) /\ priv' \in {priv, Truncated}
      BY <1>8 DEF OpenPriv
    <2>3. l \in Stages /\ l # "new" /\ l # "install" /\ priv' \in KeyFiles
      BY <1>s, <1>t, <1>f, <2>2
    <2> QED
      BY <1>8, <1>t, <2>1, <2>2, <2>3, StepType DEF OpenPriv
  <1>9. ASSUME NEW c \in Cmd, OpenPub(c) PROVE TypeInv'
    <2>1. user_id[c] \in Fresh /\ ipc[c] # "new"
      BY <1>9, <1>i DEF OpenPub, Ended
    <2>2. pub' \in KeyFiles
      BY <1>9, <1>t, <1>f DEF OpenPub
    <2>3. Goto(c, "closePub") \/ Abort(c)
      BY <1>9 DEF OpenPub
    <2>4. PICK l \in Stages : Goto(c, l) /\ l # "new" /\ l # "install"
      BY <2>3, <1>a, <1>s DEF Ended
    <2> QED
      BY <1>9, <1>t, <2>1, <2>2, <2>4, StepType DEF OpenPub
  <1>10. ASSUME NEW c \in Cmd, ClosePub(c) PROVE TypeInv'
    <2>1. user_id[c] \in Fresh /\ ipc[c] # "new"
      BY <1>10, <1>i DEF ClosePub, Ended
    <2>2. pub' \in KeyFiles
      BY <1>10, <1>t, <1>f DEF ClosePub
    <2> QED
      BY <1>10, <1>t, <1>s, <2>1, <2>2, StepType DEF ClosePub
  <1>11. ASSUME NEW c \in Cmd, ClosePriv(c) PROVE TypeInv'
    <2>1. user_id[c] \in Fresh /\ ipc[c] # "new"
      BY <1>11, <1>i DEF ClosePriv, Ended
    <2>2. priv' \in KeyFiles
      BY <1>11, <1>t, <1>f DEF ClosePriv
    <2>3. KeysReady(c)
      BY <1>11 DEF ClosePriv
    <2>4. shown' \subseteq Fresh
      BY <2>1, <2>3, <1>b
    <2>5. PICK l \in Stages : Goto(c, l) /\ l # "new" /\ l # "install"
      BY <2>1, <2>3, <1>b
    <2> QED
      BY <1>11, <1>t, <2>1, <2>2, <2>4, <2>5, StepType DEF ClosePriv
  <1>12. ASSUME NEW c \in Cmd, SaveOpen(c) PROVE TypeInv'
    <2>1. user_id[c] \in Fresh /\ ipc[c] # "new"
      BY <1>12, <1>i DEF SaveOpen, Ended
    <2>2. config' \in Configs
      BY <1>12, <1>t, <1>f DEF SaveOpen
    <2>3. PICK l \in {"close", "failed"} : Goto(c, l)
      BY <1>12 DEF SaveOpen
    <2>4. l \in Stages /\ l # "new" /\ l # "install"
      BY <1>s
    <2> QED
      BY <1>12, <1>t, <2>1, <2>2, <2>3, <2>4, StepType DEF SaveOpen
  <1>13. ASSUME NEW c \in Cmd, SaveClose(c) PROVE TypeInv'
    <2>1. user_id[c] \in Fresh /\ port[c] \in Port /\ ipc[c] # "new"
      BY <1>13 DEF SaveClose, TypeInv, Identified, Ended
    <2>2. ConfigFile(user_id[c], port[c], "none") \in Configs
      BY <2>1 DEF Configs, Wrong
    <2>3. config' \in Configs /\ lost' \in BOOLEAN
      BY <1>13, <1>t, <2>2 DEF SaveClose
    <2> QED
      BY <1>13, <1>t, <1>s, <2>1, <2>3, StepType DEF SaveClose
  <1>14. ASSUME NEW c \in Cmd, OpenDatabase(c) PROVE TypeInv'
    <2>1. user_id[c] \in Fresh /\ ipc[c] # "new"
      BY <1>14, <1>i DEF OpenDatabase, Ended
    <2>2. CASE Abort(c) /\ UNCHANGED shown
      BY <1>14, <1>a, <1>t, <2>1, <2>2, StepType DEF OpenDatabase
    <2>3. CASE Show(c, user_id[c])
      BY <1>14, <1>g, <1>s, <1>t, <2>1, <2>3, ShowType, StepType DEF OpenDatabase
    <2>4. CASE Goto(c, "keys") /\ UNCHANGED shown
      BY <1>14, <1>s, <1>t, <2>1, <2>4, StepType DEF OpenDatabase
    <2> QED
      BY <1>14, <2>2, <2>3, <2>4 DEF OpenDatabase
  <1>15. ASSUME NEW c \in Cmd, Crash(c) PROVE TypeInv'
    <2>1. ipc[c] # "new" /\ "dead" \in Ended
      BY <1>15 DEF Crash, Ended
    <2> QED
      BY <1>15, <1>s, <1>t, <2>1, StepType DEF Crash
  <1>16. ASSUME NEW p \in Port, NEW w \in Wrong, EditConfig(p, w) PROVE TypeInv'
    <2>1. config' \in Configs
      BY <1>16, <1>t, ConfigFields DEF EditConfig, Configs
    <2>2. TypeOK'
      BY <1>16, <2>1 DEF EditConfig, TypeInv, TypeOK, Configs
    <2> QED
      BY <1>16, <2>2 DEF EditConfig, TypeInv, Identified
  <1>17. CASE UNCHANGED vars
    BY <1>17 DEF vars, TypeInv, TypeOK, Identified
  <1> QED
    BY <1>1, <1>2, <1>3, <1>4, <1>5, <1>6, <1>7, <1>8, <1>9, <1>10, <1>11, <1>12,
       <1>13, <1>14, <1>15, <1>16, <1>17 DEF Next, command

\* The strengthened type is an invariant.
LEMMA TypeInvariant == Spec => []TypeInv
  <1>1. QED
    BY InitType, NextType, PTL DEF Spec

\* Every reachable state has its type. In particular what Config::save writes is
\* a configuration with an identity and a valid port, on every path of install.
THEOREM TypeCorrect == Spec => []TypeOK
  <1>1. TypeInv => TypeOK
    BY DEF TypeInv
  <1> QED
    BY <1>1, TypeInvariant, PTL
----------------------------------------------------------------------------
(* SHR_PORT.                                                               *)

\* SHR_PORT decides the port of every command whose last load has returned
\* true: apply_env_overrides comes last in such a load, in the second load of
\* cmd_config too, and nothing sets the port afterwards. A load that fails may
\* leave the port of the file instead.
THEOREM EnvironmentWins == Spec => []EnvWins
  <1>1. Init => EnvWins
    BY DEF Init, EnvWins
  <1>2. TypeInv /\ EnvWins /\ [Next]_vars => EnvWins'
    <2> SUFFICES ASSUME TypeInv, EnvWins, [Next]_vars PROVE EnvWins'
      OBVIOUS
    <2>t. /\ env \in [Cmd -> Port \cup {0}] /\ port \in [Cmd -> Port \cup {0}]
          /\ loaded \in [Cmd -> BOOLEAN]
      BY DEF TypeInv, TypeOK
    <2>1. ASSUME NEW c \in Cmd, NEW b \in BOOLEAN, NEW p, NEW i, Leaves(c, b, p, i),
                 b = TRUE => \E q : p = Effective(c, q), UNCHANGED env
          PROVE  EnvWins'
      <3>1. loaded'[c] = b /\ port'[c] = p
        BY <2>1, <2>t DEF Leaves
      <3>2. \A d \in Cmd : d # c => loaded'[d] = loaded[d] /\ port'[d] = port[d]
        BY <2>1, <2>t DEF Leaves
      <3>3. env[c] # 0 /\ b = TRUE => p = env[c]
        BY <2>1 DEF Effective
      <3> QED
        BY <2>1, <3>1, <3>2, <3>3 DEF EnvWins
    <2>2. ASSUME NEW c \in Cmd, UNCHANGED env, Defaults(c) \/ Loads(c) \/ LoadFails(c)
          PROVE  EnvWins'
      <3>1. CASE Defaults(c)
        BY <2>1, <2>2, <3>1 DEF Defaults
      <3>2. CASE Loads(c)
        BY <2>1, <2>2, <3>2 DEF Loads
      <3>3. CASE LoadFails(c)
        BY <2>1, <2>2, <3>3 DEF LoadFails, HalfWay
      <3> QED
        BY <2>2, <3>1, <3>2, <3>3
    <2>3. ASSUME UNCHANGED <<loaded, port, env>> PROVE EnvWins'
      BY <2>3 DEF EnvWins
    <2>4. ASSUME NEW c \in Cmd, command(c) PROVE EnvWins'
      <3>1. CASE LoadDefaults(c) \/ LoadBroken(c) \/ LoadInstalled(c) \/ Reload(c)
        BY <3>1, <2>2 DEF LoadDefaults, LoadBroken, LoadInstalled, Reload
      <3>2. CASE LoadKeys(c) \/ ClosePriv(c) \/ SaveOpen(c) \/ SaveClose(c)
                 \/ OpenDatabase(c)
        BY <3>2, <2>3 DEF LoadKeys, ClosePriv, SaveOpen, SaveClose, OpenDatabase
      <3>3. CASE InstallBegin(c) \/ MakeKeys(c) \/ OpenPriv(c) \/ OpenPub(c)
                 \/ ClosePub(c)
        BY <3>3, <2>3 DEF InstallBegin, MakeKeys, OpenPriv, OpenPub, ClosePub
      <3> QED
        BY <2>4, <3>1, <3>2, <3>3 DEF command
    <2>5. ASSUME NEW c \in Cmd, Crash(c) PROVE EnvWins'
      BY <2>3, <2>5 DEF Crash
    <2>6. ASSUME NEW p \in Port, NEW w \in Wrong, EditConfig(p, w) PROVE EnvWins'
      BY <2>3, <2>6 DEF EditConfig
    <2> QED
      BY <2>3, <2>4, <2>5, <2>6 DEF Next, vars
  <1> QED
    BY <1>1, <1>2, TypeInvariant, PTL DEF Spec
----------------------------------------------------------------------------
(* Keys, whatever overlaps.                                                *)

\* Commands, keys and files name each other.
LEMMA KeyNames ==
    /\ \A c \in Cmd : By(c).cmd = c /\ KeyFile(By(c)).key.cmd = c /\ Whole(KeyFile(By(c)))
    /\ \A f \in KeyFiles : Whole(f) => \E c \in Cmd : f = KeyFile(By(c))
  BY FileStates DEF By, KeyFile, KeyFiles, Fresh, Whole

\* A command that is past its opens has made both files exist, and a file is
\* complete only when both exist: nothing is ever deleted.
Opened ==
    /\ \A c \in Cmd : ipc[c] = "openPub" => priv # Absent
    /\ \A c \in Cmd : ipc[c] \in {"closePub", "closePriv"} => KeysExist
    /\ Whole(priv) \/ Whole(pub) => KeysExist

\* Makers know of each other, and of the one whose key is in a file: for a
\* command that came later the key files would have existed.
Beside(c) == \A d \in Makers : d # c => {c, d} \in together
Acquainted ==
    \A c \in Cmd : c \in Makers \/ priv = KeyFile(By(c)) \/ pub = KeyFile(By(c))
                   => Beside(c)

\* A command writes its private key once, and makes no keys afterwards.
Written ==
    \A c \in Cmd : priv = KeyFile(By(c)) =>
        ipc[c] \in Ended \/ (Kind[c] = "install" /\ ipc[c] \in {"save", "close", "open"})

KeysInv == Opened /\ Acquainted /\ Written /\ KeysBelong

\* There are no keys and nobody makes any.
LEMMA InitKeys == Init => KeysInv
  BY FileStates DEF Init, KeysInv, Opened, Acquainted, Beside, Makers, Making, Written,
     KeysBelong, KeysExist, KeyFile, Absent

\* A step that leaves the key files alone and makes nobody a maker preserves
\* KeysInv, when the command had not written its key or has nothing more to make.
LEMMA LeaveKeys ==
    ASSUME TypeInv, KeysInv, NEW c \in Cmd, NEW l \in Stages \ Making, Goto(c, l),
           UNCHANGED <<priv, pub, together>>,
           priv = KeyFile(By(c)) =>
               l \in Ended \/ (Kind[c] = "install" /\ l \in {"save", "close", "open"})
    PROVE  KeysInv'
  <1>1. ipc \in [Cmd -> Stages]
    BY DEF TypeInv, TypeOK, Stages
  <1>2. ipc'[c] = l /\ \A d \in Cmd : d # c => ipc'[d] = ipc[d]
    BY <1>1 DEF Goto
  <1>3. Makers' \subseteq Makers
    BY <1>2 DEF Makers
  <1>4. Opened'
    BY <1>2 DEF KeysInv, Opened, KeysExist, Making
  <1>5. Acquainted'
    BY <1>3 DEF KeysInv, Acquainted, Beside
  <1>6. Written'
    BY <1>2 DEF KeysInv, Written
  <1>7. KeysBelong'
    BY DEF KeysInv, KeysBelong
  <1> QED
    BY <1>4, <1>5, <1>6, <1>7 DEF KeysInv

\* Every step preserves KeysInv.
LEMMA NextKeys == TypeInv /\ KeysInv /\ [Next]_vars => KeysInv'
  <1> SUFFICES ASSUME TypeInv, KeysInv, [Next]_vars PROVE KeysInv'
    OBVIOUS
  <1>t. /\ priv \in KeyFiles /\ pub \in KeyFiles /\ ipc \in [Cmd -> Stages]
    BY DEF TypeInv, TypeOK, Stages, KeyFiles
  <1>k. \A c \in Cmd : Kind[c] \in {"install", "config", "whoami"}
    BY KindAssumption
  <1>s. /\ {"done", "failed", "dead", "install", "keys", "save", "close", "open", "reload"}
             \subseteq Stages \ Making
        /\ {"done", "failed", "dead"} = Ended
        /\ Making \subseteq Stages
    BY DEF Stages, Ended, Making
  <1>w. ASSUME NEW c \in Cmd, priv = KeyFile(By(c)),
               ipc[c] \in {"new", "install", "keys", "reload"} \cup Making
        PROVE  FALSE
    BY <1>w DEF KeysInv, Written, Ended, Making
  <1>a. ASSUME NEW c \in Cmd, Abort(c)
        PROVE  \E l \in {"reload", "failed"} :
                   Goto(c, l) /\ (l = "reload" => Kind[c] # "install")
    BY <1>a DEF Abort
  <1>r. ASSUME NEW c \in Cmd, KeysReady(c)
        PROVE  \E l \in {"done", "save"} : Goto(c, l) /\ (l = "save" => Kind[c] = "install")
    BY <1>r DEF KeysReady, Show
  <1>1. ASSUME NEW c \in Cmd, LoadDefaults(c) PROVE KeysInv'
    <2>1. PICK l \in {"install", "done", "failed"} : Goto(c, l)
      <3>1. [install |-> "install", config |-> "done", whoami |-> "failed"][Kind[c]]
                \in {"install", "done", "failed"}
        BY <1>k
      <3> QED
        BY <1>1, <3>1 DEF LoadDefaults
    <2> QED
      BY <1>1, <1>s, <1>w, <2>1, LeaveKeys DEF LoadDefaults, Begin
  <1>2. ASSUME NEW c \in Cmd, LoadBroken(c) PROVE KeysInv'
    <2>1. PICK l \in {"reload", "failed"} : Goto(c, l)
      BY <1>2 DEF LoadBroken
    <2> QED
      BY <1>2, <1>s, <1>w, <2>1, LeaveKeys DEF LoadBroken, Begin
  <1>3. ASSUME NEW c \in Cmd, LoadInstalled(c) PROVE KeysInv'
    <2>1. PICK l \in {"done", "open"} : Goto(c, l)
      BY <1>3 DEF LoadInstalled, Show
    <2> QED
      BY <1>3, <1>s, <1>w, <2>1, LeaveKeys DEF LoadInstalled, Begin
  <1>4. ASSUME NEW c \in Cmd, Reload(c) PROVE KeysInv'
    BY <1>4, <1>s, LeaveKeys DEF Reload, Show
  <1>5. ASSUME NEW c \in Cmd, InstallBegin(c) PROVE KeysInv'
    BY <1>5, <1>s, <1>w, LeaveKeys DEF InstallBegin
  <1>6. ASSUME NEW c \in Cmd, LoadKeys(c) PROVE KeysInv'
    <2>1. PICK l \in {"reload", "failed", "done", "save"} : Goto(c, l)
      BY <1>6, <1>a, <1>r DEF LoadKeys
    <2> QED
      BY <1>6, <1>s, <1>w, <2>1, LeaveKeys DEF LoadKeys
  <1>7. ASSUME NEW c \in Cmd, MakeKeys(c) PROVE KeysInv'
    <2>1. ~Whole(priv) /\ ~Whole(pub) /\ UNCHANGED <<priv, pub>>
      BY <1>7 DEF MakeKeys, KeysInv, Opened
    <2>2. /\ ipc'[c] = "openPriv" /\ \A d \in Cmd : d # c => ipc'[d] = ipc[d]
      BY <1>7, <1>t DEF MakeKeys, Goto
    <2>3. Makers' = Makers \cup {c}
      BY <2>2 DEF Makers, Making
    <2>4. \A d \in Makers : {c, d} \in together' /\ {d, c} \in together'
      <3>1. \A d : {d, c} = {c, d}
        OBVIOUS
      <3> QED
        BY <1>7, <3>1 DEF MakeKeys
    <2>5. Opened'
      BY <1>7, <2>1, <2>2 DEF MakeKeys, KeysInv, Opened, KeysExist
    <2>6. Acquainted'
      <3>1. \A d \in Cmd : priv # KeyFile(By(d)) /\ pub # KeyFile(By(d))
        BY <2>1, KeyNames
      <3>2. together \subseteq together'
        BY <1>7 DEF MakeKeys
      <3> QED
        BY <2>1, <2>3, <2>4, <3>1, <3>2 DEF KeysInv, Acquainted, Beside
    <2>7. Written' /\ KeysBelong'
      BY <2>1, KeyNames DEF Written, KeysBelong
    <2> QED
      BY <2>5, <2>6, <2>7 DEF KeysInv
  \* The opens: a file gets truncated, and nobody becomes a maker.
  <1>o. ASSUME NEW c \in Cmd, ipc[c] \in Making, NEW l \in Stages, Goto(c, l),
               UNCHANGED together, priv' \in {priv, Truncated}, pub' \in {pub, Truncated},
               l \in Making \/ l \in Ended \/ l = "reload",
               l = "openPub" => priv' # Absent,
               l \in {"closePub", "closePriv"} => KeysExist'
        PROVE  KeysInv'
    <2>1. /\ ipc'[c] = l /\ \A d \in Cmd : d # c => ipc'[d] = ipc[d]
      BY <1>o, <1>t DEF Goto
    <2>2. Makers' \subseteq Makers /\ c \in Makers
      BY <1>o, <2>1 DEF Makers
    <2>3. /\ priv # Absent => priv' # Absent
          /\ pub # Absent => pub' # Absent
          /\ Whole(priv') => priv' = priv
          /\ Whole(pub') => pub' = pub
          /\ \A d : priv' = KeyFile(By(d)) => priv' = priv
          /\ \A d : pub' = KeyFile(By(d)) => pub' = pub
      BY <1>o, FileStates
    <2>4. Opened'
      BY <1>o, <2>1, <2>3 DEF KeysInv, Opened, KeysExist
    <2>5. Acquainted'
      BY <1>o, <2>2, <2>3 DEF KeysInv, Acquainted, Beside
    <2>6. Written'
      BY <1>o, <1>w, <2>1, <2>3 DEF KeysInv, Written
    <2>7. KeysBelong'
      BY <1>o, <2>3 DEF KeysInv, KeysBelong
    <2> QED
      BY <2>4, <2>5, <2>6, <2>7 DEF KeysInv
  <1>8. ASSUME NEW c \in Cmd, OpenPriv(c) PROVE KeysInv'
    <2>1. /\ ipc[c] \in Making /\ UNCHANGED <<pub, together>>
          /\ {"openPub", "openPubOnly"} \subseteq Stages \cap Making
      BY <1>8, <1>s DEF OpenPriv, Making
    <2> QED
      BY <1>8, <1>o, <2>1, FileStates DEF OpenPriv
  <1>9. ASSUME NEW c \in Cmd, OpenPub(c) PROVE KeysInv'
    <2>1. /\ ipc[c] \in Making /\ UNCHANGED <<priv, together>>
          /\ pub' \in {pub, Truncated} /\ "closePub" \in Stages \cap Making
      BY <1>9, <1>s DEF OpenPub, Making
    <2>2. CASE Abort(c)
      <3>1. PICK l \in {"reload", "failed"} : Goto(c, l)
        BY <2>2, <1>a
      <3> QED
        BY <1>o, <1>s, <2>1, <3>1
    <2>3. CASE ipc[c] = "openPub" /\ pub' = Truncated /\ Goto(c, "closePub")
      <3>1. KeysExist'
        BY <2>1, <2>3, FileStates DEF KeysInv, Opened, KeysExist
      <3> QED
        BY <1>o, <2>1, <2>3, <3>1
    <2> QED
      BY <1>9, <2>2, <2>3 DEF OpenPub
  <1>10. ASSUME NEW c \in Cmd, ClosePub(c) PROVE KeysInv'
    <2>1. /\ KeysExist /\ c \in Makers /\ UNCHANGED <<priv, together>>
          /\ pub' \in {pub, KeyFile(By(c))} /\ Goto(c, "closePriv")
      BY <1>10 DEF ClosePub, KeysInv, Opened, Makers, Making
    <2>2. /\ ipc'[c] = "closePriv" /\ \A d \in Cmd : d # c => ipc'[d] = ipc[d]
      BY <1>t, <2>1 DEF Goto
    <2>3. Makers' = Makers
      BY <2>1, <2>2 DEF Makers, Making
    <2>4. KeysExist' /\ Opened'
      BY <2>1, <2>2, FileStates, KeyNames DEF KeysInv, Opened, KeysExist
    <2>5. Acquainted'
      <3>1. ASSUME NEW d \in Cmd, pub' = KeyFile(By(d)) PROVE d = c \/ pub = KeyFile(By(d))
        BY <2>1, <3>1, KeyNames
      <3> QED
        BY <2>1, <2>3, <3>1 DEF KeysInv, Acquainted, Beside
    <2>6. Written'
      BY <1>10, <1>w, <2>1, <2>2 DEF KeysInv, Written, Making, Makers
    <2>7. KeysBelong'
      <3>1. CASE pub' = pub
        BY <2>1, <3>1 DEF KeysInv, KeysBelong
      <3>2. CASE pub' = KeyFile(By(c)) /\ Whole(priv)
        <4>1. PICK d \in Cmd : priv = KeyFile(By(d))
          BY <1>t, <3>2, KeyNames
        <4>2. d # c => {d, c} \in together
          BY <2>1, <4>1 DEF KeysInv, Acquainted, Beside
        <4> QED
          BY <2>1, <3>2, <4>1, <4>2, KeyNames DEF KeysBelong
      <3> QED
        BY <2>1, <3>1, <3>2 DEF KeysBelong
    <2> QED
      BY <2>4, <2>5, <2>6, <2>7 DEF KeysInv
  <1>11. ASSUME NEW c \in Cmd, ClosePriv(c) PROVE KeysInv'
    <2>1. /\ KeysExist /\ c \in Makers /\ UNCHANGED <<pub, together>>
          /\ priv' \in {priv, KeyFile(By(c))}
      BY <1>11 DEF ClosePriv, KeysInv, Opened, Makers, Making
    <2>2. PICK l \in {"done", "save"} : Goto(c, l) /\ (l = "save" => Kind[c] = "install")
      BY <1>11, <1>r DEF ClosePriv
    <2>3. /\ ipc'[c] = l /\ \A d \in Cmd : d # c => ipc'[d] = ipc[d]
      BY <1>t, <2>2 DEF Goto
    <2>4. Makers' \subseteq Makers
      BY <2>1, <2>3 DEF Makers
    <2>5. Opened'
      BY <2>1, <2>3, FileStates, KeyNames DEF KeysInv, Opened, KeysExist
    <2>6. Acquainted'
      <3>1. ASSUME NEW d \in Cmd, priv' = KeyFile(By(d)) PROVE d = c \/ priv = KeyFile(By(d))
        BY <2>1, <3>1, KeyNames
      <3> QED
        BY <2>1, <2>4, <3>1 DEF KeysInv, Acquainted, Beside
    <2>7. Written'
      <3>1. ASSUME NEW d \in Cmd, priv' = KeyFile(By(d)) PROVE d = c \/ priv = KeyFile(By(d))
        BY <2>1, <3>1, KeyNames
      <3> QED
        BY <1>s, <2>2, <2>3, <3>1 DEF KeysInv, Written
    <2>8. KeysBelong'
      <3>1. CASE priv' = priv
        BY <2>1, <3>1 DEF KeysInv, KeysBelong
      <3>2. CASE priv' = KeyFile(By(c)) /\ Whole(pub)
        <4>1. PICK d \in Cmd : pub = KeyFile(By(d))
          BY <1>t, <3>2, KeyNames
        <4>2. d # c => {d, c} \in together
          BY <2>1, <4>1 DEF KeysInv, Acquainted, Beside
        <4>3. {d, c} = {c, d}
          OBVIOUS
        <4> QED
          BY <2>1, <3>2, <4>1, <4>2, <4>3, KeyNames DEF KeysBelong
      <3> QED
        BY <2>1, <3>1, <3>2 DEF KeysBelong
    <2> QED
      BY <2>5, <2>6, <2>7, <2>8 DEF KeysInv
  <1>12. ASSUME NEW c \in Cmd, SaveOpen(c) PROVE KeysInv'
    <2>1. PICK l \in {"close", "failed"} : Goto(c, l)
      BY <1>12 DEF SaveOpen
    <2> QED
      BY <1>12, <1>s, <2>1, LeaveKeys DEF SaveOpen, KeysInv, Written
  <1>13. ASSUME NEW c \in Cmd, SaveClose(c) PROVE KeysInv'
    BY <1>13, <1>s, LeaveKeys DEF SaveClose, KeysInv, Written
  <1>14. ASSUME NEW c \in Cmd, OpenDatabase(c) PROVE KeysInv'
    <2>1. PICK l \in {"done", "keys", "reload", "failed"} :
             Goto(c, l) /\ (Kind[c] = "install" => l \in Ended)
      BY <1>14, <1>a, <1>s DEF OpenDatabase, Show
    <2> QED
      BY <1>14, <1>s, <2>1, LeaveKeys DEF OpenDatabase, KeysInv, Written
  <1>15. ASSUME NEW c \in Cmd, Crash(c) PROVE KeysInv'
    BY <1>15, <1>s, LeaveKeys DEF Crash
  <1>16. CASE UNCHANGED <<priv, pub, ipc, together>>
    BY <1>16 DEF KeysInv, Opened, Acquainted, Beside, Makers, Written, KeysBelong, KeysExist
  <1> QED
    BY <1>1, <1>2, <1>3, <1>4, <1>5, <1>6, <1>7, <1>8, <1>9, <1>10, <1>11, <1>12,
       <1>13, <1>14, <1>15, <1>16 DEF Next, command, EditConfig, vars

\* KeysInv holds throughout.
LEMMA KeysInvariant == Spec => []KeysInv
  <1>1. QED
    BY InitKeys, NextKeys, TypeInvariant, PTL DEF Spec

\* Two complete key files are the two halves of one pair, or of the pairs of
\* two commands that made keys at the same time: after a crash, a failed open or
\* a lost write load_or_generate_keypair never completes another one's half.
THEOREM KeysBelongTogether == Spec => []KeysBelong
  <1>1. KeysInv => KeysBelong
    BY DEF KeysInv
  <1> QED
    BY <1>1, KeysInvariant, PTL

\* A complete key pair is replaced by nobody but a command that made keys beside
\* the one whose private key is there: not by an install that follows a failed
\* one, and not by init_app of a later command.
THEOREM KeyPairStays == Spec => KeysStayPut
  <1>1. TypeInv /\ KeysInv /\ [Next]_vars
        => [Whole(priv) /\ Whole(pub) =>
              \/ UNCHANGED <<priv, pub>>
              \/ \E c \in Makers : {c, priv.key.cmd} \in together]_vars
    <2> SUFFICES ASSUME TypeInv, KeysInv, Next, Whole(priv),
                        ~UNCHANGED <<priv, pub>>
                 PROVE  \E c \in Makers : {c, priv.key.cmd} \in together
      OBVIOUS
    <2>1. PICK c \in Makers : TRUE
      BY DEF Next, command, Crash, EditConfig, LoadDefaults, LoadBroken, LoadInstalled,
         Reload, InstallBegin, LoadKeys, MakeKeys, OpenPriv, OpenPub, ClosePub,
         ClosePriv, SaveOpen, SaveClose, OpenDatabase, Makers, Making
    <2>2. PICK d \in Cmd : priv = KeyFile(By(d)) /\ priv.key.cmd = d
      BY KeyNames DEF TypeInv, TypeOK, KeyFiles
    <2>3. d \notin Makers
      BY <2>2 DEF KeysInv, Written, Makers, Making, Ended
    <2>4. {d, c} \in together /\ {d, c} = {c, d}
      BY <2>1, <2>2, <2>3 DEF KeysInv, Acquainted, Beside
    <2> QED
      BY <2>1, <2>2, <2>4
  <1> QED
    BY <1>1, KeysInvariant, TypeInvariant, PTL DEF Spec, KeysStayPut
----------------------------------------------------------------------------
(* Identities, as long as no two installs have run at once.                *)

\* At most one install is under way.
OneInstall == \A c, d \in Cmd : Installing(c) /\ Installing(d) => c = d

\* Only an install ever gets to where keys and configuration are written: all
\* other commands go past load only when there is a configuration, and then
\* there are key files.
OnlyInstalls ==
    \A c \in Cmd : ipc[c] \in Making \cup {"install", "save", "close"}
                   => Kind[c] = "install"
HaveKeys ==
    /\ config # Absent => KeysExist
    /\ \A c \in Cmd : ipc[c] \in {"save", "close", "open"} => KeysExist

\* What the one who makes keys knows about the two files.
Maker ==
    \A c \in Cmd :
        /\ ipc[c] \in {"openPriv", "openPubOnly"} => ~KeysExist
        /\ ipc[c] = "openPub" => priv = Truncated
        /\ ipc[c] = "closePub" => priv = Truncated /\ pub = Truncated
        /\ ipc[c] = "closePriv" => priv = Truncated /\ pub \in {Truncated, KeyFile(By(c))}

\* Where an install stands in the life of config.json.
Saving ==
    \A c \in Cmd : Kind[c] = "install" =>
        /\ ipc[c] \in Making \cup {"install", "keys", "save"} => config = Absent
        /\ ipc[c] = "close" => config = Truncated /\ ~lost /\ shown = {}
        /\ ipc[c] = "open" => IF lost THEN config = Truncated /\ shown = {}
                              ELSE Whole(config) /\ config.id = user_id[c]

\* Any other command has its identity from config.json, and it is still there.
Knowing ==
    \A c \in Cmd : Kind[c] # "install" =>
        /\ ipc[c] \in {"open", "keys"} => Whole(config) /\ config.id = user_id[c]
        /\ ipc[c] = "reload" => user_id[c] = None
                                \/ (Whole(config) /\ config.id = user_id[c])

Untouched == /\ lost => config = Truncated
             /\ config = Absent => shown = {}
             /\ \A c \in Cmd : ipc[c] = "reload" => Kind[c] = "config"

\* ShownIsStored, without its condition.
Stored == /\ \A id, other \in shown : id = other
          /\ \A id \in shown : IF lost THEN config = Truncated
                               ELSE Whole(config) /\ config.id = id

InstallInv ==
    /\ OneInstall /\ OnlyInstalls /\ HaveKeys /\ Maker
    /\ Saving /\ Knowing /\ Untouched /\ Stored

\* Nothing has happened: no keys, no configuration, nobody at work.
LEMMA InitInstall == Init => InstallInv
  BY FileStates DEF Init, InstallInv, OneInstall, OnlyInstalls, HaveKeys, Maker, KeysBelong,
     Saving, Knowing, Untouched, Stored, Installing, Making, KeysExist

\* Every step of a command or of the environment preserves InstallInv.
LEMMA NextInstall == TypeInv /\ InstallInv /\ [Next]_vars /\ ~overlap' => InstallInv'
  <1> SUFFICES ASSUME TypeInv, InstallInv, [Next]_vars, ~overlap' PROVE InstallInv'
    OBVIOUS
  <1> USE FileStates DEF InstallInv, Goto, Ended, Making
  <1>t. /\ config \in Configs /\ priv \in KeyFiles /\ pub \in KeyFiles
        /\ ipc \in [Cmd -> Stages]
        /\ user_id \in [Cmd -> Ids]
        /\ shown \subseteq Fresh /\ lost \in BOOLEAN
        /\ \A c \in Cmd : Kind[c] \in {"install", "config", "whoami"}
    BY KindAssumption DEF TypeInv, TypeOK, Stages, Ids, KeyFiles, Configs
  <1>i. \A c \in Cmd : ipc[c] \in {"new", "install"} => user_id[c] = None
    BY DEF TypeInv, Identified
  \* An install that starts without making overlap true starts alone.
  <1> DEFINE Starts(c) == /\ ipc[c] = "new"
                          /\ \/ Kind[c] # "install"
                             \/ \A d \in Cmd : ~Installing(d)
  <1>s. ASSUME NEW c \in Cmd, Begin(c) PROVE Starts(c)
    BY <1>s DEF Begin
  \* What a load does to the identity, and when.
  <1>a. ASSUME NEW c \in Cmd, Defaults(c)
        PROVE  config = Absent /\ user_id' = [user_id EXCEPT ![c] = user_id[c]]
    BY <1>a, <1>t, FileTags DEF Defaults, Leaves
  <1>b. ASSUME NEW c \in Cmd, Loads(c)
        PROVE  Whole(config) /\ user_id' = [user_id EXCEPT ![c] = config.id]
    BY <1>b DEF Loads, Leaves
  <1>c. ASSUME NEW c \in Cmd, LoadFails(c)
        PROVE  \/ config # Absent /\ user_id' = [user_id EXCEPT ![c] = user_id[c]]
               \/ Whole(config) /\ user_id' = [user_id EXCEPT ![c] = config.id]
    BY <1>c, <1>t, FileTags DEF LoadFails, CannotParse, HalfWay, Leaves
  <1>1. ASSUME NEW c \in Cmd, LoadDefaults(c) PROVE InstallInv'
    <2>1. OneInstall' /\ OnlyInstalls'
      BY <1>1, <1>s, <1>t, <1>i, <1>a DEF LoadDefaults, Starts, OneInstall,
      Installing, OnlyInstalls, HaveKeys, Knowing
    <2>2. HaveKeys' /\ Maker'
      BY <1>1, <1>s, <1>t, <1>i, <1>a DEF LoadDefaults, Starts, HaveKeys,
      Maker, Saving, OneInstall, Installing, OnlyInstalls,
      KeysExist
    <2>3. Saving' /\ Knowing' /\ Untouched'
      BY <1>1, <1>s, <1>t, <1>i, <1>a DEF LoadDefaults, Starts, Saving,
      Knowing, Untouched, OneInstall, Installing, OnlyInstalls
    <2>4. Stored'
      BY <1>1, <1>s, <1>t, <1>i, <1>a, NoneIsNoId DEF LoadDefaults, Starts,
      Stored, Saving, Knowing, Untouched, OnlyInstalls
    <2> QED
      BY <2>1, <2>2, <2>3, <2>4
  <1>2. ASSUME NEW c \in Cmd, LoadBroken(c) PROVE InstallInv'
    <2>1. OneInstall' /\ OnlyInstalls'
      BY <1>2, <1>s, <1>t, <1>i, <1>c
         DEF LoadBroken, Starts, OneInstall, Installing, OnlyInstalls, HaveKeys, Knowing
    <2>2. HaveKeys' /\ Maker'
      BY <1>2, <1>s, <1>t, <1>i, <1>c
         DEF LoadBroken, Starts, HaveKeys, Maker, Saving, OneInstall, Installing,
             OnlyInstalls, KeysExist
    <2>3. Saving' /\ Knowing' /\ Untouched'
      BY <1>2, <1>s, <1>t, <1>i, <1>c
         DEF LoadBroken, Starts, Saving, Knowing, Untouched, OneInstall, Installing,
             OnlyInstalls
    <2>4. Stored'
      BY <1>2, <1>s, <1>t, <1>i, <1>c, NoneIsNoId DEF LoadBroken, Starts,
      Stored, Saving, Knowing, Untouched, OnlyInstalls
    <2> QED
      BY <2>1, <2>2, <2>3, <2>4
  <1>3. ASSUME NEW c \in Cmd, LoadInstalled(c) PROVE InstallInv'
    <2>1. OneInstall' /\ OnlyInstalls'
      BY <1>3, <1>s, <1>t, <1>b DEF LoadInstalled, Starts, Show, OneInstall, Installing,
      OnlyInstalls, HaveKeys, Knowing
    <2>2. HaveKeys' /\ Maker'
      BY <1>3, <1>s, <1>t, <1>b DEF LoadInstalled, Starts, Show, HaveKeys, Maker,
      Saving, OneInstall, Installing, OnlyInstalls, KeysExist
    <2>3. Saving' /\ Knowing' /\ Untouched'
      BY <1>3, <1>s, <1>t, <1>b DEF LoadInstalled, Starts, Show, Saving, Knowing,
      Untouched, OneInstall, Installing, OnlyInstalls
    <2>4. Stored'
      BY <1>3, <1>s, <1>t, <1>b, NoneIsNoId DEF LoadInstalled, Starts, Show,
      Stored, Saving, Knowing, Untouched, OnlyInstalls
    <2> QED
      BY <2>1, <2>2, <2>3, <2>4
  <1>4. ASSUME NEW c \in Cmd, Reload(c) PROVE InstallInv'
    <2>1. OneInstall' /\ OnlyInstalls'
      BY <1>4, <1>t, <1>a, <1>b, <1>c DEF Reload, Show, OneInstall,
      Installing, OnlyInstalls, HaveKeys, Knowing
    <2>2. HaveKeys' /\ Maker'
      BY <1>4, <1>t, <1>a, <1>b, <1>c DEF Reload, Show, HaveKeys, Maker,
      Saving, OneInstall, Installing, OnlyInstalls, KeysExist
    <2>3. Saving' /\ Knowing' /\ Untouched'
      BY <1>4, <1>t, <1>a, <1>b, <1>c DEF Reload, Show, Saving, Knowing,
      Untouched, OneInstall, Installing, OnlyInstalls
    <2>4. Stored'
      BY <1>4, <1>t, <1>a, <1>b, <1>c, NoneIsNoId
         DEF Reload, Show, Stored, Saving, Knowing, Untouched, OnlyInstalls
    <2> QED
      BY <2>1, <2>2, <2>3, <2>4
  <1>5. ASSUME NEW c \in Cmd, InstallBegin(c) PROVE InstallInv'
    <2>1. OneInstall' /\ OnlyInstalls'
      BY <1>5, <1>t, <1>i DEF InstallBegin, OneInstall, Installing,
      OnlyInstalls, HaveKeys, Knowing
    <2>2. HaveKeys' /\ Maker'
      BY <1>5, <1>t, <1>i DEF InstallBegin, HaveKeys, Maker, KeysBelong,
      Saving, OneInstall, Installing, OnlyInstalls, KeysExist
    <2>3. Saving' /\ Knowing' /\ Untouched'
      BY <1>5, <1>t, <1>i DEF InstallBegin, Saving, Knowing, Untouched,
      OneInstall, Installing, OnlyInstalls
    <2>4. Stored'
      BY <1>5, <1>t, <1>i, NoneIsNoId DEF InstallBegin, Stored, Saving,
      Knowing, Untouched, OnlyInstalls
    <2> QED
      BY <2>1, <2>2, <2>3, <2>4
  <1>6. ASSUME NEW c \in Cmd, LoadKeys(c) PROVE InstallInv'
    <2>1. OneInstall' /\ OnlyInstalls'
      BY <1>6, <1>t DEF LoadKeys, KeysReady, Show, Abort, OneInstall,
      Installing, OnlyInstalls, HaveKeys, Knowing
    <2>2. HaveKeys' /\ Maker'
      BY <1>6, <1>t DEF LoadKeys, KeysReady, Show, Abort, HaveKeys, Maker,
      Saving, OneInstall, Installing, OnlyInstalls, KeysExist
    <2>3. Saving' /\ Knowing' /\ Untouched'
      BY <1>6, <1>t DEF LoadKeys, KeysReady, Show, Abort, Saving, Knowing,
      Untouched, OneInstall, Installing, OnlyInstalls
    <2>4. Stored'
      BY <1>6, <1>t, NoneIsNoId DEF LoadKeys, KeysReady, Show, Abort,
      Stored, Saving, Knowing, Untouched, OnlyInstalls
    <2> QED
      BY <2>1, <2>2, <2>3, <2>4
  <1>7. ASSUME NEW c \in Cmd, MakeKeys(c) PROVE InstallInv'
    <2>1. OneInstall' /\ OnlyInstalls'
      BY <1>7, <1>t DEF MakeKeys, OneInstall, Installing, OnlyInstalls,
      HaveKeys, Knowing
    <2>2. HaveKeys' /\ Maker'
      BY <1>7, <1>t DEF MakeKeys, HaveKeys, Maker, Saving,
      OneInstall, Installing, OnlyInstalls, KeysExist
    <2>3. Saving' /\ Knowing' /\ Untouched'
      BY <1>7, <1>t DEF MakeKeys, Saving, Knowing, Untouched, OneInstall,
      Installing, OnlyInstalls
    <2>4. Stored'
      BY <1>7, <1>t, NoneIsNoId DEF MakeKeys, Stored, Saving, Knowing,
      Untouched, OnlyInstalls
    <2> QED
      BY <2>1, <2>2, <2>3, <2>4
  <1>8. ASSUME NEW c \in Cmd, OpenPriv(c) PROVE InstallInv'
    <2>1. OneInstall' /\ OnlyInstalls'
      BY <1>8, <1>t DEF OpenPriv, OneInstall, Installing, OnlyInstalls,
      HaveKeys, Knowing
    <2>2. HaveKeys' /\ Maker'
      BY <1>8, <1>t DEF OpenPriv, HaveKeys, Maker, Saving,
      OneInstall, Installing, OnlyInstalls, KeysExist
    <2>3. Saving' /\ Knowing' /\ Untouched'
      BY <1>8, <1>t DEF OpenPriv, Saving, Knowing, Untouched, OneInstall,
      Installing, OnlyInstalls
    <2>4. Stored'
      BY <1>8, <1>t, NoneIsNoId DEF OpenPriv, Stored, Saving, Knowing,
      Untouched, OnlyInstalls
    <2> QED
      BY <2>1, <2>2, <2>3, <2>4
  <1>9. ASSUME NEW c \in Cmd, OpenPub(c) PROVE InstallInv'
    <2>1. OneInstall' /\ OnlyInstalls'
      BY <1>9, <1>t DEF OpenPub, Abort, OneInstall, Installing, OnlyInstalls,
      HaveKeys, Knowing
    <2>2. HaveKeys' /\ Maker'
      BY <1>9, <1>t DEF OpenPub, Abort, HaveKeys, Maker, Saving,
      OneInstall, Installing, OnlyInstalls, KeysExist
    <2>3. Saving' /\ Knowing' /\ Untouched'
      BY <1>9, <1>t DEF OpenPub, Abort, Saving, Knowing, Untouched,
      OneInstall, Installing, OnlyInstalls
    <2>4. Stored'
      BY <1>9, <1>t, NoneIsNoId DEF OpenPub, Abort, Stored, Saving,
      Knowing, Untouched, OnlyInstalls
    <2> QED
      BY <2>1, <2>2, <2>3, <2>4
  <1>10. ASSUME NEW c \in Cmd, ClosePub(c) PROVE InstallInv'
    <2>1. OneInstall' /\ OnlyInstalls'
      BY <1>10, <1>t DEF ClosePub, OneInstall, Installing, OnlyInstalls,
      HaveKeys, Knowing
    <2>2. HaveKeys' /\ Maker'
      BY <1>10, <1>t DEF ClosePub, HaveKeys, Maker, Saving,
      OneInstall, Installing, OnlyInstalls, KeysExist
    <2>3. Saving' /\ Knowing' /\ Untouched'
      BY <1>10, <1>t DEF ClosePub, Saving, Knowing, Untouched, OneInstall,
      Installing, OnlyInstalls
    <2>4. Stored'
      BY <1>10, <1>t, NoneIsNoId DEF ClosePub, Stored, Saving, Knowing,
      Untouched, OnlyInstalls
    <2> QED
      BY <2>1, <2>2, <2>3, <2>4
  <1>11. ASSUME NEW c \in Cmd, ClosePriv(c) PROVE InstallInv'
    <2>1. OneInstall' /\ OnlyInstalls'
      BY <1>11, <1>t DEF ClosePriv, KeysReady, Show, OneInstall, Installing,
      OnlyInstalls, HaveKeys, Knowing
    <2>2. HaveKeys' /\ Maker'
      BY <1>11, <1>t DEF ClosePriv, KeysReady, Show, HaveKeys, Maker,
      Saving, OneInstall, Installing, OnlyInstalls, KeysExist
    <2>3. Saving' /\ Knowing' /\ Untouched'
      BY <1>11, <1>t DEF ClosePriv, KeysReady, Show, Saving, Knowing,
      Untouched, OneInstall, Installing, OnlyInstalls
    <2>4. Stored'
      BY <1>11, <1>t, NoneIsNoId DEF ClosePriv, KeysReady, Show,
      Stored, Saving, Knowing, Untouched, OnlyInstalls
    <2> QED
      BY <2>1, <2>2, <2>3, <2>4
  <1>12. ASSUME NEW c \in Cmd, SaveOpen(c) PROVE InstallInv'
    <2>1. OneInstall' /\ OnlyInstalls'
      BY <1>12, <1>t DEF SaveOpen, OneInstall, Installing, OnlyInstalls,
      HaveKeys, Knowing
    <2>2. HaveKeys' /\ Maker'
      BY <1>12, <1>t DEF SaveOpen, HaveKeys, Maker, Saving,
      OneInstall, Installing, OnlyInstalls, KeysExist
    <2>3. Saving' /\ Knowing' /\ Untouched'
      BY <1>12, <1>t DEF SaveOpen, Saving, Knowing, Untouched, OneInstall,
      Installing, OnlyInstalls
    <2>4. Stored'
      BY <1>12, <1>t, NoneIsNoId DEF SaveOpen, Stored, Saving, Knowing,
      Untouched, OnlyInstalls
    <2> QED
      BY <2>1, <2>2, <2>3, <2>4
  <1>13. ASSUME NEW c \in Cmd, SaveClose(c) PROVE InstallInv'
    <2>1. OneInstall' /\ OnlyInstalls'
      BY <1>13, <1>t DEF SaveClose, OneInstall, Installing, OnlyInstalls,
      HaveKeys, Knowing
    <2>2. HaveKeys' /\ Maker'
      BY <1>13, <1>t DEF SaveClose, HaveKeys, Maker, Saving,
      OneInstall, Installing, OnlyInstalls, KeysExist
    <2>3. Saving' /\ Knowing' /\ Untouched'
      BY <1>13, <1>t DEF SaveClose, Saving, Knowing, Untouched, OneInstall,
      Installing, OnlyInstalls
    <2>4. Stored'
      BY <1>13, <1>t, NoneIsNoId DEF SaveClose, Stored, Saving,
      Knowing, Untouched, OnlyInstalls
    <2> QED
      BY <2>1, <2>2, <2>3, <2>4
  <1>14. ASSUME NEW c \in Cmd, OpenDatabase(c) PROVE InstallInv'
    <2>1. OneInstall' /\ OnlyInstalls'
      BY <1>14, <1>t DEF OpenDatabase, Show, Abort, OneInstall, Installing,
      OnlyInstalls, HaveKeys, Knowing
    <2>2. HaveKeys' /\ Maker'
      BY <1>14, <1>t DEF OpenDatabase, Show, Abort, HaveKeys, Maker,
      Saving, OneInstall, Installing, OnlyInstalls, KeysExist
    <2>3. Saving' /\ Knowing' /\ Untouched'
      BY <1>14, <1>t DEF OpenDatabase, Show, Abort, Saving, Knowing,
      Untouched, OneInstall, Installing, OnlyInstalls
    <2>4. Stored'
      BY <1>14, <1>t, NoneIsNoId DEF OpenDatabase, Show, Abort, Stored,
      Saving, Knowing, Untouched, OnlyInstalls
    <2> QED
      BY <2>1, <2>2, <2>3, <2>4
  <1>15. ASSUME NEW c \in Cmd, Crash(c) PROVE InstallInv'
    <2>1. OneInstall' /\ OnlyInstalls'
      BY <1>15, <1>t DEF Crash, OneInstall, Installing, OnlyInstalls,
      HaveKeys, Knowing
    <2>2. HaveKeys' /\ Maker'
      BY <1>15, <1>t DEF Crash, HaveKeys, Maker, Saving,
      OneInstall, Installing, OnlyInstalls, KeysExist
    <2>3. Saving' /\ Knowing' /\ Untouched'
      BY <1>15, <1>t DEF Crash, Saving, Knowing, Untouched, OneInstall,
      Installing, OnlyInstalls
    <2>4. Stored'
      BY <1>15, <1>t, NoneIsNoId DEF Crash, Stored, Saving, Knowing,
      Untouched, OnlyInstalls
    <2> QED
      BY <2>1, <2>2, <2>3, <2>4
  <1>16. ASSUME NEW p \in Port, NEW w \in Wrong, EditConfig(p, w) PROVE InstallInv'
    <2>1. config'.id = config.id /\ Whole(config) /\ Whole(config')
      BY <1>16 DEF EditConfig
    <2>2. config # Absent /\ config # Truncated /\ config' # Absent /\ config' # Truncated
      BY <2>1
    <2>3. UNCHANGED <<priv, pub, ipc, user_id, shown, lost>>
      BY <1>16 DEF EditConfig
    <2> QED
      BY <2>1, <2>2, <2>3 DEF OneInstall, OnlyInstalls, HaveKeys, Maker, KeysBelong,
         Saving, Knowing, Untouched, Stored, Installing, KeysExist
  <1>17. CASE UNCHANGED vars
    BY <1>17 DEF vars, OneInstall, OnlyInstalls, HaveKeys, Maker, KeysBelong,
       Saving, Knowing, Untouched, Stored, Installing, KeysExist
  <1> QED
    BY <1>1, <1>2, <1>3, <1>4, <1>5, <1>6, <1>7, <1>8, <1>9, <1>10, <1>11, <1>12,
       <1>13, <1>14, <1>15, <1>16, <1>17 DEF Next, command

\* overlap stays true once it is.
LEMMA OverlapStays == overlap /\ [Next]_vars => overlap'
  <1> SUFFICES ASSUME overlap, [Next]_vars PROVE overlap'
    OBVIOUS
  <1>1. ASSUME NEW c \in Cmd, command(c) PROVE overlap'
    BY <1>1 DEF command, Begin, LoadDefaults, LoadBroken, LoadInstalled, Reload,
       InstallBegin, LoadKeys, MakeKeys, OpenPriv, OpenPub, ClosePub, ClosePriv,
       SaveOpen, SaveClose, OpenDatabase
  <1> QED
    BY <1>1 DEF Next, Crash, EditConfig, vars

\* An identity that was printed is the identity in config.json for good, and no
\* two are ever printed, whatever crashes or fails in between, as long as no two
\* installs have run at once and the write that stored it was not lost.
THEOREM ShownIdentityIsStored == Spec => []ShownIsStored
  <1> DEFINE I == ~overlap => InstallInv
  <1>1. Init => I
    BY InitInstall
  <1>2. TypeInv /\ I /\ [Next]_vars => I'
    BY NextInstall, OverlapStays
  <1>3. I => ShownIsStored
    BY DEF InstallInv, Stored, ShownIsStored
  <1> QED
    BY <1>1, <1>2, <1>3, TypeInvariant, PTL DEF Spec
==============================================================================
