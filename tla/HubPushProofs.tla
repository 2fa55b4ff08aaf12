---------------------------- MODULE HubPushProofs ----------------------------
(***************************************************************************)
(* The safety properties of HubPush, for every number of edits and faults, *)
(* every queue and every coalescing window.                                *)
(*                                                                         *)
(* An edit is never forgotten because at every moment somebody still owes  *)
(* the node what it does not have: a call that has not notified, a change  *)
(* that is pending or taken, a push that has yet to read the database, or  *)
(* a frame that carries what the database says; or a push has failed, and  *)
(* left it out.  That a frame counts only if no older one can follow it is *)
(* what pushMu is for.                                                     *)
(***************************************************************************)
EXTENDS HubPush, SequenceTheorems, TLAPS

Frames == [type: {"welcome", "config", "users"}, rev: Nat, xray: BOOLEAN]
Stages == {"lock", "config", "sendConfig", "users", "sendUsers"}
PushType == [conn: Nat, config: BOOLEAN, users: BOOLEAN, at: Stages, rev: Nat, xray: BOOLEAN]

Configs == {i \in DOMAIN down : down[i].type = "config"}
Lists   == {i \in DOMAIN down : down[i].type = "users"}

\* Pushes over the connection the node has, and those at some stage.
Ours == {p \in pushes : p.conn = session}
At(stage) == {p \in Ours : p.at = stage}

-----------------------------------------------------------------------------
(* The invariant *)

\* A configuration is never pushed without the users that follow it.
Shape ==
  /\ pendConfig => pendUsers
  /\ \A t \in taken : t.config => t.users
  /\ \A p \in pushes : /\ p.conn \in 1..lastConn /\ p.users
                       /\ p.at \in {"config", "sendConfig"} => p.config

\* What is registered is the connection the node has, if it has one.
Linked ==
  /\ session \in 0..lastConn /\ registered \in 0..lastConn
  /\ session # None => registered = session
  /\ session = None => down = << >> /\ ~greeted

\* pushMu: one push at a time is past its lock on a connection.
OneAtATime ==
  \A p, q \in pushes : p.conn = q.conn /\ p.at # "lock" /\ q.at # "lock" => p = q

\* Lists reach the node in the order in which they were read from the database.
UsersInOrder ==
  /\ nodeUsers <= usersDb
  /\ \A i \in Lists : nodeUsers <= down[i].rev /\ down[i].rev <= usersDb
  /\ \A i, j \in Lists : i < j => down[i].rev <= down[j].rev
  /\ \A p \in At("sendUsers") :
       /\ nodeUsers <= p.rev /\ p.rev <= usersDb
       /\ \A i \in Lists : down[i].rev <= p.rev

Behind(a, b) == a.rev <= b.rev /\ (a.xray => b.xray)

\* So do configurations, and none with an Xray part is followed by one without.
ConfigsInOrder ==
  /\ nodeCfg <= cfgDb
  /\ \A i \in Configs : nodeCfg <= down[i].rev /\ down[i].rev <= cfgDb /\ (down[i].xray => greeted)
  /\ \A i, j \in Configs : i < j => Behind(down[i], down[j])
  /\ \A p \in At("sendConfig") :
       /\ nodeCfg <= p.rev /\ p.rev <= cfgDb /\ (p.xray => greeted)
       /\ \A i \in Configs : Behind(down[i], p)

\* Somebody still has to bring the node its users, or its configuration.
UsersComing ==
  \/ editing # {} \/ pendUsers \/ \E t \in taken : t.users
  \/ \E p \in Ours : p.at # "sendUsers" \/ p.rev = usersDb
  \/ \E i \in Lists : down[i].rev = usersDb

ConfigComing ==
  \/ "config" \in editing \/ pendConfig \/ \E t \in taken : t.config
  \/ \E p \in Ours : p.config /\ p.at \in {"lock", "config"}
  \/ \E p \in At("sendConfig") : p.rev = cfgDb /\ p.xray
  \/ \E i \in Configs : down[i].rev = cfgDb /\ down[i].xray

ConfigSettled ==
  /\ nodeCfg = cfgDb /\ nodeXray
  /\ \A i \in Configs : down[i].xray
  /\ \A p \in At("sendConfig") : p.xray

Owed ==
  greeted => /\ "users" \in unsent \/ UsersComing \/ (nodeUsers = usersDb /\ populated)
             /\ "config" \in unsent \/ ConfigComing \/ ConfigSettled

\* The listeners a configuration rebuilds are given their users again.
Relisted ==
  \A i \in Configs : \/ \E j \in Lists : i < j
                     \/ \E p \in Ours : p.at \in {"users", "sendUsers"}
                     \/ "users" \in unsent

\* A timer that has run out has fired; one that runs cannot be restarted past the cap.
Timing ==
  /\ pendTimer = 0 => fired > 0
  /\ pendTimer # NoTimer => pendAge + pendTimer < MaxCoalesce + Coalesce

IInv ==
  /\ TypeOK /\ Shape /\ Linked /\ OneAtATime
  /\ UsersInOrder /\ ConfigsInOrder
  /\ Relisted /\ Owed
  /\ Timing

-----------------------------------------------------------------------------
(* Frames under way *)

LEMMA Appended ==
  ASSUME down \in Seq(Frames), NEW f \in Frames, down' = Append(down, f)
  PROVE  /\ down' \in Seq(Frames)
         /\ DOMAIN down' = DOMAIN down \cup {Len(down) + 1}
         /\ \A i \in DOMAIN down : i \in Int /\ i < Len(down) + 1 /\ down'[i] = down[i]
         /\ down'[Len(down) + 1] = f
         /\ Len(down) + 1 \in Int
<1>1. Len(down) \in Nat /\ DOMAIN down = 1..Len(down)
  BY LenProperties
<1>2. /\ down' \in Seq(Frames) /\ Len(down') = Len(down) + 1
      /\ \A i \in 1..Len(down) : down'[i] = down[i]
      /\ down'[Len(down) + 1] = f
  BY AppendProperties
<1>3. DOMAIN down' = 1..(Len(down) + 1)
  BY <1>2, LenProperties
<1> QED
  BY <1>1, <1>2, <1>3

LEMMA Received ==
  ASSUME down \in Seq(Frames), down # << >>, down' = Tail(down)
  PROVE  /\ down' \in Seq(Frames)
         /\ 1 \in DOMAIN down /\ down[1] = Head(down) /\ Head(down) \in Frames
         /\ \A i \in DOMAIN down : i \in Int /\ i >= 1
         /\ \A i \in DOMAIN down' : i \in Int /\ i + 1 \in DOMAIN down /\ down'[i] = down[i + 1]
         /\ \A i \in DOMAIN down : i > 1 => i - 1 \in DOMAIN down' /\ down'[i - 1] = down[i]
<1>1. Len(down) \in Nat \ {0} /\ DOMAIN down = 1..Len(down)
  BY LenProperties, EmptySeq
<1>2. /\ down' \in Seq(Frames) /\ Len(down') = Len(down) - 1 /\ Head(down) \in Frames
      /\ \A i \in 1..Len(down') : down'[i] = down[i + 1]
  BY HeadTailProperties
<1>3. DOMAIN down' = 1..(Len(down) - 1)
  BY <1>2, LenProperties
<1>4. down[1] = Head(down)
  BY <1>1
<1>5. \A i \in DOMAIN down : i > 1 => i - 1 \in DOMAIN down' /\ i - 1 \in 1..Len(down') /\ (i - 1) + 1 = i
  BY <1>1, <1>2, <1>3
<1> QED
  BY <1>1, <1>2, <1>3, <1>4, <1>5

LEMMA FrameTyped ==
  ASSUME down \in Seq(Frames)
  PROVE  \A i \in DOMAIN down : i \in Int /\ down[i] \in Frames
  BY LenProperties, ElementOfSeq

-----------------------------------------------------------------------------
(* The service, the timer and the flush *)

LEMMA InitInvariant == Init => IInv
<1> SUFFICES ASSUME Init PROVE IInv
  OBVIOUS
<1>1. DOMAIN down = {}
  BY DEF Init
<1>2. TypeOK
  <2>1. down \in Seq([type: {"welcome", "config", "users"}, rev: Nat, xray: BOOLEAN])
    BY EmptySeq DEF Init
  <2>2. cfgDb \in 1..MaxConfigEdits + 1 /\ usersDb \in 1..MaxUserEdits + 1 /\ pendTimer \in NoTimer..Coalesce
    BY HubAssumption DEF Init, NoTimer
  <2> QED
    BY <2>1, <2>2 DEF Init, TypeOK, None
<1> QED
  BY <1>1, <1>2 DEF Init, IInv, Shape, Linked, OneAtATime, UsersInOrder, ConfigsInOrder, Relisted, Owed,
     Timing, Lists, Configs, At, Ours, None, NoTimer

LEMMA WritesKeep ==
  ASSUME IInv, WriteUsers \/ WriteConfig PROVE IInv'
<1> USE DEF IInv
<1>0. cfgDb \in Nat /\ usersDb \in Nat /\ cfgDb >= 1 /\ usersDb >= 1
  BY HubAssumption DEF TypeOK
<1>1. CASE WriteUsers
  <2>1. /\ usersDb' = usersDb + 1 /\ editing' = editing \cup {"users"}
        /\ usersDb <= MaxUserEdits
        /\ UNCHANGED <<cfgDb, pendVars, taken, pushes, connVars, linkVars, nodeVars, faults>>
    BY <1>1 DEF WriteUsers
  <2> USE <2>1 DEF pendVars, connVars, linkVars, nodeVars
  <2>2. TypeOK'
    BY <1>0, HubAssumption DEF TypeOK
  <2>3. UsersInOrder'
    <3>1. \A i \in Lists : down[i].rev \in Nat
      BY FrameTyped DEF Lists, TypeOK, Frames
    <3>2. \A p \in At("sendUsers") : p.rev \in Nat
      BY DEF At, Ours, TypeOK
    <3>3. nodeUsers \in Nat
      BY DEF TypeOK
    <3> QED
      BY <1>0, <3>1, <3>2, <3>3 DEF UsersInOrder, Lists, At, Ours
  <2>4. Shape' /\ Linked' /\ OneAtATime' /\ ConfigsInOrder' /\ Relisted' /\ Timing'
    BY DEF Shape, Linked, OneAtATime, ConfigsInOrder, Relisted, Timing, Lists, Configs, At, Ours
  <2>5. Owed'
    BY DEF Owed, UsersComing, ConfigComing, ConfigSettled, Configs, At, Ours
  <2> QED
    BY <2>2, <2>3, <2>4, <2>5
<1>2. CASE WriteConfig
  <2>1. /\ cfgDb' = cfgDb + 1 /\ editing' = editing \cup {"config"}
        /\ cfgDb <= MaxConfigEdits
        /\ UNCHANGED <<usersDb, pendVars, taken, pushes, connVars, linkVars, nodeVars, faults>>
    BY <1>2 DEF WriteConfig
  <2> USE <2>1 DEF pendVars, connVars, linkVars, nodeVars
  <2>2. TypeOK'
    BY <1>0, HubAssumption DEF TypeOK
  <2>3. ConfigsInOrder'
    <3>1. \A i \in Configs : down[i].rev \in Nat
      BY FrameTyped DEF Configs, TypeOK, Frames
    <3>2. \A p \in At("sendConfig") : p.rev \in Nat
      BY DEF At, Ours, TypeOK
    <3>3. nodeCfg \in Nat
      BY DEF TypeOK
    <3> QED
      BY <1>0, <3>1, <3>2, <3>3 DEF ConfigsInOrder, Configs, At, Ours, Behind
  <2>4. Shape' /\ Linked' /\ OneAtATime' /\ UsersInOrder' /\ Relisted' /\ Timing'
    BY DEF Shape, Linked, OneAtATime, UsersInOrder, Relisted, Timing, Lists, Configs, At, Ours
  <2>5. Owed'
    BY DEF Owed, UsersComing, ConfigComing, Configs, Lists, At, Ours
  <2> QED
    BY <2>2, <2>3, <2>4, <2>5
<1> QED
  BY <1>1, <1>2

\* What has not been read from the database yet is all that these steps move.
LEMMA NotifyKeeps ==
  ASSUME IInv, Notify PROVE IInv'
<1> USE DEF IInv
<1>1. PICK call \in editing : schedule(call = "config") /\ editing' = editing \ {call}
  BY DEF Notify
<1>2. UNCHANGED <<cfgDb, usersDb, taken, pushes, connVars, linkVars, nodeVars, faults>>
  BY DEF Notify
<1>3. /\ pendUsers' = TRUE /\ pendConfig' = (pendConfig \/ call = "config")
      /\ UNCHANGED <<strays, fired>>
  BY <1>1 DEF schedule
<1>4. Timing' /\ pendTimer' \in NoTimer..Coalesce /\ pendAge' \in Nat
  <2>1. pendTimer \in NoTimer..Coalesce /\ pendAge \in Nat /\ Timing /\ fired' = fired
    BY <1>3 DEF TypeOK
  <2>2. CASE pendTimer = NoTimer
    <3>1. pendTimer' = Coalesce /\ pendAge' = 0
      BY <1>1, <2>2 DEF schedule
    <3> QED
      BY <3>1, HubAssumption DEF Timing, NoTimer
  <2>3. CASE pendTimer # NoTimer /\ pendAge < MaxCoalesce
    <3>1. pendTimer' = Coalesce /\ pendAge' = pendAge
      BY <1>1, <2>3 DEF schedule
    <3> QED
      BY <2>1, <2>3, <3>1, HubAssumption DEF Timing, NoTimer
  <2>4. CASE pendTimer # NoTimer /\ ~(pendAge < MaxCoalesce)
    <3>1. pendTimer' = pendTimer /\ pendAge' = pendAge
      BY <1>1, <2>4 DEF schedule
    <3> QED
      BY <2>1, <3>1 DEF Timing
  <2> QED
    BY <2>2, <2>3, <2>4
<1> USE <1>2 DEF connVars, linkVars, nodeVars
<1>5. TypeOK'
  BY <1>1, <1>3, <1>4 DEF TypeOK
<1>6. Shape' /\ Linked' /\ OneAtATime' /\ UsersInOrder' /\ ConfigsInOrder' /\ Relisted'
  BY <1>3 DEF Shape, Linked, OneAtATime, UsersInOrder, ConfigsInOrder, Relisted, Lists, Configs, At, Ours
<1>7. Owed'
  BY <1>1, <1>3 DEF Owed, UsersComing, ConfigComing, ConfigSettled, Configs, At, Ours
<1> QED
  BY <1>4, <1>5, <1>6, <1>7

LEMMA ElapseKeeps ==
  ASSUME IInv, Elapse PROVE IInv'
<1> USE DEF IInv
<1>1. UNCHANGED <<pendUsers, pendConfig, dbVars, taken, pushes, connVars, linkVars, nodeVars, faults>>
  BY DEF Elapse
<1>2. /\ fired = 0
      /\ pendTimer' = IF pendTimer > 0 THEN pendTimer - 1 ELSE pendTimer
      /\ pendAge' = IF pendTimer = NoTimer THEN pendAge ELSE pendAge + 1
      /\ strays' = {t - 1 : t \in strays \ {1}}
      /\ fired' = (IF pendTimer = 1 THEN 1 ELSE 0) + (IF 1 \in strays THEN 1 ELSE 0)
  BY DEF Elapse
<1>3. pendTimer \in NoTimer..Coalesce /\ pendAge \in Nat /\ Coalesce \in Nat /\ MaxCoalesce \in Nat
  BY HubAssumption DEF TypeOK
<1>4. pendTimer' \in NoTimer..Coalesce /\ pendAge' \in Nat /\ fired' \in Nat /\ Timing'
  BY <1>2, <1>3 DEF Timing, NoTimer
<1>5. strays' \subseteq 1..Coalesce
  BY <1>2, <1>3 DEF TypeOK
<1> USE <1>1 DEF dbVars, connVars, linkVars, nodeVars
<1>6. TypeOK'
  BY <1>4, <1>5 DEF TypeOK
<1>7. Shape' /\ Linked' /\ OneAtATime' /\ UsersInOrder' /\ ConfigsInOrder' /\ Relisted'
  BY DEF Shape, Linked, OneAtATime, UsersInOrder, ConfigsInOrder, Relisted, Lists, Configs, At, Ours
<1>8. Owed'
  BY DEF Owed, UsersComing, ConfigComing, ConfigSettled, Lists, Configs, At, Ours
<1> QED
  BY <1>4, <1>6, <1>7, <1>8

LEMMA FlushTakesKeeps ==
  ASSUME IInv, FlushTakes PROVE IInv'
<1> USE DEF IInv
<1>1. /\ fired > 0 /\ fired' = fired - 1
      /\ taken' = taken \cup {[config |-> pendConfig, users |-> pendUsers]}
      /\ pendUsers' = FALSE /\ pendConfig' = FALSE /\ pendTimer' = NoTimer /\ pendAge' = 0
      /\ strays' = IF pendTimer > 0 THEN strays \cup {pendTimer} ELSE strays
      /\ UNCHANGED <<dbVars, pushes, connVars, linkVars, nodeVars, faults>>
  BY DEF FlushTakes
<1> USE <1>1 DEF dbVars, connVars, linkVars, nodeVars
<1>2. strays' \subseteq 1..Coalesce
  BY HubAssumption DEF TypeOK, NoTimer
<1>3. taken' \subseteq [config: BOOLEAN, users: BOOLEAN]
  BY DEF TypeOK
<1>4. fired' \in Nat /\ pendTimer' \in NoTimer..Coalesce /\ Timing'
  BY HubAssumption DEF TypeOK, NoTimer, Timing
<1>5. TypeOK'
  BY <1>2, <1>3, <1>4 DEF TypeOK
<1>6. Shape' /\ Linked' /\ OneAtATime' /\ UsersInOrder' /\ ConfigsInOrder' /\ Relisted'
  BY DEF Shape, Linked, OneAtATime, UsersInOrder, ConfigsInOrder, Relisted, Lists, Configs, At, Ours
<1>7. Owed'
  <2>1. /\ pendUsers => \E t \in taken' : t.users
        /\ pendConfig => \E t \in taken' : t.config
        /\ \A t \in taken : t \in taken'
    <3> DEFINE new == [config |-> pendConfig, users |-> pendUsers]
    <3>1. new \in taken' /\ new.config = pendConfig /\ new.users = pendUsers
      OBVIOUS
    <3> HIDE DEF new
    <3> QED
      BY <3>1
  <2>2. UsersComing => UsersComing'
    BY <2>1 DEF UsersComing, Lists, Ours
  <2>3. ConfigComing => ConfigComing'
    BY <2>1 DEF ConfigComing, Configs, At, Ours
  <2>4. ConfigSettled => ConfigSettled'
    BY DEF ConfigSettled, Configs, At, Ours
  <2> QED
    BY <2>2, <2>3, <2>4 DEF Owed
<1> QED
  BY <1>4, <1>5, <1>6, <1>7

LEMMA FlushPushesKeeps ==
  ASSUME IInv, FlushPushes PROVE IInv'
<1> USE DEF IInv
<1>1. PICK t \in taken :
        /\ taken' = taken \ {t}
        /\ pushes' = IF registered # None /\ (t.config \/ t.users)
                       THEN pushes \cup {[conn |-> registered, config |-> t.config, users |-> t.users,
                                          at |-> "lock", rev |-> 0, xray |-> FALSE]}
                       ELSE pushes
  BY DEF FlushPushes
<1>2. UNCHANGED <<dbVars, pendVars, connVars, linkVars, nodeVars, faults>>
  BY DEF FlushPushes
<1> DEFINE new == [conn |-> registered, config |-> t.config, users |-> t.users,
                   at |-> "lock", rev |-> 0, xray |-> FALSE]
<1>3. t.config \in BOOLEAN /\ t.users \in BOOLEAN /\ (t.config => t.users)
  BY DEF TypeOK, Shape
<1>4. /\ new.conn = registered /\ new.at = "lock" /\ new.users = t.users /\ new.config = t.config
      /\ new \in PushType
  BY <1>3 DEF TypeOK, PushType, Stages
<1>5. pushes' = IF registered # None /\ t.users THEN pushes \cup {new} ELSE pushes
  BY <1>1, <1>3
<1> HIDE DEF new
<1> USE <1>2 DEF dbVars, pendVars, connVars, linkVars, nodeVars
<1>6. TypeOK'
  <2>1. pushes' \subseteq PushType /\ taken' \subseteq [config: BOOLEAN, users: BOOLEAN]
    BY <1>1, <1>4, <1>5 DEF TypeOK, PushType, Stages
  <2> QED
    BY <2>1 DEF TypeOK, PushType, Stages
<1>7. Shape' /\ Linked' /\ Timing'
  BY <1>1, <1>3, <1>4, <1>5 DEF Shape, Linked, Timing, TypeOK, None
<1>8. OneAtATime'
  BY <1>4, <1>5 DEF OneAtATime
<1>9. UsersInOrder' /\ ConfigsInOrder' /\ Relisted'
  <2>1. At("sendUsers")' = At("sendUsers") /\ At("sendConfig")' = At("sendConfig") /\ Ours \subseteq Ours'
    BY <1>4, <1>5 DEF At, Ours
  <2> QED
    BY <2>1 DEF UsersInOrder, ConfigsInOrder, Relisted, Lists, Configs
<1>10. Owed'
  <2>1. SUFFICES ASSUME greeted PROVE Owed'
    BY DEF Owed
  <2>2. registered # None /\ registered = session
    BY <2>1 DEF Linked
  <2>3. /\ At("sendConfig")' = At("sendConfig") /\ Ours \subseteq Ours'
        /\ t.users => \E p \in Ours' : p.at = "lock" /\ p.config = t.config
    BY <1>4, <1>5, <2>2 DEF At, Ours
  <2>4. UsersComing => UsersComing'
    BY <1>1, <2>3 DEF UsersComing, Lists
  <2>5. ConfigComing => ConfigComing'
    BY <1>1, <1>3, <2>3 DEF ConfigComing, Configs
  <2>6. ConfigSettled => ConfigSettled'
    BY <2>3 DEF ConfigSettled, Configs
  <2> QED
    BY <2>4, <2>5, <2>6 DEF Owed
<1> QED
  BY <1>6, <1>7, <1>8, <1>9, <1>10

-----------------------------------------------------------------------------
(* Pushes *)

LEMMA PushLocksKeeps ==
  ASSUME IInv, PushLocks PROVE IInv'
<1> USE DEF IInv
<1>1. PICK p \in pushes :
        /\ p.at = "lock"
        /\ \A q \in pushes : q.conn = p.conn => q.at = "lock"
        /\ Becomes(p, [p EXCEPT !.at = IF p.config THEN "config" ELSE "users"])
  BY DEF PushLocks
<1>2. UNCHANGED <<dbVars, pendVars, taken, connVars, linkVars, nodeVars, faults>>
  BY DEF PushLocks
<1> DEFINE new == [p EXCEPT !.at = IF p.config THEN "config" ELSE "users"]
<1>3. p \in PushType
  BY DEF TypeOK, PushType, Stages
<1>4. /\ new.conn = p.conn /\ new.config = p.config /\ new.users = p.users
      /\ new.at = IF p.config THEN "config" ELSE "users"
      /\ new \in PushType
  BY <1>3 DEF PushType, Stages
<1>5. pushes' = (pushes \ {p}) \cup {new}
  BY <1>1 DEF Becomes
<1> HIDE DEF new
<1> USE <1>2 DEF dbVars, pendVars, connVars, linkVars, nodeVars
<1>6. TypeOK'
  <2>1. pushes' \subseteq PushType
    BY <1>4, <1>5 DEF TypeOK, PushType, Stages
  <2> QED
    BY <2>1 DEF TypeOK, PushType, Stages
<1>7. Shape' /\ Linked' /\ Timing'
  BY <1>4, <1>5 DEF Shape, Linked, Timing
<1>8. OneAtATime'
  BY <1>1, <1>4, <1>5 DEF OneAtATime
<1>9. UsersInOrder' /\ ConfigsInOrder' /\ Relisted'
  <2>1. /\ At("sendUsers")' = At("sendUsers") /\ At("sendConfig")' = At("sendConfig")
        /\ \A q \in Ours : q.at # "lock" => q \in Ours'
    BY <1>1, <1>4, <1>5 DEF At, Ours
  <2> QED
    BY <2>1 DEF UsersInOrder, ConfigsInOrder, Relisted, Lists, Configs
<1>10. Owed'
  <2>1. /\ At("sendConfig")' = At("sendConfig")
        /\ \A q \in Ours : q \in Ours' \/ (q = p /\ new \in Ours')
    BY <1>1, <1>4, <1>5 DEF At, Ours
  <2>2. UsersComing => UsersComing'
    BY <1>1, <1>4, <2>1 DEF UsersComing, Lists
  <2>3. ConfigComing => ConfigComing'
    BY <1>1, <1>4, <2>1 DEF ConfigComing, Configs
  <2>4. ConfigSettled => ConfigSettled'
    BY <2>1 DEF ConfigSettled, Configs
  <2> QED
    BY <2>2, <2>3, <2>4 DEF Owed
<1> QED
  BY <1>6, <1>7, <1>8, <1>9, <1>10

\* A push reads the database at its latest, so what it will send is behind nothing.
LEMMA PushBuildsKeeps ==
  ASSUME IInv, PushBuilds PROVE IInv'
<1> USE DEF IInv
<1>1. PICK p \in pushes :
       \/ /\ p.at = "config"
          /\ Becomes(p, [p EXCEPT !.at = "sendConfig", !.rev = cfgDb,
                                  !.xray = p.conn = session /\ greeted])
          /\ MakesUpFor(p, "config")
       \/ /\ p.at = "users"
          /\ Becomes(p, [p EXCEPT !.at = "sendUsers", !.rev = usersDb])
          /\ MakesUpFor(p, "users")
  BY DEF PushBuilds
<1>2. UNCHANGED <<dbVars, pendVars, taken, connVars, session, greeted, down, nodeVars, faults>>
  BY DEF PushBuilds
<1>3. /\ p \in PushType /\ cfgDb \in Nat /\ usersDb \in Nat /\ greeted \in BOOLEAN
      /\ nodeCfg \in Nat /\ nodeUsers \in Nat
  BY HubAssumption DEF TypeOK, PushType, Stages
<1>4. ASSUME p.at = "config",
             Becomes(p, [p EXCEPT !.at = "sendConfig", !.rev = cfgDb, !.xray = p.conn = session /\ greeted]),
             MakesUpFor(p, "config")
      PROVE  IInv'
  <2> DEFINE new == [p EXCEPT !.at = "sendConfig", !.rev = cfgDb, !.xray = p.conn = session /\ greeted]
  <2>1. /\ new.conn = p.conn /\ new.config = p.config /\ new.users = p.users
        /\ new.at = "sendConfig" /\ new.rev = cfgDb /\ new.xray = (p.conn = session /\ greeted)
        /\ new \in PushType
    BY <1>3 DEF PushType, Stages
  <2>2. pushes' = (pushes \ {p}) \cup {new}
    BY <1>4 DEF Becomes
  <2> HIDE DEF new
  <2> USE <1>2 DEF dbVars, pendVars, connVars, nodeVars
  <2>0. /\ unsent' \subseteq unsent
        /\ p.conn # session => unsent' = unsent
        /\ "users" \in unsent => "users" \in unsent'
    BY <1>4 DEF MakesUpFor
  <2>3. TypeOK'
    <3>1. pushes' \subseteq PushType
      BY <2>1, <2>2 DEF TypeOK, PushType, Stages
    <3> QED
      BY <2>0, <3>1 DEF TypeOK, PushType, Stages
  <2>4. Shape' /\ Linked' /\ Timing'
    BY <1>4, <2>1, <2>2 DEF Shape, Linked, Timing
  <2>5. OneAtATime'
    BY <1>4, <2>1, <2>2 DEF OneAtATime
  <2>6. /\ At("sendUsers")' = At("sendUsers")
        /\ At("sendConfig")' = At("sendConfig") \cup (IF p.conn = session THEN {new} ELSE {})
        /\ \A q \in Ours : q \in Ours' \/ q = p
        /\ p \in Ours => new \in Ours'
    BY <1>4, <2>1, <2>2 DEF At, Ours
  <2>7. UsersInOrder' /\ Relisted'
    BY <1>4, <2>0, <2>6 DEF UsersInOrder, Relisted, Lists, Configs
  <2>8. ConfigsInOrder'
    <3>1. ASSUME p.conn = session, NEW i \in Configs PROVE Behind(down[i], new)
      BY <2>1, <3>1 DEF ConfigsInOrder, Behind
    <3>2. \A q \in At("sendConfig") : \A i \in Configs : Behind(down[i], q)
      BY DEF ConfigsInOrder
    <3>3. \A q \in At("sendConfig")' : \A i \in Configs : Behind(down[i], q)
      BY <2>6, <3>1, <3>2
    <3>4. \A q \in At("sendConfig")' : nodeCfg <= q.rev /\ q.rev <= cfgDb /\ (q.xray => greeted)
      BY <1>3, <2>1, <2>6 DEF ConfigsInOrder
    <3> QED
      BY <3>3, <3>4 DEF ConfigsInOrder, Configs, Behind
  <2>9. Owed'
    <3>1. UsersComing => UsersComing'
      BY <2>1, <2>6 DEF UsersComing, Lists
    <3>2. greeted /\ p \in Ours => ConfigComing'
      BY <2>1, <2>6 DEF ConfigComing, Ours
    <3>3. p \notin Ours /\ ConfigComing => ConfigComing'
      BY <2>6 DEF ConfigComing, Configs
    <3>4. p \notin Ours /\ ConfigSettled => ConfigSettled'
      BY <2>6 DEF ConfigSettled, Configs, Ours
    <3> QED
      BY <2>0, <3>1, <3>2, <3>3, <3>4 DEF Owed, Ours
  <2> QED
    BY <2>3, <2>4, <2>5, <2>7, <2>8, <2>9
<1>5. ASSUME p.at = "users", Becomes(p, [p EXCEPT !.at = "sendUsers", !.rev = usersDb]),
             MakesUpFor(p, "users")
      PROVE  IInv'
  <2> DEFINE new == [p EXCEPT !.at = "sendUsers", !.rev = usersDb]
  <2>1. /\ new.conn = p.conn /\ new.config = p.config /\ new.users = p.users
        /\ new.at = "sendUsers" /\ new.rev = usersDb
        /\ new \in PushType
    BY <1>3 DEF PushType, Stages
  <2>2. pushes' = (pushes \ {p}) \cup {new}
    BY <1>5 DEF Becomes
  <2> HIDE DEF new
  <2> USE <1>2 DEF dbVars, pendVars, connVars, nodeVars
  <2>0. /\ unsent' \subseteq unsent
        /\ p.conn # session => unsent' = unsent
        /\ "config" \in unsent => "config" \in unsent'
    BY <1>5 DEF MakesUpFor
  <2>3. TypeOK'
    <3>1. pushes' \subseteq PushType
      BY <2>1, <2>2 DEF TypeOK, PushType, Stages
    <3> QED
      BY <2>0, <3>1 DEF TypeOK, PushType, Stages
  <2>4. Shape' /\ Linked' /\ Timing'
    BY <1>5, <2>1, <2>2 DEF Shape, Linked, Timing
  <2>5. OneAtATime'
    BY <1>5, <2>1, <2>2 DEF OneAtATime
  <2>6. /\ At("sendConfig")' = At("sendConfig")
        /\ At("sendUsers")' = At("sendUsers") \cup (IF p.conn = session THEN {new} ELSE {})
        /\ \A q \in Ours : q \in Ours' \/ q = p
        /\ p \in Ours => new \in Ours'
    BY <1>5, <2>1, <2>2 DEF At, Ours
  <2>7. ConfigsInOrder' /\ Relisted'
    <3>1. ConfigsInOrder'
      BY <2>1, <2>6 DEF ConfigsInOrder, Lists, Configs
    <3>2. p \in Ours => Relisted'
      BY <2>1, <2>6 DEF Relisted
    <3>3. p \notin Ours => unsent' = unsent /\ \A q \in Ours : q \in Ours'
      BY <2>0, <2>6 DEF Ours
    <3>4. p \notin Ours => Relisted'
      BY <3>3 DEF Relisted, Lists, Configs
    <3> QED
      BY <3>1, <3>2, <3>4
  <2>8. UsersInOrder'
    BY <1>3, <2>1, <2>6 DEF UsersInOrder, Lists
  <2>9. Owed'
    <3>1. UsersComing => UsersComing'
      BY <2>1, <2>6 DEF UsersComing, Lists
    <3>2. ConfigComing => ConfigComing'
      BY <1>5, <2>6 DEF ConfigComing, Configs
    <3>3. ConfigSettled => ConfigSettled'
      BY <2>6 DEF ConfigSettled, Configs
    <3>4. p \in Ours => UsersComing'
      BY <2>1, <2>6 DEF UsersComing
    <3> QED
      BY <2>0, <3>1, <3>2, <3>3, <3>4 DEF Owed, Ours
  <2> QED
    BY <2>3, <2>4, <2>5, <2>7, <2>8, <2>9
<1> QED
  BY <1>1, <1>4, <1>5

\* What a push that fails was still to bring is counted as left out.
LEMMA PushFailsKeeps ==
  ASSUME IInv, PushFails PROVE IInv'
<1> USE DEF IInv
<1>1. PICK p \in pushes :
        /\ p.at # "lock"
        /\ Ends(p)
        /\ unsent' = IF p.conn = session THEN unsent \cup LeavesOut(p) ELSE unsent
  BY DEF PushFails
<1>2. UNCHANGED <<dbVars, pendVars, taken, connVars, session, greeted, down, nodeVars>> /\ faults' = faults + 1
  BY DEF PushFails, Fault
<1>3. pushes' = pushes \ {p} /\ p.users /\ p \in PushType
  BY <1>1 DEF Ends, Shape, TypeOK, PushType, Stages
<1>4. /\ unsent \subseteq unsent' /\ unsent' \subseteq {"config", "users"}
      /\ p \in Ours => "users" \in unsent'
      /\ p \in Ours /\ p.at \in {"config", "sendConfig"} => "config" \in unsent'
  BY <1>1, <1>3 DEF LeavesOut, Ours, TypeOK
<1> USE <1>2 DEF dbVars, pendVars, connVars, nodeVars
<1>5. /\ \A q \in Ours : q \in Ours' \/ q = p
      /\ Ours' \subseteq Ours
      /\ At("sendConfig")' \subseteq At("sendConfig") /\ At("sendUsers")' \subseteq At("sendUsers")
  BY <1>3 DEF Ours, At
<1>6. TypeOK'
  <2>1. pushes' \subseteq PushType
    BY <1>3 DEF TypeOK, PushType, Stages
  <2> QED
    BY <1>4, <2>1 DEF TypeOK, PushType, Stages
<1>7. Shape' /\ Linked' /\ OneAtATime' /\ Timing'
  BY <1>3 DEF Shape, Linked, OneAtATime, Timing
<1>8. UsersInOrder' /\ ConfigsInOrder'
  BY <1>5 DEF UsersInOrder, ConfigsInOrder, Lists, Configs, Behind
<1>9. Relisted'
  BY <1>4, <1>5 DEF Relisted, Lists, Configs
<1>10. Owed'
  <2>1. UsersComing => UsersComing' \/ "users" \in unsent'
    BY <1>4, <1>5 DEF UsersComing, Lists
  <2>2. ConfigComing => ConfigComing' \/ "config" \in unsent'
    <3>1. CASE \E q \in Ours : q.config /\ q.at \in {"lock", "config"}
      BY <1>1, <1>4, <1>5, <3>1 DEF ConfigComing
    <3>2. CASE \E q \in At("sendConfig") : q.rev = cfgDb /\ q.xray
      <4>1. PICK q \in At("sendConfig") : q.rev = cfgDb /\ q.xray
        BY <3>2
      <4>2. q \in Ours /\ q.at = "sendConfig"
        BY DEF At
      <4>3. q = p \/ q \in At("sendConfig")'
        BY <1>5, <4>2 DEF At
      <4> QED
        BY <1>4, <4>1, <4>2, <4>3 DEF ConfigComing
    <3> QED
      BY <3>1, <3>2 DEF ConfigComing, Configs
  <2>3. ConfigSettled => ConfigSettled'
    BY <1>5 DEF ConfigSettled, Configs
  <2> QED
    BY <1>4, <2>1, <2>2, <2>3 DEF Owed
<1> QED
  BY <1>6, <1>7, <1>8, <1>9, <1>10

\* A frame goes behind the others, and the push that sent it ends or turns to the users.
LEMMA PushSendsKeeps ==
  ASSUME IInv, PushSends PROVE IInv'
<1> USE DEF IInv
<1>1. PICK p \in pushes :
       \/ /\ p.at = "sendConfig" /\ p.conn = session
          /\ Len(down) < MaxQueue
          /\ down' = Append(down, Frame("config", p.rev, p.xray))
          /\ IF p.users THEN Becomes(p, [p EXCEPT !.at = "users"]) ELSE Ends(p)
       \/ /\ p.at = "sendUsers" /\ p.conn = session
          /\ Len(down) < MaxQueue
          /\ down' = Append(down, Frame("users", p.rev, FALSE))
          /\ Ends(p)
       \/ /\ p.at \in {"sendConfig", "sendUsers"} /\ p.conn # session
          /\ Ends(p)
          /\ UNCHANGED down
  BY DEF PushSends
<1>2. UNCHANGED <<dbVars, pendVars, taken, connVars, session, greeted, unsent, nodeVars, faults>>
  BY DEF PushSends
<1>3. /\ p \in PushType /\ p.users /\ down \in Seq(Frames)
      /\ cfgDb \in Nat /\ usersDb \in Nat /\ nodeCfg \in Nat /\ nodeUsers \in Nat
  BY HubAssumption DEF TypeOK, PushType, Stages, Frames, Shape
<1>4. \A i \in DOMAIN down : i \in Int /\ down[i] \in Frames
  BY <1>3, FrameTyped
<1>5. ASSUME p.at = "sendConfig", p.conn = session,
             down' = Append(down, Frame("config", p.rev, p.xray)),
             Becomes(p, [p EXCEPT !.at = "users"])
      PROVE  IInv'
  <2> DEFINE new == [p EXCEPT !.at = "users"]
             f == Frame("config", p.rev, p.xray)
             n == Len(down) + 1
  <2>1. /\ new.conn = p.conn /\ new.config = p.config /\ new.users = p.users /\ new.at = "users"
        /\ new \in PushType
        /\ f \in Frames /\ f.type = "config" /\ f.rev = p.rev /\ f.xray = p.xray
    BY <1>3 DEF PushType, Stages, Frame, Frames
  <2>2. pushes' = (pushes \ {p}) \cup {new} /\ down' = Append(down, f)
    BY <1>5 DEF Becomes
  <2> HIDE DEF new, f
  <2>3. /\ down' \in Seq(Frames)
        /\ DOMAIN down' = DOMAIN down \cup {n}
        /\ \A i \in DOMAIN down : i \in Int /\ i < n /\ down'[i] = down[i]
        /\ down'[n] = f /\ n \in Int
    BY <1>3, <2>1, <2>2, Appended
  <2> HIDE DEF n
  <2> USE <1>2 DEF dbVars, pendVars, connVars, nodeVars
  <2>4. TypeOK'
    <3>1. pushes' \subseteq PushType
      BY <2>1, <2>2 DEF TypeOK, PushType, Stages
    <3> QED
      BY <2>3, <3>1 DEF TypeOK, PushType, Stages, Frames
  <2>5. Shape' /\ Linked' /\ Timing'
    <3>1. session # None
      BY <1>3, <1>5 DEF Shape, None
    <3> QED
      BY <2>1, <2>2, <3>1 DEF Shape, Linked, Timing
  <2>6. OneAtATime'
    BY <1>5, <2>1, <2>2 DEF OneAtATime
  <2>7. Configs' = Configs \cup {n} /\ Lists' = Lists /\ \A i \in Configs \cup Lists : i < n /\ down'[i] = down[i]
    BY <2>1, <2>3 DEF Configs, Lists
  <2>8. /\ At("sendUsers")' = At("sendUsers") /\ At("sendConfig")' = {}
        /\ p \in At("sendConfig") /\ new \in Ours'
        /\ \A q \in Ours : q \in Ours' \/ q = p
    BY <1>5, <2>1, <2>2 DEF At, Ours, OneAtATime
  <2>9. UsersInOrder'
    BY <2>7, <2>8 DEF UsersInOrder
  <2>10. ConfigsInOrder'
    <3>1. /\ nodeCfg <= p.rev /\ p.rev <= cfgDb /\ (p.xray => greeted)
          /\ \A i \in Configs : Behind(down[i], p)
      BY <2>8 DEF ConfigsInOrder
    <3>2. \A i \in Configs' : nodeCfg <= down'[i].rev /\ down'[i].rev <= cfgDb /\ (down'[i].xray => greeted)
      BY <2>1, <2>3, <2>7, <3>1 DEF ConfigsInOrder
    <3>3. \A i, j \in Configs' : i < j => Behind(down'[i], down'[j])
      <4>1. \A i, j \in Configs : i < j => Behind(down'[i], down'[j])
        BY <2>7 DEF ConfigsInOrder
      <4>2. \A i \in Configs : Behind(down'[i], f)
        BY <2>1, <2>7, <3>1 DEF Behind
      <4>3. \A i \in Configs' : i \in Int
        BY <2>3 DEF Configs
      <4> QED
        BY <2>3, <2>7, <4>1, <4>2, <4>3
    <3> QED
      BY <2>8, <3>2, <3>3 DEF ConfigsInOrder, Behind
  <2>11. Relisted'
    <3>1. \A i \in Configs' : \E q \in Ours' : q.at \in {"users", "sendUsers"}
      BY <2>1, <2>8
    <3> QED
      BY <3>1 DEF Relisted
  <2>12. Owed'
    <3>1. UsersComing'
      BY <2>1, <2>8 DEF UsersComing
    <3>2. ConfigComing => ConfigComing'
      <4>1. CASE p.rev = cfgDb /\ p.xray
        BY <2>1, <2>3, <2>7, <4>1 DEF ConfigComing
      <4>2. CASE ~(p.rev = cfgDb /\ p.xray)
        <5>1. \A q \in At("sendConfig") : q = p
          BY <1>5 DEF At, Ours, OneAtATime
        <5> QED
          BY <1>5, <2>7, <2>8, <4>2, <5>1 DEF ConfigComing
      <4> QED
        BY <4>1, <4>2
    <3>3. ConfigSettled => ConfigSettled'
      BY <2>1, <2>3, <2>7, <2>8 DEF ConfigSettled
    <3> QED
      BY <3>1, <3>2, <3>3 DEF Owed
  <2> QED
    BY <2>4, <2>5, <2>6, <2>9, <2>10, <2>11, <2>12
<1>6. ASSUME p.at = "sendUsers", p.conn = session,
             down' = Append(down, Frame("users", p.rev, FALSE)), Ends(p)
      PROVE  IInv'
  <2> DEFINE f == Frame("users", p.rev, FALSE)
             n == Len(down) + 1
  <2>1. f \in Frames /\ f.type = "users" /\ f.rev = p.rev
    BY <1>3 DEF PushType, Frame, Frames
  <2>2. pushes' = pushes \ {p} /\ down' = Append(down, f)
    BY <1>6 DEF Ends
  <2> HIDE DEF f
  <2>3. /\ down' \in Seq(Frames)
        /\ DOMAIN down' = DOMAIN down \cup {n}
        /\ \A i \in DOMAIN down : i \in Int /\ i < n /\ down'[i] = down[i]
        /\ down'[n] = f /\ n \in Int
    BY <1>3, <2>1, <2>2, Appended
  <2> HIDE DEF n
  <2> USE <1>2 DEF dbVars, pendVars, connVars, nodeVars
  <2>4. TypeOK'
    BY <2>2, <2>3 DEF TypeOK, Frames
  <2>5. Shape' /\ Linked' /\ Timing'
    <3>1. session # None
      BY <1>3, <1>6 DEF Shape, None
    <3> QED
      BY <2>2, <3>1 DEF Shape, Linked, Timing
  <2>6. OneAtATime'
    BY <2>2 DEF OneAtATime
  <2>7. Lists' = Lists \cup {n} /\ Configs' = Configs /\ \A i \in Configs \cup Lists : i < n /\ down'[i] = down[i]
    BY <2>1, <2>3 DEF Configs, Lists
  <2>8. /\ At("sendConfig")' = At("sendConfig") /\ At("sendUsers")' = {}
        /\ p \in At("sendUsers")
        /\ \A q \in Ours : q \in Ours' \/ q = p
    BY <1>6, <2>2 DEF At, Ours, OneAtATime
  <2>9. ConfigsInOrder'
    BY <2>7, <2>8 DEF ConfigsInOrder, Behind
  <2>10. UsersInOrder'
    <3>1. /\ nodeUsers <= p.rev /\ p.rev <= usersDb
          /\ \A i \in Lists : down[i].rev <= p.rev
      BY <2>8 DEF UsersInOrder
    <3>2. \A i \in Lists' : nodeUsers <= down'[i].rev /\ down'[i].rev <= usersDb
      BY <2>1, <2>3, <2>7, <3>1 DEF UsersInOrder
    <3>3. \A i, j \in Lists' : i < j => down'[i].rev <= down'[j].rev
      <4>1. \A i, j \in Lists : i < j => down'[i].rev <= down'[j].rev
        BY <2>7 DEF UsersInOrder
      <4>2. \A i \in Lists : down'[i].rev <= f.rev
        BY <2>1, <2>7, <3>1
      <4>3. \A i \in Lists' : i \in Int
        BY <2>3 DEF Lists
      <4> QED
        BY <2>3, <2>7, <4>1, <4>2, <4>3
    <3> QED
      BY <2>8, <3>2, <3>3 DEF UsersInOrder
  <2>11. Relisted'
    BY <2>7 DEF Relisted
  <2>12. Owed'
    <3>1. UsersComing => UsersComing'
      <4>1. CASE p.rev = usersDb
        BY <2>1, <2>3, <2>7, <4>1 DEF UsersComing
      <4>2. CASE p.rev # usersDb
        BY <1>6, <2>7, <2>8, <4>2 DEF UsersComing
      <4> QED
        BY <4>1, <4>2
    <3>2. ConfigComing => ConfigComing'
      BY <1>6, <2>7, <2>8 DEF ConfigComing
    <3>3. ConfigSettled => ConfigSettled'
      BY <2>7, <2>8 DEF ConfigSettled
    <3> QED
      BY <3>1, <3>2, <3>3 DEF Owed
  <2> QED
    BY <2>4, <2>5, <2>6, <2>9, <2>10, <2>11, <2>12
<1>7. ASSUME p.conn # session, Ends(p), UNCHANGED down
      PROVE  IInv'
  <2>1. pushes' = pushes \ {p}
    BY <1>7 DEF Ends
  <2> USE <1>2, <1>7 DEF dbVars, pendVars, connVars, nodeVars
  <2>2. Ours' = Ours /\ At("sendConfig")' = At("sendConfig") /\ At("sendUsers")' = At("sendUsers")
    BY <2>1 DEF Ours, At
  <2>3. TypeOK' /\ Shape' /\ Linked' /\ OneAtATime' /\ Timing'
    BY <2>1 DEF TypeOK, Shape, Linked, OneAtATime, Timing
  <2>4. UsersInOrder' /\ ConfigsInOrder' /\ Relisted'
    BY <2>2 DEF UsersInOrder, ConfigsInOrder, Relisted, Lists, Configs
  <2>5. Owed'
    BY <2>2 DEF Owed, UsersComing, ConfigComing, ConfigSettled, Lists, Configs
  <2> QED
    BY <2>3, <2>4, <2>5
<1> QED
  BY <1>1, <1>3, <1>5, <1>6, <1>7

-----------------------------------------------------------------------------
(* Connections *)

\* Without a session, or with one whose hello is still to come, nothing is owed yet.
LEMMA CutKeeps ==
  ASSUME IInv, TypeOK', Shape', Linked', Timing', OneAtATime',
         down' = << >>, greeted' = FALSE, Ours' = {},
         nodeUsers' <= usersDb', nodeCfg' <= cfgDb'
  PROVE  IInv'
<1>1. Configs' = {} /\ Lists' = {}
  BY DEF Configs, Lists
<1>2. At("sendUsers")' = {} /\ At("sendConfig")' = {}
  BY DEF At
<1>3. UsersInOrder' /\ ConfigsInOrder' /\ Relisted' /\ Owed'
  BY <1>1, <1>2 DEF UsersInOrder, ConfigsInOrder, Relisted, Owed
<1> QED
  BY <1>3 DEF IInv

LEMMA ConnectKeeps ==
  ASSUME IInv, Connect PROVE IInv'
<1> USE DEF IInv
<1>1. /\ session = None
      /\ lastConn' = lastConn + 1
      /\ session' = lastConn' /\ greeted' = FALSE /\ down' = << >> /\ unsent' = {}
      /\ registered' = lastConn'
      /\ serving' = serving \cup {lastConn'}
      /\ welcomed' = FALSE
      /\ UNCHANGED <<dbVars, pendVars, taken, pushes, nodeCfg, nodeXray, nodeUsers, populated, faults>>
  BY DEF Connect
<1>2. lastConn \in Nat
  BY DEF TypeOK
<1> USE <1>1 DEF dbVars, pendVars
<1>3. TypeOK'
  <2>1. down' \in Seq([type: {"welcome", "config", "users"}, rev: Nat, xray: BOOLEAN])
    BY EmptySeq
  <2>2. serving' \subseteq 1..lastConn' /\ registered' \in Nat /\ session' \in Nat
    BY <1>2 DEF TypeOK
  <2> QED
    BY <1>2, <2>1, <2>2 DEF TypeOK
<1>4. Shape' /\ Linked' /\ OneAtATime' /\ Timing'
  BY <1>2 DEF Shape, Linked, OneAtATime, Timing, None
<1>5. Ours' = {}
  BY <1>2 DEF Shape, Ours
<1>6. nodeUsers' <= usersDb' /\ nodeCfg' <= cfgDb'
  BY DEF UsersInOrder, ConfigsInOrder
<1> QED
  BY <1>3, <1>4, <1>5, <1>6, CutKeeps

LEMMA DispatchHelloKeeps ==
  ASSUME IInv, DispatchHello PROVE IInv'
<1> USE DEF IInv
<1> DEFINE new == [conn |-> session, config |-> TRUE, users |-> TRUE,
                   at |-> "lock", rev |-> 0, xray |-> FALSE]
           n == Len(down) + 1
<1>1. /\ session # None /\ ~greeted /\ greeted' = TRUE
      /\ down' = Append(down, Welcome)
      /\ pushes' = pushes \cup {new}
      /\ UNCHANGED <<dbVars, pendVars, taken, connVars, session, unsent, nodeVars, faults>>
  BY DEF DispatchHello
<1>2. /\ new \in PushType /\ new.conn = session /\ new.config /\ new.users /\ new.at = "lock"
      /\ Welcome \in Frames /\ Welcome.type = "welcome"
  BY DEF TypeOK, PushType, Stages, Welcome, Frame, Frames
<1> HIDE DEF new
<1>3. /\ down' \in Seq(Frames)
      /\ DOMAIN down' = DOMAIN down \cup {n}
      /\ \A i \in DOMAIN down : i \in Int /\ i < n /\ down'[i] = down[i]
      /\ down'[n] = Welcome /\ n \in Int
  BY <1>1, <1>2, Appended DEF TypeOK, Frames
<1> HIDE DEF n
<1> USE <1>1 DEF dbVars, pendVars, connVars, nodeVars
<1>4. TypeOK'
  <2>1. pushes' \subseteq PushType
    BY <1>2 DEF TypeOK, PushType, Stages
  <2> QED
    BY <1>3, <2>1 DEF TypeOK, PushType, Stages, Frames
<1>5. Shape' /\ Linked' /\ Timing'
  BY <1>2 DEF Shape, Linked, Timing, TypeOK, None
<1>6. OneAtATime'
  BY <1>2 DEF OneAtATime
<1>7. /\ Configs' = Configs /\ Lists' = Lists /\ \A i \in Configs \cup Lists : down'[i] = down[i]
      /\ At("sendUsers")' = At("sendUsers") /\ At("sendConfig")' = At("sendConfig")
      /\ Ours' = Ours \cup {new}
  BY <1>2, <1>3 DEF Configs, Lists, At, Ours
<1>8. UsersInOrder' /\ ConfigsInOrder' /\ Relisted'
  <2>1. UsersInOrder'
    BY <1>7 DEF UsersInOrder
  <2>2. ConfigsInOrder'
    BY <1>7 DEF ConfigsInOrder, Behind
  <2>3. Relisted'
    BY <1>7 DEF Relisted
  <2> QED
    BY <2>1, <2>2, <2>3
<1>9. Owed'
  BY <1>2, <1>7 DEF Owed, UsersComing, ConfigComing
<1> QED
  BY <1>4, <1>5, <1>6, <1>8, <1>9

LEMMA ServeEndsKeeps ==
  ASSUME IInv, ServeEnds PROVE IInv'
<1> USE DEF IInv
<1>1. PICK c \in serving \ {session} :
        /\ serving' = serving \ {c}
        /\ registered' = IF registered = c THEN None ELSE registered
  BY DEF ServeEnds
<1>2. UNCHANGED <<dbVars, pendVars, taken, pushes, lastConn, linkVars, nodeVars, faults>>
  BY DEF ServeEnds
<1> USE <1>1, <1>2 DEF dbVars, pendVars, linkVars, nodeVars
<1>3. TypeOK'
  BY DEF TypeOK, None
<1>4. Shape' /\ Linked' /\ OneAtATime' /\ Timing'
  BY DEF TypeOK, Shape, Linked, OneAtATime, Timing, None
<1>5. UsersInOrder' /\ ConfigsInOrder' /\ Relisted'
  BY DEF UsersInOrder, ConfigsInOrder, Relisted, Lists, Configs, At, Ours
<1>6. Owed'
  BY DEF Owed, UsersComing, ConfigComing, ConfigSettled, Lists, Configs, At, Ours
<1> QED
  BY <1>3, <1>4, <1>5, <1>6

LEMMA FaultsKeep ==
  ASSUME IInv, Drop \/ NodeRestart \/ PanelRestart PROVE IInv'
<1> USE DEF IInv
<1>1. session' = None /\ greeted' = FALSE /\ down' = << >> /\ unsent' = {} /\ faults' = faults + 1 /\ UNCHANGED <<cfgDb, usersDb, lastConn>>
  BY DEF Drop, NodeRestart, PanelRestart, EndSession, Fault, dbVars, connVars
<1>2. down' \in Seq([type: {"welcome", "config", "users"}, rev: Nat, xray: BOOLEAN])
  BY <1>1, EmptySeq
<1>3. /\ nodeUsers' \in {0, nodeUsers} /\ nodeCfg' \in {0, nodeCfg} /\ pushes' \in {{}, pushes}
      /\ taken' \in {{}, taken} /\ registered' \in {None, registered} /\ serving' \in {{}, serving}
  BY DEF Drop, NodeRestart, PanelRestart, nodeVars, connVars
<1>4. /\ editing' \subseteq {"users", "config"}
      /\ welcomed' \in BOOLEAN /\ nodeXray' \in BOOLEAN /\ populated' \in BOOLEAN
  <2>1. CASE Drop \/ PanelRestart
    BY <2>1 DEF Drop, PanelRestart, TypeOK, nodeVars, dbVars
  <2>2. CASE NodeRestart
    BY <2>2 DEF NodeRestart, TypeOK, dbVars
  <2> QED
    BY <2>1, <2>2
<1>5. \/ UNCHANGED <<pendUsers, pendConfig, pendTimer, pendAge, strays, fired>>
      \/ /\ pendUsers' = FALSE /\ pendConfig' = FALSE /\ pendTimer' = NoTimer /\ pendAge' = 0
         /\ strays' = {} /\ fired' = 0
  BY DEF Drop, NodeRestart, PanelRestart, pendVars
<1>6. /\ pendUsers' \in BOOLEAN /\ pendConfig' \in BOOLEAN
      /\ pendTimer' \in NoTimer..Coalesce /\ pendAge' \in Nat
      /\ strays' \subseteq 1..Coalesce /\ fired' \in Nat
  <2>1. CASE UNCHANGED <<pendUsers, pendConfig, pendTimer, pendAge, strays, fired>>
    BY <2>1 DEF TypeOK
  <2>2. NoTimer \in NoTimer..Coalesce
    BY HubAssumption DEF NoTimer
  <2>3. CASE /\ pendUsers' = FALSE /\ pendConfig' = FALSE /\ pendTimer' = NoTimer /\ pendAge' = 0
             /\ strays' = {} /\ fired' = 0
    BY <2>2, <2>3
  <2> QED
    BY <1>5, <2>1, <2>3
<1>7. TypeOK'
  <2>1. /\ pushes' \subseteq pushes /\ taken' \subseteq taken /\ serving' \subseteq serving
        /\ registered' \in Nat /\ nodeUsers' \in Nat /\ nodeCfg' \in Nat
    BY <1>3 DEF TypeOK, None
  <2>2. faults' \in Nat /\ greeted' \in BOOLEAN /\ session' \in Nat /\ lastConn' \in Nat
    <3>1. faults \in Nat /\ lastConn \in Nat
      BY DEF TypeOK
    <3>2. greeted' \in BOOLEAN
      BY <1>1
    <3> QED
      BY <1>1, <3>1, <3>2 DEF None
  <2>3. /\ cfgDb' \in 1..MaxConfigEdits + 1 /\ usersDb' \in 1..MaxUserEdits + 1
        /\ serving' \subseteq 1..lastConn'
        /\ taken' \subseteq [config: BOOLEAN, users: BOOLEAN]
    BY <1>1, <2>1 DEF TypeOK
  <2>4. pushes' \subseteq PushType
    BY <2>1 DEF TypeOK, PushType, Stages
  <2>5. unsent' \subseteq {"config", "users"}
    BY <1>1
  <2> QED
    BY <1>2, <1>4, <1>6, <2>1, <2>2, <2>3, <2>4, <2>5 DEF TypeOK, PushType, Stages
<1>8. Shape' /\ Linked' /\ OneAtATime' /\ Timing'
  <2>1. Shape'
    BY <1>1, <1>3, <1>5 DEF Shape
  <2>2. Linked' /\ Timing'
    BY <1>1, <1>3, <1>5 DEF Linked, Timing, None, NoTimer, TypeOK
  <2>3. OneAtATime'
    BY <1>3 DEF OneAtATime
  <2> QED
    BY <2>1, <2>2, <2>3
<1>9. Ours' = {}
  BY <1>1, <1>3 DEF Ours, Shape, None
<1>10. nodeUsers' <= usersDb' /\ nodeCfg' <= cfgDb'
  BY <1>1, <1>3, HubAssumption DEF UsersInOrder, ConfigsInOrder, TypeOK
<1> QED
  BY <1>1, <1>7, <1>8, <1>9, <1>10, CutKeeps

-----------------------------------------------------------------------------
(* The node's read loop *)

\* The frames left are the frames there were, one place nearer.
LEMMA HeadGone ==
  ASSUME IInv, NEW type, Receive(type)
  PROVE  /\ down \in Seq(Frames) /\ down' \in Seq(Frames) /\ Head(down) \in Frames
         /\ 1 \in DOMAIN down /\ down[1] = Head(down) /\ Head(down).type = type
         /\ \A i \in DOMAIN down : i \in Int /\ i >= 1 /\ down[i] \in Frames
         /\ \A i \in Configs' : i \in Int /\ i + 1 \in Configs /\ 1 < i + 1 /\ down'[i] = down[i + 1]
         /\ \A i \in Lists' : i \in Int /\ i + 1 \in Lists /\ 1 < i + 1 /\ down'[i] = down[i + 1]
         /\ \A i \in Configs : i > 1 => i - 1 \in Configs' /\ down'[i - 1] = down[i]
         /\ \A i \in Lists : i > 1 => i - 1 \in Lists' /\ down'[i - 1] = down[i]
<1>1. down \in Seq(Frames) /\ down # << >> /\ down' = Tail(down) /\ Head(down).type = type
  BY DEF IInv, TypeOK, Frames, Receive
<1>2. /\ down' \in Seq(Frames)
      /\ 1 \in DOMAIN down /\ down[1] = Head(down) /\ Head(down) \in Frames
      /\ \A i \in DOMAIN down : i \in Int /\ i >= 1
      /\ \A i \in DOMAIN down' : i \in Int /\ i + 1 \in DOMAIN down /\ down'[i] = down[i + 1]
      /\ \A i \in DOMAIN down : i > 1 => i - 1 \in DOMAIN down' /\ down'[i - 1] = down[i]
  BY <1>1, Received
<1>3. \A i \in DOMAIN down : down[i] \in Frames
  BY <1>1, FrameTyped
<1>4. \A i \in DOMAIN down' : i >= 1
  BY <1>2, FrameTyped, LenProperties
<1> QED
  BY <1>1, <1>2, <1>3, <1>4 DEF Configs, Lists

LEMMA HandleWelcomeKeeps ==
  ASSUME IInv, HandleWelcome PROVE IInv'
<1> USE DEF IInv
<1>1. /\ Receive("welcome") /\ welcomed' = TRUE
      /\ UNCHANGED <<dbVars, pendVars, taken, pushes, connVars, session, greeted, unsent,
                     nodeCfg, nodeXray, nodeUsers, populated, faults>>
  BY DEF HandleWelcome
<1>2. /\ down' \in Seq(Frames)
      /\ 1 \in DOMAIN down /\ down[1].type = "welcome"
      /\ \A i \in DOMAIN down : i \in Int /\ i >= 1 /\ down[i] \in Frames
      /\ \A i \in Configs' : i \in Int /\ i + 1 \in Configs /\ 1 < i + 1 /\ down'[i] = down[i + 1]
      /\ \A i \in Lists' : i \in Int /\ i + 1 \in Lists /\ 1 < i + 1 /\ down'[i] = down[i + 1]
      /\ \A i \in Configs : i > 1 => i - 1 \in Configs' /\ down'[i - 1] = down[i]
      /\ \A i \in Lists : i > 1 => i - 1 \in Lists' /\ down'[i - 1] = down[i]
  BY <1>1, HeadGone
<1>3. session # None
  BY <1>1 DEF Receive
<1> USE <1>1 DEF dbVars, pendVars, connVars
<1>4. TypeOK'
  BY <1>2 DEF TypeOK, Frames
<1>5. Shape' /\ Linked' /\ OneAtATime' /\ Timing'
  BY <1>3 DEF Shape, Linked, OneAtATime, Timing
<1>6. Ours' = Ours /\ At("sendUsers")' = At("sendUsers") /\ At("sendConfig")' = At("sendConfig")
  BY DEF Ours, At
<1>7. \A i \in Configs \cup Lists : i \in Int /\ i > 1
  BY <1>2 DEF Configs, Lists
<1>8. UsersInOrder'
  BY <1>2, <1>6 DEF UsersInOrder
<1>9. ConfigsInOrder'
  <2>1. \A i, j \in Configs' : i < j => Behind(down'[i], down'[j])
    BY <1>2 DEF ConfigsInOrder
  <2> QED
    BY <1>2, <1>6, <2>1 DEF ConfigsInOrder, Behind
<1>10. Relisted'
  <2> SUFFICES ASSUME NEW i \in Configs'
               PROVE  \/ \E j \in Lists' : i < j
                      \/ \E p \in Ours : p.at \in {"users", "sendUsers"}
                      \/ "users" \in unsent
    BY <1>6 DEF Relisted
  <2>1. CASE \E p \in Ours : p.at \in {"users", "sendUsers"}
    BY <2>1
  <2>2. CASE \E j \in Lists : i + 1 < j
    BY <1>2, <1>7, <2>2
  <2> QED
    BY <1>2, <2>1, <2>2 DEF Relisted
<1>11. Owed'
  BY <1>2, <1>6, <1>7 DEF Owed, UsersComing, ConfigComing, ConfigSettled
<1> QED
  BY <1>4, <1>5, <1>8, <1>9, <1>10, <1>11

\* The configuration handled is the newest the node has had; if it is new, the
\* users it drops are still to come.
LEMMA HandleConfigKeeps ==
  ASSUME IInv, HandleConfig PROVE IInv'
<1> USE DEF IInv
<1> DEFINE f == down[1]
<1>1. /\ Receive("config")
      /\ UNCHANGED <<dbVars, pendVars, taken, pushes, connVars, session, greeted, unsent,
                     welcomed, nodeUsers, faults>>
  BY DEF HandleConfig
<1>2. /\ down' \in Seq(Frames)
      /\ 1 \in Configs /\ f \in Frames
      /\ \A i \in DOMAIN down : i \in Int /\ i >= 1 /\ down[i] \in Frames
      /\ \A i \in Configs' : i \in Int /\ i + 1 \in Configs /\ 1 < i + 1 /\ down'[i] = down[i + 1]
      /\ \A i \in Lists' : i \in Int /\ i + 1 \in Lists /\ 1 < i + 1 /\ down'[i] = down[i + 1]
      /\ \A i \in Configs : i > 1 => i - 1 \in Configs' /\ down'[i - 1] = down[i]
      /\ \A i \in Lists : i > 1 => i - 1 \in Lists' /\ down'[i - 1] = down[i]
  BY <1>1, HeadGone DEF Configs
<1>3. nodeCfg' = f.rev /\ nodeXray' = f.xray /\ populated' = (populated /\ f.rev = nodeCfg)
  BY <1>1, HeadGone DEF HandleConfig
<1>4. session # None
  BY <1>1 DEF Receive
<1> USE <1>1 DEF dbVars, pendVars, connVars
<1>5. /\ f.rev \in Nat /\ f.xray \in BOOLEAN /\ nodeCfg <= f.rev /\ f.rev <= cfgDb
      /\ nodeCfg \in Nat /\ nodeUsers \in Nat /\ cfgDb \in Nat /\ usersDb \in Nat
  BY <1>2, HubAssumption DEF Frames, ConfigsInOrder, TypeOK
<1>6. TypeOK'
  <2>1. populated' \in BOOLEAN
    BY <1>3
  <2> QED
    BY <1>2, <1>3, <1>5, <2>1 DEF TypeOK, Frames
<1>7. Shape' /\ Linked' /\ OneAtATime' /\ Timing'
  BY <1>4 DEF Shape, Linked, OneAtATime, Timing
<1>8. Ours' = Ours /\ At("sendUsers")' = At("sendUsers") /\ At("sendConfig")' = At("sendConfig")
  BY DEF Ours, At
<1>9. \A i \in Lists : i \in Int /\ i > 1
  BY <1>2 DEF Configs, Lists
<1>10. UsersInOrder'
  <2>1. \A i \in Lists' : nodeUsers <= down'[i].rev /\ down'[i].rev <= usersDb
    BY <1>2 DEF UsersInOrder
  <2>2. \A i, j \in Lists' : i < j => down'[i].rev <= down'[j].rev
    BY <1>2 DEF UsersInOrder
  <2>3. \A p \in At("sendUsers") : \A i \in Lists' : down'[i].rev <= p.rev
    BY <1>2 DEF UsersInOrder
  <2> QED
    BY <1>8, <2>1, <2>2, <2>3 DEF UsersInOrder
<1>11. /\ \A i \in Configs' : Behind(f, down'[i])
       /\ \A p \in At("sendConfig") : Behind(f, p)
  BY <1>2 DEF ConfigsInOrder
<1>12. ConfigsInOrder'
  <2>1. \A i, j \in Configs' : i < j => Behind(down'[i], down'[j])
    BY <1>2 DEF ConfigsInOrder
  <2>2. /\ \A i \in Configs' : nodeCfg' <= down'[i].rev
        /\ \A p \in At("sendConfig") : nodeCfg' <= p.rev
    BY <1>3, <1>11 DEF Behind
  <2> QED
    BY <1>2, <1>3, <1>5, <1>8, <2>1, <2>2 DEF ConfigsInOrder, Behind
<1>13. Relisted'
  <2> SUFFICES ASSUME NEW i \in Configs'
               PROVE  \/ \E j \in Lists' : i < j
                      \/ \E p \in Ours : p.at \in {"users", "sendUsers"}
                      \/ "users" \in unsent
    BY <1>8 DEF Relisted
  <2>1. CASE \E p \in Ours : p.at \in {"users", "sendUsers"}
    BY <2>1
  <2>2. CASE \E j \in Lists : i + 1 < j
    BY <1>2, <1>9, <2>2
  <2> QED
    BY <1>2, <2>1, <2>2 DEF Relisted
<1>14. Owed'
  <2>1. UsersComing => UsersComing'
    BY <1>2, <1>8, <1>9 DEF UsersComing
  <2>2. ASSUME nodeUsers = usersDb, populated
        PROVE  "users" \in unsent \/ UsersComing' \/ (nodeUsers' = usersDb' /\ populated')
    <3>1. CASE f.rev = nodeCfg
      BY <1>3, <2>2, <3>1
    <3>2. CASE \E j \in Lists : 1 < j
      <4>1. PICK j \in Lists : 1 < j
        BY <3>2
      <4>2. down[j].rev = usersDb
        <5>1. nodeUsers <= down[j].rev /\ down[j].rev <= usersDb
          BY DEF UsersInOrder
        <5>2. down[j].rev \in Nat
          BY <1>2 DEF Lists, Frames
        <5> QED
          BY <1>5, <2>2, <5>1, <5>2
      <4> QED
        BY <1>2, <4>1, <4>2 DEF UsersComing
    <3>3. CASE \E p \in Ours : p.at \in {"users", "sendUsers"}
      <4>1. PICK p \in Ours : p.at \in {"users", "sendUsers"}
        BY <3>3
      <4>2. p.at = "sendUsers" => p.rev = usersDb
        <5>1. p.at = "sendUsers" => nodeUsers <= p.rev /\ p.rev <= usersDb
          BY DEF UsersInOrder, At
        <5>2. p.rev \in Nat
          BY DEF Ours, TypeOK
        <5> QED
          BY <1>5, <2>2, <5>1, <5>2
      <4> QED
        BY <1>8, <4>1, <4>2 DEF UsersComing
    <3> QED
      BY <1>2, <3>1, <3>2, <3>3 DEF Relisted
  <2>3. ConfigSettled => ConfigSettled'
    BY <1>2, <1>3, <1>5, <1>8 DEF ConfigSettled
  <2>4. ConfigComing => ConfigComing' \/ ConfigSettled'
    <3>1. CASE f.rev = cfgDb /\ f.xray
      BY <1>3, <1>8, <1>11, <3>1 DEF ConfigSettled, Behind
    <3>2. CASE ~(f.rev = cfgDb /\ f.xray)
      <4>1. \A i \in Configs : i \in Int /\ (i > 1 \/ i = 1)
        BY <1>2 DEF Configs
      <4> QED
        BY <1>2, <1>8, <3>2, <4>1 DEF ConfigComing
    <3> QED
      BY <3>1, <3>2
  <2> QED
    BY <2>1, <2>2, <2>3, <2>4 DEF Owed
<1> QED
  BY <1>6, <1>7, <1>10, <1>12, <1>13, <1>14

LEMMA HandleUsersKeeps ==
  ASSUME IInv, HandleUsers PROVE IInv'
<1> USE DEF IInv
<1> DEFINE f == down[1]
<1>1. /\ Receive("users")
      /\ UNCHANGED <<dbVars, pendVars, taken, pushes, connVars, session, greeted, unsent,
                     welcomed, nodeCfg, nodeXray, faults>>
  BY DEF HandleUsers
<1>2. /\ down' \in Seq(Frames)
      /\ 1 \in Lists /\ f \in Frames
      /\ \A i \in DOMAIN down : i \in Int /\ i >= 1 /\ down[i] \in Frames
      /\ \A i \in Configs' : i \in Int /\ i + 1 \in Configs /\ 1 < i + 1 /\ down'[i] = down[i + 1]
      /\ \A i \in Lists' : i \in Int /\ i + 1 \in Lists /\ 1 < i + 1 /\ down'[i] = down[i + 1]
      /\ \A i \in Configs : i > 1 => i - 1 \in Configs' /\ down'[i - 1] = down[i]
      /\ \A i \in Lists : i > 1 => i - 1 \in Lists' /\ down'[i - 1] = down[i]
  BY <1>1, HeadGone DEF Lists
<1>3. nodeUsers' = f.rev /\ populated' = TRUE
  BY <1>1, HeadGone DEF HandleUsers
<1>4. session # None
  BY <1>1 DEF Receive
<1> USE <1>1 DEF dbVars, pendVars, connVars
<1>5. /\ f.rev \in Nat /\ nodeUsers <= f.rev /\ f.rev <= usersDb
      /\ nodeUsers \in Nat /\ usersDb \in Nat
  BY <1>2, HubAssumption DEF Frames, UsersInOrder, TypeOK
<1>6. TypeOK'
  BY <1>2, <1>3, <1>5 DEF TypeOK, Frames
<1>7. Shape' /\ Linked' /\ OneAtATime' /\ Timing'
  BY <1>4 DEF Shape, Linked, OneAtATime, Timing
<1>8. Ours' = Ours /\ At("sendUsers")' = At("sendUsers") /\ At("sendConfig")' = At("sendConfig")
  BY DEF Ours, At
<1>9. \A i \in Configs : i \in Int /\ i > 1
  BY <1>2 DEF Configs, Lists
<1>10. UsersInOrder'
  <2>1. \A i \in Lists' : f.rev <= down'[i].rev
    BY <1>2 DEF UsersInOrder
  <2>2. \A p \in At("sendUsers") : f.rev <= p.rev
    BY <1>2 DEF UsersInOrder
  <2>3. ASSUME NEW i \in Lists', NEW j \in Lists', i < j PROVE down'[i].rev <= down'[j].rev
    <3>1. /\ i + 1 \in Lists /\ j + 1 \in Lists /\ i + 1 < j + 1
          /\ down'[i] = down[i + 1] /\ down'[j] = down[j + 1]
      BY <1>2, <2>3
    <3> QED
      BY <3>1 DEF UsersInOrder
  <2>4. \A p \in At("sendUsers") : \A i \in Lists' : down'[i].rev <= p.rev
    BY <1>2 DEF UsersInOrder
  <2> QED
    BY <1>2, <1>3, <1>5, <1>8, <2>1, <2>2, <2>3, <2>4 DEF UsersInOrder
<1>11. ConfigsInOrder'
  <2>1. \A i, j \in Configs' : i < j => Behind(down'[i], down'[j])
    BY <1>2 DEF ConfigsInOrder
  <2> QED
    BY <1>2, <1>8, <2>1 DEF ConfigsInOrder, Behind
<1>12. Relisted'
  <2> SUFFICES ASSUME NEW i \in Configs'
               PROVE  \/ \E j \in Lists' : i < j
                      \/ \E p \in Ours : p.at \in {"users", "sendUsers"}
                      \/ "users" \in unsent
    BY <1>8 DEF Relisted
  <2>1. CASE \E p \in Ours : p.at \in {"users", "sendUsers"}
    BY <2>1
  <2>2. CASE \E j \in Lists : i + 1 < j
    <3>1. PICK j \in Lists : i + 1 < j
      BY <2>2
    <3>2. j \in Int /\ i \in Int /\ j > 1 /\ j - 1 > i
      BY <1>2, <3>1 DEF Lists
    <3> QED
      BY <1>2, <3>1, <3>2
  <2> QED
    BY <1>2, <2>1, <2>2 DEF Relisted
<1>13. Owed'
  <2>1. UsersComing => UsersComing' \/ (nodeUsers' = usersDb' /\ populated')
    <3>1. CASE f.rev = usersDb
      BY <1>3, <3>1
    <3>2. CASE f.rev # usersDb
      <4>1. \A i \in Lists : i \in Int /\ (i > 1 \/ i = 1)
        BY <1>2 DEF Lists
      <4> QED
        BY <1>2, <1>8, <3>2, <4>1 DEF UsersComing
    <3> QED
      BY <3>1, <3>2
  <2>2. nodeUsers = usersDb => nodeUsers' = usersDb' /\ populated'
    BY <1>3, <1>5
  <2>3. ConfigComing => ConfigComing'
    BY <1>2, <1>8, <1>9 DEF ConfigComing
  <2>4. ConfigSettled => ConfigSettled'
    BY <1>2, <1>8 DEF ConfigSettled
  <2> QED
    BY <2>1, <2>2, <2>3, <2>4 DEF Owed
<1> QED
  BY <1>6, <1>7, <1>10, <1>11, <1>12, <1>13

-----------------------------------------------------------------------------
(* The theorems *)

LEMMA StepsKeep == IInv /\ [Next]_vars => IInv'
<1> SUFFICES ASSUME IInv, [Next]_vars PROVE IInv'
  OBVIOUS
<1>1. CASE UNCHANGED vars
  <2> USE <1>1 DEF vars, dbVars, pendVars, connVars, linkVars, nodeVars, IInv
  <2>1. TypeOK' /\ Shape' /\ Linked' /\ OneAtATime' /\ Timing'
    BY DEF TypeOK, Shape, Linked, OneAtATime, Timing
  <2>2. UsersInOrder' /\ ConfigsInOrder' /\ Relisted'
    BY DEF UsersInOrder, ConfigsInOrder, Relisted, Lists, Configs, At, Ours
  <2>3. Owed'
    BY DEF Owed, UsersComing, ConfigComing, ConfigSettled, Lists, Configs, At, Ours
  <2> QED
    BY <2>1, <2>2, <2>3
<1> QED
  BY <1>1, WritesKeep, NotifyKeeps, ElapseKeeps, FlushTakesKeeps, FlushPushesKeeps,
     PushLocksKeeps, PushBuildsKeeps, PushSendsKeeps, PushFailsKeeps, ConnectKeeps, DispatchHelloKeeps,
     ServeEndsKeeps, FaultsKeep, HandleWelcomeKeeps, HandleConfigKeeps, HandleUsersKeeps
     DEF Next, HubStep, NodeStep

THEOREM Inductive == Spec => []IInv
  BY InitInvariant, StepsKeep, PTL DEF Spec

\* Whatever edits, flushes, hellos and faults overlap, the hub's bookkeeping has its types.
THEOREM TypeCorrect == Spec => []TypeOK
<1>1. IInv => TypeOK
  BY DEF IInv
<1> QED
  BY <1>1, Inductive, PTL

\* A hub that has nothing left to do has brought the node everything the
\* database holds: no interleaving of schedule, flush, pushTo and dispatchHello
\* drops an edit.
THEOREM EditsArrive == Spec => []NothingForgotten
<1>1. IInv => NothingForgotten
  <2> SUFFICES ASSUME IInv, Quiet PROVE UpToDate
    BY DEF NothingForgotten
  <2>1. /\ editing = {} /\ ~pendUsers /\ ~pendConfig /\ taken = {} /\ Ours = {}
        /\ session # None /\ greeted /\ DOMAIN down = {}
    BY DEF Quiet, Ours
  <2>2. Configs = {} /\ Lists = {} /\ At("sendConfig") = {}
    BY <2>1 DEF Configs, Lists, At
  <2>3. ~UsersComing /\ ~ConfigComing
    BY <2>1, <2>2 DEF UsersComing, ConfigComing
  <2> QED
    BY <2>1, <2>3 DEF IInv, Owed, ConfigSettled, UpToDate
<1> QED
  BY <1>1, Inductive, PTL

\* A timer that notifications keep restarting is held no longer than
\* maxCoalesce and one window more.
THEOREM HoldingEnds == Spec => []HeldBriefly
<1>1. IInv => HeldBriefly
  BY HubAssumption DEF IInv, TypeOK, Timing, HeldBriefly, NoTimer
<1> QED
  BY <1>1, Inductive, PTL

\* Only a restart of the node takes it back to an older list or configuration:
\* pushMu keeps overlapping flushes from passing each other.
THEOREM NeverBack == Spec => NoStepBack
<1>1. IInv /\ [Next]_vars => [NodeRestart \/ (nodeUsers <= nodeUsers' /\ nodeCfg <= nodeCfg')]_vars
  <2> SUFFICES ASSUME IInv, Next, ~NodeRestart
               PROVE  nodeUsers <= nodeUsers' /\ nodeCfg <= nodeCfg'
    OBVIOUS
  <2>1. nodeUsers \in Nat /\ nodeCfg \in Nat
    BY DEF IInv, TypeOK
  <2>2. CASE HandleConfig
    <3>1. Receive("config") /\ nodeCfg' = Head(down).rev /\ nodeUsers' = nodeUsers
      BY <2>2 DEF HandleConfig
    <3>2. 1 \in Configs /\ down[1] = Head(down)
      BY <3>1, HeadGone DEF Configs
    <3> QED
      BY <2>1, <3>1, <3>2 DEF IInv, ConfigsInOrder
  <2>3. CASE HandleUsers
    <3>1. Receive("users") /\ nodeUsers' = Head(down).rev /\ nodeCfg' = nodeCfg
      BY <2>3 DEF HandleUsers
    <3>2. 1 \in Lists /\ down[1] = Head(down)
      BY <3>1, HeadGone DEF Lists
    <3> QED
      BY <2>1, <3>1, <3>2 DEF IInv, UsersInOrder
  <2>4. CASE ~HandleConfig /\ ~HandleUsers
    <3>1. UNCHANGED <<nodeUsers, nodeCfg>>
      BY <2>4 DEF Next, HubStep, NodeStep, WriteUsers, WriteConfig, Notify, Elapse, FlushTakes, FlushPushes,
         PushLocks, PushBuilds, PushSends, PushFails, DispatchHello, ServeEnds, Connect, HandleWelcome, Drop,
         PanelRestart, nodeVars
    <3> QED
      BY <2>1, <3>1
  <2> QED
    BY <2>2, <2>3, <2>4
<1> QED
  BY <1>1, Inductive, PTL DEF Spec, NoStepBack

=============================================================================
