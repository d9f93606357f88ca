---------------------------- MODULE SupportProofs ----------------------------
(***************************************************************************)
(* Proofs about the components around the core: databases on disk, the     *)
(* SASL agent, the rules of commands, the lists of staff, virtual hosts,   *)
(* shuns, the choice of an uplink, mail, the rings of a connection, the    *)
(* proxy scanner, outside queries, groups, bots, the resolver and logs,    *)
(* for any keys, clients, accounts, services, bindings, uplinks, mails,    *)
(* tests, zones, channels, facilities, sizes and bounds.                   *)
(***************************************************************************)
EXTENDS ModCmd, Sasl, Storage, StaffLists, HostServ, Shun, IoSet, Uplinks, Mail, Sockcheck,
    QServer, Groups, BotServ, Sar, Log, FiniteSetTheorems, SequenceTheorems, WellFoundedInduction, TLAPS

-----------------------------------------------------------------------------
(* Databases on disk.  Unless something known to lose data has happened,   *)
(* the file is missing, whole and plain, or whole under the key at hand,   *)
(* and at least as new as the last save; while a save is under way, the    *)
(* step it has reached says what the two other files hold.                 *)

Stages == {"idle", "writing", "written", "encrypting", "encrypted"}

LockedFile(v, k) == [version |-> v, layers |-> <<k>>, whole |-> TRUE, there |-> TRUE]

WholeFile(v) == PlainFile(v, TRUE)
NewEnough(f, s, k) ==
  \/ f = NoFile /\ s = 0
  \/ \E v \in Nat : v >= s /\ f = WholeFile(v)
  \/ \E v \in Nat : v >= s /\ k # "none" /\ f = LockedFile(v, k)

SaveUnderWay ==
  /\ stage = "written" => new = WholeFile(memory)
  /\ stage \in {"encrypting", "encrypted"} => key # "none" /\ file = WholeFile(memory)
  /\ stage = "encrypted" => enc = LockedFile(memory, key)

FilesTyped ==
  /\ up \in BOOLEAN /\ faulty \in BOOLEAN
  /\ stage \in Stages /\ (stage # "idle" => up)

FilesKept ==
  /\ FilesTyped
  /\ ~faulty => memory \in Nat /\ saved \in Nat /\ (up => memory >= saved) /\ NewEnough(file, saved, key) /\ SaveUnderWay

\* What saxdb_read_db makes of a plain file and of one under a key.
LEMMA ReadPlain ==
  ASSUME NEW v \in Nat, NEW k
  PROVE  Read(WholeFile(v), k) = v /\ WholeFile(v).layers = <<>> /\ WholeFile(v).there
  BY DEF Read, WholeFile, PlainFile

LEMMA ReadLocked ==
  ASSUME NEW v \in Nat, NEW k, NEW l, l # "none"
  PROVE  /\ Read(LockedFile(v, l), k) = IF k = "none" THEN -1 ELSE IF l # k THEN 0 ELSE v
         /\ LockedFile(v, l).layers = <<l>> /\ <<l>> # <<>> /\ <<l>>[1] = l /\ LockedFile(v, l).there
  BY DEF Read, LockedFile

LEMMA LockedLayers ==
  ASSUME NEW v \in Nat, NEW l
  PROVE  LockedFile(v, l).layers # <<>>
  BY DEF LockedFile

LEMMA ReadNoFile ==
  ASSUME NEW k
  PROVE  Read(NoFile, k) = 0 /\ NoFile.layers = <<>> /\ ~NoFile.there
  BY DEF Read, NoFile

LEMMA EncryptedPlain ==
  ASSUME NEW v \in Nat, NEW k
  PROVE  Encrypted(WholeFile(v), k, TRUE) = LockedFile(v, k)
  <1>1. LET p == WholeFile(v) IN
        p.version = v /\ Append(p.layers, k) = <<k>> /\ (p.whole /\ TRUE) = TRUE /\ p.there = TRUE
    BY DEF WholeFile, PlainFile
  <1> QED BY <1>1, Zenon DEF Encrypted, LockedFile

LEMMA SavedNow ==
  ASSUME NEW v \in Nat, NEW s \in Nat, v >= s, NEW k
  PROVE  NewEnough(WholeFile(v), s, k) /\ (k # "none" => NewEnough(LockedFile(v, k), s, k))
  BY DEF NewEnough

LEMMA ReadTyped ==
  ASSUME NewEnough(file, saved, key), saved \in Nat, NEW k, Read(file, k) >= 0
  PROVE  /\ Read(file, k) \in Nat
         /\ file.layers = <<>> \/ k \in {key, "none"} => Read(file, k) >= saved
  <1>1. CASE file = NoFile /\ saved = 0
    BY <1>1, ReadNoFile
  <1>2. CASE \E v \in Nat : v >= saved /\ file = WholeFile(v)
    BY <1>2, ReadPlain
  <1>3. CASE \E v \in Nat : v >= saved /\ key # "none" /\ file = LockedFile(v, key)
    <2>1. PICK v \in Nat : v >= saved /\ key # "none" /\ file = LockedFile(v, key)
      BY <1>3
    <2>2. file.layers # <<>> /\ Read(file, k) = IF k = "none" THEN -1 ELSE IF key # k THEN 0 ELSE v
      BY <2>1, ReadLocked, SMTT(30)
    <2> QED BY <2>1, <2>2
  <1> QED BY <1>1, <1>2, <1>3 DEF NewEnough
\* A step of a save that goes well, or fails in a way that is put right.
LEMMA SavesKept ==
  ASSUME FilesKept, OpenNew \/ WriteNew \/ WriteError \/ RenameNew \/ Encrypt \/ EncryptFails \/ RenameEnc
  PROVE  FilesKept'
  <1>1. FilesTyped'
    BY DEF FilesKept, FilesTyped, Stages, OpenNew, WriteNew, WriteError, RenameNew, AfterRename, Encrypt,
           EncryptFails, RenameEnc
  <1> SUFFICES ASSUME ~faulty'
               PROVE  (memory \in Nat /\ saved \in Nat /\ (up => memory >= saved) /\ NewEnough(file, saved, key) /\ SaveUnderWay)'
    BY <1>1 DEF FilesKept
  <1>2. ~faulty /\ up /\ memory' = memory /\ key' = key /\ up' = up
    BY DEF FilesKept, FilesTyped, OpenNew, WriteNew, WriteError, RenameNew, Encrypt, EncryptFails, RenameEnc
  <1>3. memory \in Nat /\ saved \in Nat /\ memory >= saved /\ NewEnough(file, saved, key) /\ SaveUnderWay
    BY <1>2 DEF FilesKept
  <1>4. CASE OpenNew \/ WriteNew \/ WriteError
    BY <1>2, <1>3, <1>4 DEF OpenNew, WriteNew, WriteError, SaveUnderWay, WholeFile
  <1>5. CASE RenameNew
    BY <1>2, <1>3, <1>5, SavedNow DEF RenameNew, AfterRename, SaveUnderWay
  <1>6. CASE Encrypt
    <2>1. stage = "encrypting" /\ key # "none" /\ file = WholeFile(memory) /\ enc' = LockedFile(memory, key)
      BY <1>3, <1>6, EncryptedPlain DEF Encrypt, SaveUnderWay
    <2> QED BY <1>2, <1>3, <1>6, <2>1 DEF Encrypt, SaveUnderWay
  <1>7. CASE EncryptFails
    <2>1. file = WholeFile(memory) /\ file' = file /\ saved' = memory /\ stage' = "idle"
      BY <1>3, <1>7 DEF EncryptFails, SaveUnderWay
    <2> QED BY <1>2, <1>3, <2>1, SavedNow DEF SaveUnderWay
  <1>8. CASE RenameEnc
    <2>1. /\ file' = WholeFile(memory) \/ (key # "none" /\ file' = LockedFile(memory, key))
          /\ saved' = memory /\ stage' = "idle"
      BY <1>3, <1>8 DEF RenameEnc, SaveUnderWay
    <2> QED BY <1>2, <1>3, <2>1, SavedNow DEF SaveUnderWay
  <1> QED BY <1>4, <1>5, <1>6, <1>7, <1>8

LEMMA FilesStep ==
  ASSUME FilesKept, [StorageNext]_fileVars
  PROVE  FilesKept'
  <1>1. CASE Change
    BY <1>1 DEF Change, FilesKept, FilesTyped, SaveUnderWay
  <1>2. CASE ShortWrite \/ RenameFails \/ EncryptShort
    BY <1>2 DEF ShortWrite, RenameFails, EncryptShort, AfterRename, FilesKept, FilesTyped, Stages
  <1>3. CASE Crash
    BY <1>3 DEF Crash, FilesKept, FilesTyped, Stages, SaveUnderWay
  <1>4. ASSUME NEW k \in DbKeys \union {"none"}, Start(k)
        PROVE  FilesKept'
    <2>1. FilesTyped' /\ stage = "idle" /\ stage' = "idle"
      BY <1>4 DEF Start, FilesKept, FilesTyped, Stages
    <2> SUFFICES ASSUME ~faulty'
                 PROVE  (memory \in Nat /\ saved \in Nat /\ (up => memory >= saved) /\ NewEnough(file, saved, key) /\ SaveUnderWay)'
      BY <2>1 DEF FilesKept
    <2>2. ~faulty /\ (file.layers = <<>> \/ k \in {key, "none"})
      BY <1>4 DEF Start
    <2>3. NewEnough(file, saved, key) /\ saved \in Nat
      BY <2>2 DEF FilesKept
    <2>4. memory' = Read(file, k) /\ memory' \in Nat /\ memory' >= saved /\ saved' = saved /\ file' = file /\ key' = k
      BY <1>4, <2>2, <2>3, ReadTyped DEF Start
    <2>5. NewEnough(file, saved, k)
      <3>1. CASE file.layers = <<>>
        <4>1. ~(\E v \in Nat : v >= saved /\ key # "none" /\ file = LockedFile(v, key))
          <5> SUFFICES ASSUME NEW v \in Nat, key # "none", file = LockedFile(v, key)
                       PROVE  FALSE
            OBVIOUS
          <5>1. file.layers # <<>>
            BY LockedLayers
          <5> QED BY <3>1, <5>1
        <4> QED BY <2>3, <2>4, <4>1 DEF NewEnough
      <3>2. CASE k = "none"
        <4>1. ~(\E v \in Nat : v >= saved /\ key # "none" /\ file = LockedFile(v, key))
          BY <1>4, <3>2, ReadLocked DEF Start
        <4> QED BY <2>3, <2>4, <4>1 DEF NewEnough
      <3>3. CASE k = key
        BY <2>3, <2>4, <3>3 DEF NewEnough
      <3> QED BY <2>2, <3>1, <3>2, <3>3
    <2> QED BY <2>1, <2>3, <2>4, <2>5 DEF SaveUnderWay
  <1>5. CASE UNCHANGED fileVars
    BY <1>5 DEF fileVars, FilesKept, FilesTyped, SaveUnderWay
  <1> QED BY <1>1, <1>2, <1>3, <1>4, <1>5, SavesKept DEF StorageNext

LEMMA KeptIsSafe ==
  ASSUME FilesKept
  PROVE  DataKept
  <1> SUFFICES ASSUME ~faulty
               PROVE  /\ saved > 0 => file.there
                      /\ file.there => Read(file, IF file.layers = <<>> THEN "none" ELSE file.layers[1]) >= saved
                      /\ up => memory >= saved
    BY DEF DataKept
  <1>1. saved \in Nat /\ NewEnough(file, saved, key) /\ (up => memory >= saved)
    BY DEF FilesKept
  <1>2. CASE file = NoFile /\ saved = 0
    BY <1>1, <1>2, ReadNoFile
  <1>3. CASE \E v \in Nat : v >= saved /\ file = WholeFile(v)
    BY <1>1, <1>3, ReadPlain
  <1>4. CASE \E v \in Nat : v >= saved /\ key # "none" /\ file = LockedFile(v, key)
    <2>1. PICK v \in Nat : v >= saved /\ key # "none" /\ file = LockedFile(v, key)
      BY <1>4
    <2>2. file.layers # <<>> /\ file.layers[1] = key /\ Read(file, key) = v /\ file.there
      BY <2>1, ReadLocked, SMTT(30)
    <2> QED BY <1>1, <2>1, <2>2
  <1> QED BY <1>1, <1>2, <1>3, <1>4 DEF NewEnough

\* Whatever crashes come between the steps of saxdb_write_db and whatever keys and bounds
\* there are, the next start finds what the last completed save wrote, or something newer.
THEOREM FilesStayKept == StorageSpec => []DataKept
  <1>1. StorageInit => FilesKept
    <2> SUFFICES ASSUME StorageInit PROVE FilesKept
      OBVIOUS
    <2>1. NewEnough(file, saved, key) /\ memory = 0 /\ saved = 0
      BY DEF StorageInit, NewEnough
    <2>2. FilesTyped /\ SaveUnderWay
      BY DEF StorageInit, FilesTyped, Stages, SaveUnderWay
    <2> QED BY <2>1, <2>2 DEF FilesKept
  <1>2. FilesKept /\ [StorageNext]_fileVars => FilesKept'
    BY FilesStep
  <1> QED BY <1>1, <1>2, KeptIsSafe, PTL DEF StorageSpec

-----------------------------------------------------------------------------
(* The rules of commands.  Every rule in force, and every default, is the  *)
(* one modcmd_set_effective_flags makes of its own flags and levels; that  *)
(* is what makes it complete, and what a restart builds again.             *)

Sound(r) == r.cmd \in Commands /\ r = SetEffective(r)

SoundBinds(cs) == \A x \in DOMAIN cs : Sound(cs[x])

SoundDefaults(d) == \A c \in Commands : Sound(d[c]) /\ d[c].cmd = c

ServiceFields == {"bot", "trigger", "privileged", "commands"}

ServicesSound ==
  \A n \in DOMAIN services : DOMAIN services[n] = ServiceFields /\ SoundBinds(services[n].commands)

CmdsSound == ServicesSound /\ DOMAIN defaults = Commands /\ SoundDefaults(defaults)

LEMMA RuleRead ==
  ASSUME NEW c, NEW f, NEW o, NEW a
  PROVE  /\ Rule(c, f, o, a).cmd = c /\ Rule(c, f, o, a).flags = f
         /\ Rule(c, f, o, a).oper = o /\ Rule(c, f, o, a).access = a
         /\ Rule(c, f, o, a).eff = Effective(c, f, o, a)
  BY DEF Rule

LEMMA RuleSound ==
  ASSUME NEW c \in Commands, NEW f, NEW o, NEW a
  PROVE  Sound(Rule(c, f, o, a)) /\ Rule(c, f, o, a).cmd = c
  BY RuleRead DEF Sound, SetEffective

LEMMA CopySound ==
  ASSUME NEW c \in Commands, NEW src
  PROVE  Sound(CopyRules(c, src))
  BY RuleSound DEF CopyRules

LEMMA RegisteredSound ==
  SoundDefaults([c \in Commands |-> Registered(c)])
  BY RuleSound DEF SoundDefaults, Registered

\* What modcmd_set_effective_flags leaves is closed.
LEMMA RuleClosed ==
  ASSUME NEW r, Sound(r)
  PROVE  /\ r.access > 0 => "chanuser" \in r.eff
         /\ "chanuser" \in r.eff => "regchan" \in r.eff
         /\ "regchan" \in r.eff => "channel" \in r.eff
         /\ r.eff \intersect (StaffFlags \union {"helping"}) # {} => "authed" \in r.eff
  <1>1. r.eff = Effective(r.cmd, r.flags, r.oper, r.access)
    BY RuleRead DEF Sound, SetEffective
  <1> QED BY <1>1 DEF Effective, StaffFlags

LEMMA PutSound ==
  ASSUME NEW cs, SoundBinds(cs), NEW x, NEW r, Sound(r)
  PROVE  SoundBinds(Put(cs, x, r))
  BY DEF SoundBinds, Put

LEMMA DropSound ==
  ASSUME NEW cs, SoundBinds(cs), NEW S
  PROVE  SoundBinds(Drop(cs, S))
  BY DEF SoundBinds, Drop

LEMMA DefaultBindsSound ==
  ASSUME NEW cs, SoundBinds(cs), NEW d
  PROVE  SoundBinds(DefaultBinds(cs, d))
  <1>1. SoundBinds(BindAll(cs, Imports, d))
    BY CopySound, BindsRegistered DEF SoundBinds, BindAll
  <1> QED BY <1>1, CopySound, BindsRegistered DEF SoundBinds, DefaultBinds, MakeAliases

LEMMA LoadSound ==
  ASSUME NEW cs, SoundBinds(cs)
  PROVE  SoundBinds(LoadCommands(cs))
  BY RuleSound DEF SoundBinds, LoadCommands, LoadCommand, Sound

\* svccmd_configure changes one field at a time, and never the command.
LEMMA ReconfiguredSound ==
  ASSUME NEW r, Sound(r), NEW u, NEW q \in Configured(u, r)
  PROVE  Sound(Reconfigured(q)) /\ Reconfigured(q).cmd = r.cmd
  <1>1. r.cmd \in Commands /\ DOMAIN r = {"cmd", "flags", "oper", "access", "eff"}
    BY DEF Sound, SetEffective, Rule
  <1>2. q.cmd = r.cmd
    BY <1>1 DEF Configured
  <1> QED BY <1>1, <1>2, RuleSound DEF Reconfigured, SetEffective

LEMMA BindsSet ==
  ASSUME ServicesSound, NEW n \in DOMAIN services, NEW cs, SoundBinds(cs),
         services' = [services EXCEPT ![n].commands = cs]
  PROVE  /\ ServicesSound'
         /\ DOMAIN services' = DOMAIN services /\ \A m \in DOMAIN services : services'[m].bot = services[m].bot
  BY DEF ServicesSound, ServiceFields

\* The services a restart reads again.
LEMMA RestartSound ==
  ASSUME ServicesSound, ServiceKeyed, NEW order, CmdRestart(order)
  PROVE  CmdsSound' /\ ServiceKeyed'
  <1> DEFINE d == [c \in Commands |-> Registered(c)]
             main == CHOOSE x \in Nicks : TRUE
             binds(n) == IF n = main THEN DefaultBinds(LoadCommands(services[n].commands), d)
                         ELSE LoadCommands(services[n].commands)
             live == {services[n].bot : n \in DOMAIN services}
  <1>1. /\ services' = [n \in DOMAIN services |-> [services[n] EXCEPT !.commands = binds(n)]]
        /\ bots' = [b \in live |-> CHOOSE n \in DOMAIN services : services[n].bot = b]
        /\ defaults' = d
    BY DEF CmdRestart
  <1>2. \A n \in DOMAIN services : SoundBinds(binds(n))
    BY LoadSound, DefaultBindsSound DEF ServicesSound
  <1> HIDE DEF d, main, binds
  <1>3. DOMAIN services' = DOMAIN services
    BY <1>1
  <1>4. \A n \in DOMAIN services : /\ DOMAIN services'[n] = ServiceFields
                                   /\ services'[n].commands = binds(n) /\ services'[n].bot = services[n].bot
    BY <1>1 DEF ServicesSound, ServiceFields
  <1>5. CmdsSound'
    <2>1. ServicesSound'
      BY <1>2, <1>3, <1>4 DEF ServicesSound
    <2> QED BY <1>1, <2>1, RegisteredSound DEF CmdsSound, d
  <1>6. ServiceKeyed'
    <2> SUFFICES ASSUME NEW n \in DOMAIN services'
                 PROVE  services'[n].bot \in DOMAIN bots' /\ bots'[services'[n].bot] = n
      BY DEF ServiceKeyed
    <2>1. n \in DOMAIN services /\ services'[n].bot = services[n].bot
      BY <1>3, <1>4
    <2>2. services[n].bot \in live
      BY <2>1
    <2>3. services[n].bot \in DOMAIN bots' /\ bots'[services[n].bot] = CHOOSE m \in DOMAIN services : services[m].bot = services[n].bot
      BY <1>1, <2>2
    <2>4. \A m \in DOMAIN services : services[m].bot = services[n].bot => m = n
      BY <2>1 DEF ServiceKeyed
    <2>5. (CHOOSE m \in DOMAIN services : services[m].bot = services[n].bot) = n
      BY <2>1, <2>4
    <2> QED BY <2>1, <2>3, <2>5
  <1> QED BY <1>5, <1>6

\* BIND, REBINDALL, UNBIND and MODCMD, on the bindings of one service or on the defaults.
LEMMA BindingSound ==
  ASSUME CmdsSound, ServiceKeyed, NEW n \in DOMAIN services,
         \/ \E x \in Names, c \in Commands, from \in Names : cmd_bind(n, x, c, from)
         \/ cmd_rebindall(n)
         \/ \E x \in DOMAIN services[n].commands : cmd_unbind(n, x)
         \/ \E x \in DOMAIN services[n].commands, u \in Users : cmd_modcmd(n, x, u)
  PROVE  CmdsSound' /\ ServiceKeyed'
  <1> DEFINE cs == services[n].commands
  <1>1. SoundBinds(cs) /\ ServicesSound /\ DOMAIN services[n] = ServiceFields
    BY DEF CmdsSound, ServicesSound
  <1>2. bots' = bots /\ defaults' = defaults
    BY DEF cmd_bind, cmd_rebindall, cmd_unbind, cmd_modcmd
  <1>3. PICK new0 : SoundBinds(new0) /\ services' = [services EXCEPT ![n].commands = new0]
    <2>1. ASSUME NEW x \in Names, NEW c \in Commands, NEW from \in Names, cmd_bind(n, x, c, from)
          PROVE  \E new0 : SoundBinds(new0) /\ services' = [services EXCEPT ![n].commands = new0]
      BY <1>1, <2>1, CopySound, PutSound DEF cmd_bind
    <2>2. CASE cmd_rebindall(n)
      BY <1>1, <2>2, DefaultBindsSound DEF cmd_rebindall
    <2>3. ASSUME NEW x \in DOMAIN cs, cmd_unbind(n, x)
          PROVE  \E new0 : SoundBinds(new0) /\ services' = [services EXCEPT ![n].commands = new0]
      BY <1>1, <2>3, DropSound DEF cmd_unbind
    <2>4. ASSUME NEW x \in DOMAIN cs, NEW u \in Users, cmd_modcmd(n, x, u)
          PROVE  \E new0 : SoundBinds(new0) /\ services' = [services EXCEPT ![n].commands = new0]
      <3>1. PICK r \in Configured(u, cs[x]) : services' = [services EXCEPT ![n].commands[x] = Reconfigured(r)]
        BY <2>4 DEF cmd_modcmd
      <3>2. Sound(Reconfigured(r))
        BY <1>1, ReconfiguredSound DEF SoundBinds
      <3>3. SoundBinds([cs EXCEPT ![x] = Reconfigured(r)])
        BY <1>1, <3>2 DEF SoundBinds
      <3>4. services' = [services EXCEPT ![n].commands = [cs EXCEPT ![x] = Reconfigured(r)]]
        BY <3>1
      <3> QED BY <3>3, <3>4
    <2> QED BY <2>1, <2>2, <2>3, <2>4
  <1>4. /\ ServicesSound' /\ DOMAIN services' = DOMAIN services
        /\ \A m \in DOMAIN services : services'[m].bot = services[m].bot
    BY <1>1, <1>3, BindsSet
  <1> QED BY <1>2, <1>4 DEF CmdsSound, ServiceKeyed

LEMMA DefaultsSound ==
  ASSUME CmdsSound, ServiceKeyed, NEW c \in Commands, NEW u \in Users, ModcmdDefaults(c, u)
  PROVE  CmdsSound' /\ ServiceKeyed'
  <1>1. PICK r \in Configured(u, defaults[c]) : defaults' = [defaults EXCEPT ![c] = Reconfigured(r)]
    BY DEF ModcmdDefaults
  <1>2. Sound(Reconfigured(r)) /\ Reconfigured(r).cmd = c
    BY ReconfiguredSound DEF CmdsSound, SoundDefaults
  <1>3. DOMAIN defaults' = Commands /\ SoundDefaults(defaults')
    BY <1>1, <1>2 DEF CmdsSound, SoundDefaults
  <1> QED BY <1>3 DEF ModcmdDefaults, CmdsSound, ServicesSound, ServiceKeyed

\* SERVICE ADD, RENAME, TRIGGER, PRIVILEGED and REMOVE.
LEMMA ServiceSound ==
  ASSUME CmdsSound, ServiceKeyed,
         \/ \E n \in Nicks, b \in Bots : cmd_service_add(n, b)
         \/ \E n \in DOMAIN services :
              \/ \E m \in Nicks : cmd_service_rename(n, m)
              \/ \E t \in Triggers \union {"none"} : cmd_service_trigger(n, t)
              \/ cmd_service_privileged(n)
              \/ cmd_service_remove(n)
  PROVE  CmdsSound' /\ ServiceKeyed'
  <1>1. defaults' = defaults
    BY DEF cmd_service_add, cmd_service_rename, cmd_service_trigger, cmd_service_privileged, cmd_service_remove, Rules
  <1>2. ASSUME NEW n \in Nicks, NEW b \in Bots, cmd_service_add(n, b)
        PROVE  ServicesSound' /\ ServiceKeyed'
    <2> DEFINE s == [bot |-> b, trigger |-> "none", privileged |-> FALSE, commands |-> Empty]
    <2>1. DOMAIN s = ServiceFields /\ SoundBinds(s.commands) /\ s.bot = b
      BY DEF ServiceFields, SoundBinds, Empty
    <2> HIDE DEF s
    <2>2. services' = IF n \in DOMAIN services THEN services ELSE Put(services, n, s)
      BY <1>2 DEF cmd_service_add, s
    <2>3. bots' = Put(bots, b, n) /\ b \notin DOMAIN bots
      BY <1>2 DEF cmd_service_add
    <2> QED BY <2>1, <2>2, <2>3 DEF CmdsSound, ServicesSound, ServiceKeyed, Put
  <1>3. ASSUME NEW n \in DOMAIN services, NEW m \in Nicks, cmd_service_rename(n, m)
        PROVE  ServicesSound' /\ ServiceKeyed'
    <2>1. services' = Put(Drop(services, {n}), m, services[n]) /\ bots' = [bots EXCEPT ![services[n].bot] = m]
      BY <1>3 DEF cmd_service_rename, modcmd_nick_change
    <2>2. /\ DOMAIN services' = (DOMAIN services \ {n}) \union {m}
          /\ services'[m] = services[n] /\ \A k \in DOMAIN services \ {n, m} : services'[k] = services[k]
      BY <2>1 DEF Put, Drop
    <2>3. ServicesSound'
      BY <2>2 DEF CmdsSound, ServicesSound
    <2>4. ServiceKeyed'
      BY <2>1, <2>2 DEF ServiceKeyed
    <2> QED BY <2>3, <2>4
  <1>4. ASSUME NEW n \in DOMAIN services, NEW t, cmd_service_trigger(n, t) \/ cmd_service_privileged(n)
        PROVE  ServicesSound' /\ ServiceKeyed'
    <2>1. /\ bots' = bots
          /\ services' = services \/ (\E y : services' = [services EXCEPT ![n].trigger = y])
               \/ (\E y : services' = [services EXCEPT ![n].privileged = y])
      BY <1>4 DEF cmd_service_trigger, cmd_service_privileged
    <2> QED BY <2>1 DEF CmdsSound, ServicesSound, ServiceKeyed, ServiceFields
  <1>5. ASSUME NEW n \in DOMAIN services, cmd_service_remove(n)
        PROVE  ServicesSound' /\ ServiceKeyed'
    BY <1>5 DEF cmd_service_remove, CmdsSound, ServicesSound, ServiceKeyed, Drop
  <1> QED BY <1>1, <1>2, <1>3, <1>4, <1>5 DEF CmdsSound

LEMMA CmdStep ==
  ASSUME CmdsSound, ServiceKeyed, [CmdNext]_mcVars
  PROVE  CmdsSound' /\ ServiceKeyed'
  <1>1. CASE \E u \in Users : cmd_god(u) \/ timeout_god(u) \/ LogIn(u) \/ LogOut(u)
    BY <1>1 DEF cmd_god, timeout_god, LogIn, LogOut, CmdsSound, ServicesSound, ServiceKeyed
  <1>2. CASE UNCHANGED mcVars
    BY <1>2 DEF mcVars, CmdsSound, ServicesSound, ServiceKeyed
  <1>3. CASE \E order \in UNION {[T -> DOMAIN services] : T \in SUBSET Triggers} : CmdRestart(order)
    BY <1>3, RestartSound DEF CmdsSound
  <1> QED BY <1>1, <1>2, <1>3, BindingSound, DefaultsSound, ServiceSound DEF CmdNext

LEMMA CmdStart ==
  ASSUME CmdInit
  PROVE  CmdsSound /\ ServiceKeyed
  <1> DEFINE b == CHOOSE x \in Bots : TRUE
             n == CHOOSE x \in Nicks : TRUE
             d == [c \in Commands |-> Registered(c)]
             s == [bot |-> b, trigger |-> "none", privileged |-> FALSE, commands |-> DefaultBinds(Empty, d)]
  <1>1. SoundBinds(DefaultBinds(Empty, d))
    BY DefaultBindsSound DEF SoundBinds, Empty
  <1>2. DOMAIN s = ServiceFields /\ SoundBinds(s.commands) /\ s.bot = b
    BY <1>1 DEF ServiceFields
  <1>3. bots = [x \in {b} |-> n] /\ services = [x \in {n} |-> s] /\ defaults = d
    BY DEF CmdInit
  <1> HIDE DEF s, d
  <1>4. ServicesSound /\ ServiceKeyed
    BY <1>2, <1>3 DEF ServicesSound, ServiceKeyed
  <1> QED BY <1>3, <1>4, RegisteredSound DEF CmdsSound, d

\* For any services, commands, levels and users, a rule in force is complete and every service is
\* found under its bot's nick, whatever BIND, MODCMD, SERVICE, GOD and restarts came before.
THEOREM CommandsStayRuled == CmdSpec => []CommandsRuled
  <1>1. CmdInit => CmdsSound /\ ServiceKeyed
    BY CmdStart
  <1>2. (CmdsSound /\ ServiceKeyed) /\ [CmdNext]_mcVars => (CmdsSound /\ ServiceKeyed)'
    BY CmdStep
  <1>3. CmdsSound /\ ServiceKeyed => CommandsRuled
    BY RuleClosed DEF CommandsRuled, RulesClosed, CmdsSound, ServicesSound, SoundBinds
  <1> QED BY <1>1, <1>2, <1>3, PTL DEF CmdSpec

\* What was saved against unchanged defaults is what modcmd_db_load_command makes again.
LEMMA LoadedSame ==
  ASSUME NEW r, Sound(r), defaults[r.cmd] = Registered(r.cmd)
  PROVE  LoadCommand(r) = r
  <1> DEFINE g == Registered(r.cmd)
             base == CopyRules(r.cmd, g)
  <1>1. g.access = 0 /\ g.oper = DefOper[r.cmd] /\ DefOper[r.cmd] \in Nat
    BY RuleRead, LevelsNatural DEF Registered, Sound
  <1>2. base.flags = g.flags /\ base.oper = Larger(0, g.oper) /\ base.access = Larger(0, g.access)
    BY RuleRead DEF CopyRules
  <1>3. base.oper = g.oper /\ base.access = g.access
    BY <1>1, <1>2 DEF Larger
  <1>4. LoadCommand(r) = Rule(r.cmd, r.flags, r.oper, r.access)
    BY <1>2, <1>3 DEF LoadCommand, LoadFlags
  <1> QED BY <1>4 DEF Sound, SetEffective

LEMMA RestartStays ==
  ASSUME CmdsSound
  PROVE  RulesStay
  <1> SUFFICES ASSUME NEW order, CmdRestart(order), NEW n \in DOMAIN services,
                      NEW x \in DOMAIN services[n].commands \ DOMAIN Aliases,
                      defaults[services[n].commands[x].cmd] = Registered(services[n].commands[x].cmd)
               PROVE  services'[n].commands[x] = services[n].commands[x]
    BY DEF RulesStay
  <1> DEFINE cs == services[n].commands
             l == LoadCommands(cs)
             d == [c \in Commands |-> Registered(c)]
             main == CHOOSE y \in Nicks : TRUE
  <1>1. Sound(cs[x]) /\ DOMAIN services[n] = ServiceFields
    BY DEF CmdsSound, ServicesSound, SoundBinds
  <1>2. x \in DOMAIN l /\ l[x] = cs[x]
    BY <1>1, LoadedSame DEF LoadCommands
  <1>3. DefaultBinds(l, d)[x] = l[x]
    BY <1>2 DEF DefaultBinds, MakeAliases, BindAll
  <1>4. services'[n] = [services[n] EXCEPT !.commands = IF n = main THEN DefaultBinds(l, d) ELSE l]
    BY DEF CmdRestart
  <1>5. services'[n].commands = IF n = main THEN DefaultBinds(l, d) ELSE l
    BY <1>1, <1>4 DEF ServiceFields
  <1> QED BY <1>2, <1>3, <1>5

\* A restart changes the rules of no binding whose command's defaults MODCMD left alone, for any
\* services, bindings and levels.
THEOREM RulesSurviveRestarts == CmdSpec => RulesSurvive
  <1>1. CmdInit => CmdsSound /\ ServiceKeyed
    BY CmdStart
  <1>2. (CmdsSound /\ ServiceKeyed) /\ [CmdNext]_mcVars => (CmdsSound /\ ServiceKeyed)'
    BY CmdStep
  <1>3. CmdsSound => RulesStay
    BY RestartStays
  <1> QED BY <1>1, <1>2, <1>3, PTL DEF CmdSpec, RulesSurvive

-----------------------------------------------------------------------------
(* The SASL agent.  No look for stale sessions is overdue or further away  *)
(* than one period; a session waits for a look that comes within a period  *)
(* of its last sign of life, or within two once it was found stale.  What  *)
(* was granted names an account that was registered when it was granted.   *)

SessionFields == {"mech", "fragments", "fp", "host", "stale", "touched"}

\* The looks that are queued.
Looks == DOMAIN staleTimers

LooksNear ==
  /\ saslNow \in Nat
  /\ IsABag(staleTimers)
  /\ \A t \in Looks : t \in Nat /\ saslNow <= t /\ t <= saslNow + Period

\* Session s of the times T of looks, at time n.
Watched(s, T, n) ==
  /\ DOMAIN s = SessionFields /\ s.touched \in Nat /\ s.stale \in BOOLEAN
  /\ s.touched <= n
  /\ \E t \in T : t <= IF s.stale THEN s.touched + 2 * Period ELSE s.touched + Period

SessionsWatched == \A u \in DOMAIN saslsessions : Watched(saslsessions[u], Looks, saslNow)

GrantsReal ==
  /\ saslRegistered \in [Accounts -> Nat] /\ serial \in Nat
  /\ \A u \in DOMAIN granted : granted[u].account \in Accounts /\ granted[u].stamp \in Nat \ {0}
  /\ \A u \in DOMAIN saslUsers :
       saslUsers[u].account # "none" =>
         /\ saslUsers[u].account \in Accounts /\ saslUsers[u].stamp \in Nat \ {0}
         /\ saslRegistered[saslUsers[u].account] = saslUsers[u].stamp

LEMMA BagPlus ==
  ASSUME NEW B, IsABag(B), NEW x
  PROVE  IsABag(B (+) SetToBag({x})) /\ DOMAIN (B (+) SetToBag({x})) = DOMAIN B \union {x}
  BY DEF (+), IsABag, SetToBag

LEMMA BagPlusNone ==
  ASSUME NEW B, IsABag(B)
  PROVE  IsABag(B (+) EmptyBag) /\ DOMAIN (B (+) EmptyBag) = DOMAIN B
  BY DEF (+), IsABag, SetToBag, EmptyBag

LEMMA BagMinus ==
  ASSUME NEW B, IsABag(B), NEW x
  PROVE  /\ IsABag(B (-) SetToBag({x})) /\ DOMAIN (B (-) SetToBag({x})) \subseteq DOMAIN B
         /\ DOMAIN B \ {x} \subseteq DOMAIN (B (-) SetToBag({x}))
  BY DEF (-), IsABag, SetToBag

\* What queues the first look keeps the looks near, and leaves one within a period.
LEMMA SessionTimersNear ==
  ASSUME LooksNear, SessionsWatched
  PROVE  /\ IsABag(SessionTimers) /\ Looks \subseteq DOMAIN SessionTimers
         /\ \A t \in DOMAIN SessionTimers : t \in Nat /\ saslNow <= t /\ t <= saslNow + Period
         /\ DOMAIN SessionTimers # {}
  <1>1. CASE DOMAIN saslsessions = {}
    <2>1. SessionTimers = staleTimers (+) SetToBag({saslNow + Period})
      BY <1>1 DEF SessionTimers
    <2>2. IsABag(SessionTimers) /\ DOMAIN SessionTimers = Looks \union {saslNow + Period}
      BY <2>1, BagPlus DEF LooksNear, Looks
    <2> QED BY <2>2, PeriodNatural DEF LooksNear
  <1>2. CASE DOMAIN saslsessions # {}
    <2>1. SessionTimers = staleTimers
      BY <1>2 DEF SessionTimers
    <2> QED BY <1>2, <2>1 DEF LooksNear, Looks, SessionsWatched, Watched
  <1> QED BY <1>1, <1>2

\* Session s of client uid is as old as it was, or new.
Renewed(uid, s) ==
  /\ DOMAIN s = SessionFields
  /\ \/ /\ uid \in DOMAIN saslsessions
        /\ s.stale = saslsessions[uid].stale /\ s.touched = saslsessions[uid].touched
     \/ s.stale = FALSE /\ s.touched = saslNow

LEMMA WatchedStill ==
  ASSUME NEW s, NEW T, NEW n, Watched(s, T, n), NEW U, T \subseteq U
  PROVE  Watched(s, U, n)
  BY DEF Watched

\* A session after input: ended, put back as old as it was, or new.
LEMMA InputWatched ==
  ASSUME LooksNear, SessionsWatched, NEW uid, NEW s,
         Ended(uid) \/ saslsessions' = SaslPut(saslsessions, uid, s), Renewed(uid, s),
         staleTimers' = SessionTimers, saslNow' = saslNow
  PROVE  LooksNear' /\ SessionsWatched'
  <1>1. LooksNear'
    BY SessionTimersNear DEF LooksNear, Looks
  <1>2. Looks \subseteq Looks' /\ Looks' = DOMAIN SessionTimers
    BY SessionTimersNear DEF Looks
  <1>3. \A u \in DOMAIN saslsessions : Watched(saslsessions[u], Looks', saslNow)
    BY <1>2, WatchedStill DEF SessionsWatched
  <1>4. Watched(s, Looks', saslNow)
    <2>1. CASE uid \in DOMAIN saslsessions /\ s.stale = saslsessions[uid].stale /\ s.touched = saslsessions[uid].touched
      BY <1>3, <2>1 DEF Watched, Renewed
    <2>2. CASE s.stale = FALSE /\ s.touched = saslNow
      <3>1. PICK t \in Looks' : t <= saslNow + Period
        BY <1>2, SessionTimersNear
      <3>2. ~s.stale /\ s.stale \in BOOLEAN
        BY <2>2, Zenon
      <3>3. \E x \in Looks' : x <= IF s.stale THEN s.touched + 2 * Period ELSE s.touched + Period
        BY <2>2, <3>1, <3>2
      <3> QED BY <2>2, <3>2, <3>3 DEF Watched, LooksNear, Renewed
    <2> QED BY <2>1, <2>2 DEF Renewed
  <1> QED BY <1>1, <1>3, <1>4 DEF SessionsWatched, Ended, SaslPut, SaslDrop

LEMMA SessionRead ==
  ASSUME LooksNear, SessionsWatched, NEW uid, NEW fp
  PROVE  Renewed(uid, Received(uid, fp)) /\ Renewed(uid, sasl_get_session(uid))
  <1> DEFINE g == sasl_get_session(uid)
             s == Received(uid, fp)
  <1>1. DOMAIN g = SessionFields
    BY DEF sasl_get_session, NewSession, SessionFields, SessionsWatched, Watched
  <1>2. \/ uid \in DOMAIN saslsessions /\ g = saslsessions[uid]
        \/ g.stale = FALSE /\ g.touched = saslNow
    BY DEF sasl_get_session, NewSession
  <1>3. DOMAIN s = SessionFields /\ s.stale = g.stale /\ s.touched = g.touched
    BY <1>1 DEF Received, SessionFields
  <1> QED BY <1>1, <1>2, <1>3 DEF Renewed

LEMMA InputKept ==
  ASSUME LooksNear, SessionsWatched, Input
  PROVE  LooksNear' /\ SessionsWatched'
  <1>1. PICK uid \in Uids :
          \/ \E fp \in Fps \union {"none"} :
                \/ Fragment(uid, fp)
                \/ \E m \in {"PLAIN", "EXTERNAL", "OTHER"} : Mechanism(uid, fp, m)
                \/ \E name \in Accounts \union {"none"}, knows \in BOOLEAN, as \in Accounts \union {"none"} :
                      Credentials(uid, fp, name, knows, as)
          \/ Abort(uid) \/ HostTold(uid)
    BY DEF Input
  <1>2. staleTimers' = SessionTimers /\ saslNow' = saslNow
    BY <1>1 DEF Fragment, Mechanism, Credentials, Abort, HostTold
  <1>3. PICK s : (Ended(uid) \/ saslsessions' = SaslPut(saslsessions, uid, s)) /\ Renewed(uid, s)
    <2>1. ASSUME NEW fp, Fragment(uid, fp)
          PROVE  \E s : (Ended(uid) \/ saslsessions' = SaslPut(saslsessions, uid, s)) /\ Renewed(uid, s)
      <3> DEFINE r == Received(uid, fp)
                 s == [r EXCEPT !.fragments = @ + 1]
      <3>1. Renewed(uid, s)
        BY SessionRead DEF SessionFields, Renewed
      <3>2. Ended(uid) \/ saslsessions' = SaslPut(saslsessions, uid, s)
        BY <2>1 DEF Fragment
      <3> QED BY <3>1, <3>2
    <2>2. ASSUME NEW fp, NEW m, Mechanism(uid, fp, m)
          PROVE  \E s : (Ended(uid) \/ saslsessions' = SaslPut(saslsessions, uid, s)) /\ Renewed(uid, s)
      <3> DEFINE r == Received(uid, fp)
                 s == [r EXCEPT !.mech = m, !.stale = FALSE, !.touched = saslNow]
      <3>1. DOMAIN s = SessionFields /\ s.stale = FALSE /\ s.touched = saslNow
        BY SessionRead DEF SessionFields, Renewed
      <3>2. Ended(uid) \/ saslsessions' = SaslPut(saslsessions, uid, s)
        BY <2>2 DEF Mechanism
      <3> QED BY <3>1, <3>2 DEF Renewed
    <2>3. ASSUME NEW fp, NEW name, NEW knows, NEW as, Credentials(uid, fp, name, knows, as) \/ Abort(uid)
          PROVE  Ended(uid) /\ Renewed(uid, sasl_get_session(uid))
      BY <2>3, SessionRead DEF Credentials, Abort
    <2>4. CASE HostTold(uid)
      <3> DEFINE g == sasl_get_session(uid)
                 s == [g EXCEPT !.host = TRUE]
      <3>1. Renewed(uid, s)
        BY SessionRead DEF SessionFields, Renewed
      <3>2. saslsessions' = SaslPut(saslsessions, uid, s)
        BY <2>4 DEF HostTold
      <3> QED BY <3>1, <3>2
    <2> QED BY <1>1, <2>1, <2>2, <2>3, <2>4
  <1> QED BY <1>2, <1>3, InputWatched

\* sasl_delete_stale ends the stale sessions and looks again after the others.
LEMMA StaleKept ==
  ASSUME LooksNear, SessionsWatched, sasl_delete_stale
  PROVE  LooksNear' /\ SessionsWatched'
  <1> DEFINE gone == {u \in DOMAIN saslsessions : saslsessions[u].stale}
             left == DOMAIN saslsessions \ gone
             rest == staleTimers (-) SetToBag({saslNow})
  <1>1. /\ saslsessions' = [u \in left |-> [saslsessions[u] EXCEPT !.stale = TRUE]]
        /\ staleTimers' = rest (+) TimersAgain(gone, left) /\ saslNow' = saslNow
    BY DEF sasl_delete_stale
  <1>2. IsABag(rest) /\ DOMAIN rest \subseteq Looks
    BY BagMinus DEF LooksNear, Looks
  <1>3. IsABag(staleTimers') /\ Looks' = DOMAIN rest \union (IF left # {} THEN {saslNow + Period} ELSE {})
    BY <1>1, <1>2, BagPlus, BagPlusNone DEF TimersAgain, Looks
  <1> HIDE DEF rest
  <1>4. LooksNear'
    BY <1>1, <1>2, <1>3, PeriodNatural DEF LooksNear
  <1>5. ASSUME NEW u \in left
        PROVE  Watched([saslsessions[u] EXCEPT !.stale = TRUE], Looks', saslNow)
    <2> DEFINE s == saslsessions[u]
               x == [s EXCEPT !.stale = TRUE]
    <2>1. Watched(s, Looks, saslNow) /\ ~s.stale
      BY DEF SessionsWatched
    <2>2. DOMAIN x = SessionFields /\ x.stale = TRUE /\ x.touched = s.touched
      BY <2>1 DEF Watched, SessionFields
    <2>3. s.touched \in Nat /\ s.touched <= saslNow /\ saslNow <= s.touched + Period
      BY <2>1, PeriodNatural DEF Watched, LooksNear
    <2>4. saslNow + Period \in Looks' /\ saslNow + Period <= s.touched + 2 * Period
      BY <1>3, <2>3, PeriodNatural DEF LooksNear
    <2>5. x.stale \in BOOLEAN /\ x.stale
      BY <2>2, Zenon
    <2> QED BY <2>2, <2>3, <2>4, <2>5 DEF Watched
  <1> QED BY <1>1, <1>4, <1>5 DEF SessionsWatched

LEMMA TickKept ==
  ASSUME LooksNear, SessionsWatched, SaslTick
  PROVE  LooksNear' /\ SessionsWatched'
  <1>1. /\ saslNow' = saslNow + 1 /\ staleTimers' = staleTimers /\ saslsessions' = saslsessions
        /\ saslNow \notin Looks /\ saslNow \in Nat
    BY DEF SaslTick, BagIn, BagToSet, Looks, LooksNear
  <1>2. \A t \in Looks : saslNow + 1 <= t
    BY <1>1 DEF LooksNear
  <1>3. LooksNear'
    BY <1>1, <1>2, PeriodNatural DEF LooksNear, Looks
  <1>4. \A u \in DOMAIN saslsessions : Watched(saslsessions[u], Looks, saslNow + 1)
    BY <1>1 DEF SessionsWatched, Watched
  <1> QED BY <1>1, <1>3, <1>4 DEF SessionsWatched, Looks

LEMMA SessionsStep ==
  ASSUME LooksNear, SessionsWatched, [SaslNext]_saslVars
  PROVE  LooksNear' /\ SessionsWatched'
  <1>1. CASE \/ \E uid \in Uids : handle_account(uid) \/ Leave(uid)
             \/ \E h \in Accounts : Unregister(h) \/ Register(h) \/ Suspend(h)
             \/ UNCHANGED saslVars
    <2>1. saslsessions' = saslsessions /\ staleTimers' = staleTimers /\ saslNow' = saslNow
      BY <1>1 DEF handle_account, Leave, Unregister, Register, Suspend, saslVars
    <2> QED BY <2>1 DEF LooksNear, SessionsWatched, Looks
  <1> QED BY <1>1, InputKept, StaleKept, TickKept DEF SaslNext

\* loc_auth and sasl_packet name accounts that exist.
LEMMA OutcomesExist ==
  ASSUME NEW s, NEW name, NEW knows, NEW as
  PROVE  Outcomes(s, name, knows, as) \subseteq Existing
  <1>1. \A fp, n, k, host : loc_auth(fp, n, k, host) \subseteq Existing
    BY DEF loc_auth, Looked
  <1> QED BY <1>1 DEF Outcomes

LEMMA GrantsStep ==
  ASSUME GrantsReal, [SaslNext]_saslVars
  PROVE  GrantsReal'
  <1>1. ASSUME NEW uid, NEW fp, NEW name, NEW knows, NEW as, Credentials(uid, fp, name, knows, as)
        PROVE  GrantsReal'
    <2> DEFINE won == Outcomes(Received(uid, fp), name, knows, as)
    <2>1. /\ saslRegistered' = saslRegistered /\ serial' = serial /\ saslUsers' = saslUsers
          /\ \/ granted' = granted
             \/ \E h \in won : granted' = SaslPut(granted, uid, [account |-> h, stamp |-> saslRegistered[h]])
      BY <1>1 DEF Credentials, accountVars
    <2>2. \A h \in won : h \in Accounts /\ saslRegistered[h] \in Nat \ {0}
      <3>1. won \subseteq Existing
        BY OutcomesExist
      <3> HIDE DEF won
      <3> QED BY <3>1 DEF Existing, GrantsReal
    <2> HIDE DEF won
    <2> QED BY <2>1, <2>2 DEF GrantsReal, SaslPut
  <1>2. ASSUME NEW uid, handle_account(uid)
        PROVE  GrantsReal'
    <2>1. /\ saslRegistered' = saslRegistered /\ serial' = serial /\ granted' = SaslDrop(granted, uid)
          /\ uid \in DOMAIN granted
          /\ \/ StampMatches(granted[uid]) /\ saslUsers' = SaslPut(saslUsers, uid, granted[uid])
             \/ saslUsers' = SaslPut(saslUsers, uid, [account |-> "none", stamp |-> 0])
      BY <1>2 DEF handle_account, accountVars
    <2> QED BY <2>1 DEF GrantsReal, SaslPut, SaslDrop, StampMatches
  <1>3. ASSUME NEW uid, Leave(uid)
        PROVE  GrantsReal'
    BY <1>3 DEF Leave, accountVars, GrantsReal, SaslDrop
  <1>4. ASSUME NEW h \in Accounts, Unregister(h)
        PROVE  GrantsReal'
    <2>1. /\ saslRegistered' = [saslRegistered EXCEPT ![h] = 0] /\ serial' = serial /\ granted' = granted
          /\ saslUsers' = [u \in DOMAIN saslUsers |-> IF saslUsers[u].account = h
                                                    THEN [account |-> "none", stamp |-> 0] ELSE saslUsers[u]]
      BY <1>4 DEF Unregister
    <2> QED BY <2>1 DEF GrantsReal
  <1>5. ASSUME NEW h \in Accounts, Register(h)
        PROVE  GrantsReal'
    <2>1. /\ saslRegistered' = [saslRegistered EXCEPT ![h] = serial + 1] /\ serial' = serial + 1
          /\ granted' = granted /\ saslUsers' = saslUsers /\ saslRegistered[h] = 0
      BY <1>5 DEF Register, Existing, GrantsReal
    <2> QED BY <2>1 DEF GrantsReal
  <1>6. CASE \/ sasl_delete_stale \/ SaslTick \/ UNCHANGED saslVars
             \/ \E h \in Accounts : Suspend(h)
             \/ \E uid \in Uids : \/ Abort(uid) \/ HostTold(uid)
                                  \/ \E fp \in Fps \union {"none"} :
                                        \/ Fragment(uid, fp)
                                        \/ \E m \in {"PLAIN", "EXTERNAL", "OTHER"} : Mechanism(uid, fp, m)
    <2>1. saslRegistered' = saslRegistered /\ serial' = serial /\ granted' = granted /\ saslUsers' = saslUsers
      BY <1>6 DEF sasl_delete_stale, SaslTick, Suspend, Abort, HostTold, Fragment, Mechanism, saslVars, accountVars
    <2> QED BY <2>1 DEF GrantsReal
  <1> QED BY <1>1, <1>2, <1>3, <1>4, <1>5, <1>6 DEF SaslNext, Input

\* For any clients, accounts, fingerprints and period, no SASL session outlives its last sign of life
\* by more than two looks, a look is queued while there is a session, and a client is on the very
\* account it was granted, through unregistering and registering of the same name.
THEOREM SaslStaysSound == SaslSpec => []SaslSound
  <1>1. SaslInit => LooksNear /\ SessionsWatched /\ GrantsReal
    BY DEF SaslInit, LooksNear, SessionsWatched, GrantsReal, Looks, SaslEmpty, EmptyBag, SetToBag, IsABag
  <1>2. LooksNear /\ SessionsWatched /\ GrantsReal /\ [SaslNext]_saslVars => (LooksNear /\ SessionsWatched /\ GrantsReal)'
    BY SessionsStep, GrantsStep
  <1>3. LooksNear /\ SessionsWatched /\ GrantsReal => SaslSound
    <2> SUFFICES ASSUME LooksNear, SessionsWatched, GrantsReal
                 PROVE  SessionsShort /\ LoginGranted
      BY DEF SaslSound
    <2>1. ASSUME NEW u \in DOMAIN saslsessions
          PROVE  saslNow <= saslsessions[u].touched + 2 * Period /\ Looks # {}
      BY PeriodNatural DEF LooksNear, SessionsWatched, Watched
    <2>2. Looks # {} => staleTimers # EmptyBag
      BY DEF Looks, EmptyBag, SetToBag
    <2> QED BY <2>1, <2>2 DEF SessionsShort, LoginGranted, GrantsReal
  <1> QED BY <1>1, <1>2, <1>3, PTL DEF SaslSpec

-----------------------------------------------------------------------------
(* What staff keep.  An entry for good stands with no end, but for names   *)
(* expire_dnrs can take for what follows the first character of another,   *)
(* and an account that is forbidden exists.  A note has its type, which    *)
(* counts it.                                                              *)

Mistaken == {Behind[x] : x \in PlainNames \union DnrMasks}

OwedStand ==
  /\ dnrAccounts \subseteq AccountNames
  /\ owed \intersect AccountNames \subseteq dnrAccounts
  /\ \A k \in owed : \/ k \in Mistaken /\ k \notin AccountNames
                     \/ k \in DOMAIN dnrs /\ dnrs[k] = 0

NoteFields == [refs : Int, access : NoteAccesses \union {[type |-> "CHANNEL", min |-> 0]},
               visible : Visibilities, max_length : Nat]

NotesShaped ==
  /\ notes = [c \in DOMAIN notes |-> notes[c]] /\ DOMAIN notes \subseteq NoteChannels
  /\ \A c \in DOMAIN notes : \A t \in DOMAIN notes[c] : notes[c][t] \in Nat
  /\ note_types = [t \in DOMAIN note_types |-> note_types[t]]
  /\ \A t \in DOMAIN note_types : note_types[t] \in NoteFields

StaffInv == OwedStand /\ NotesShaped /\ NotesTyped

\* Taking off what has an end leaves the entries for good.
LEMMA EndedTaken ==
  ASSUME OwedStand, NEW gone, dnrs' = WithoutKeys(dnrs, gone),
         \A k \in gone \intersect DOMAIN dnrs : dnrs[k] > 0 \/ (k \in Mistaken /\ k \notin AccountNames),
         UNCHANGED <<dnrAccounts, owed>>
  PROVE  OwedStand'
  <1> SUFFICES ASSUME NEW k \in owed, ~(k \in Mistaken /\ k \notin AccountNames)
               PROVE  k \in DOMAIN dnrs' /\ dnrs'[k] = 0
    BY DEF OwedStand, Mistaken
  <1>1. k \in DOMAIN dnrs /\ dnrs[k] = 0
    BY DEF OwedStand
  <1>2. k \notin gone
    BY <1>1
  <1> QED BY <1>1, <1>2 DEF WithoutKeys

\* So does taking off what staff name, which is owed no longer.
LEMMA NamedTaken ==
  ASSUME OwedStand, NEW gone, dnrs' = WithoutKeys(dnrs, gone), owed' = owed \ gone, UNCHANGED dnrAccounts
  PROVE  OwedStand'
  BY DEF OwedStand, Mistaken, WithoutKeys

LEMMA AskKeeps ==
  ASSUME OwedStand, NEW chan, NEW handle, AskDnrs(chan, handle)
  PROVE  OwedStand'
  <1>1. PICK gone \in Dropped(chan, handle) \union {Asked(chan, handle) \intersect Lapsed(dnrs)} :
            dnrs' = WithoutKeys(dnrs, gone)
    BY DEF AskDnrs
  <1>2. gone \subseteq Lapsed(dnrs)
    BY <1>1 DEF Dropped
  <1>3. \A k \in gone \intersect DOMAIN dnrs : dnrs[k] > 0
    BY <1>2 DEF Lapsed
  <1>4. UNCHANGED <<dnrAccounts, owed>>
    BY DEF AskDnrs
  <1> QED BY <1>1, <1>3, <1>4, EndedTaken

LEMMA NoregisterKeeps ==
  ASSUME OwedStand, NEW k \in DnrKeys, NEW d, cmd_noregister(k, d)
  PROVE  OwedStand'
  <1>1. CASE d = 0
    <2>1. dnrs' = PutKey(dnrs, k, 0) /\ owed' = owed \union {k} /\ dnrAccounts' = dnrAccounts
      BY <1>1 DEF cmd_noregister
    <2>2. k \in AccountNames => k \in dnrAccounts
      BY DEF cmd_noregister
    <2> QED BY <2>1, <2>2 DEF OwedStand, PutKey, Mistaken
  <1>2. CASE d # 0
    <2>1. dnrs' = PutKey(dnrs, k, listNow + d) /\ owed' = owed \ {k} /\ dnrAccounts' = dnrAccounts
      BY <1>2 DEF cmd_noregister
    <2> QED BY <2>1 DEF OwedStand, PutKey, Mistaken
  <1> QED BY <1>1, <1>2

LEMMA ExpireKeeps ==
  ASSUME OwedStand, expire_dnrs
  PROVE  OwedStand'
  <1> DEFINE gone == (Lapsed(dnrs) \intersect AccountNames)
                \union ({Behind[k] : k \in Lapsed(dnrs) \intersect PlainNames} \intersect PlainNames)
                \union ({Behind[k] : k \in Lapsed(dnrs) \intersect DnrMasks} \intersect DnrMasks)
  <1>1. dnrs' = WithoutKeys(dnrs, gone) /\ UNCHANGED <<dnrAccounts, owed>>
    BY DEF expire_dnrs
  <1>2. \A k \in gone \intersect DOMAIN dnrs : dnrs[k] > 0 \/ (k \in Mistaken /\ k \notin AccountNames)
    BY KeysApart DEF Lapsed, Mistaken
  <1> HIDE DEF gone
  <1> QED BY <1>1, <1>2, EndedTaken

LEMMA RenameKeeps ==
  ASSUME OwedStand, NEW old \in AccountNames, NEW to \in AccountNames, handle_rename(old, to)
  PROVE  OwedStand'
  <1>1. /\ old \in dnrAccounts /\ to \notin dnrAccounts
        /\ dnrAccounts' = (dnrAccounts \ {old}) \union {to}
        /\ dnrs' = Renamed(old, to)
        /\ owed' = IF old \in owed THEN (owed \ {old}) \union {to} ELSE owed
    BY DEF handle_rename
  <1>2. to \notin owed /\ to # old
    BY <1>1 DEF OwedStand
  <1>3. \A k \in owed \ {old} : k \in DOMAIN dnrs => k \in DOMAIN dnrs' /\ dnrs'[k] = dnrs[k]
    BY <1>1, <1>2 DEF Renamed, PutKey, WithoutKeys
  <1>4. old \in owed => to \in DOMAIN dnrs' /\ dnrs'[to] = 0
    <2> HAVE old \in owed
    <2>1. old \in DOMAIN dnrs /\ dnrs[old] = 0
      BY DEF OwedStand
    <2> QED BY <1>1, <2>1 DEF Renamed, PutKey, WithoutKeys
  <1>5. dnrAccounts' \subseteq AccountNames /\ owed' \intersect AccountNames \subseteq dnrAccounts'
    BY <1>1 DEF OwedStand
  <1>6. ASSUME NEW k \in owed' 
         PROVE  (k \in Mistaken /\ k \notin AccountNames) \/ (k \in DOMAIN dnrs' /\ dnrs'[k] = 0)
    <2>1. CASE k = to
      BY <1>1, <1>2, <1>4, <2>1
    <2>2. CASE k # to
      <3>1. k \in owed \ {old} \/ (k = old /\ old \notin owed /\ k \in owed)
        BY <1>1, <2>2
      <3>2. k \in owed \ {old}
        BY <3>1
      <3>3. (k \in Mistaken /\ k \notin AccountNames) \/ (k \in DOMAIN dnrs /\ dnrs[k] = 0)
        BY <3>2 DEF OwedStand
      <3> QED BY <1>3, <3>2, <3>3
    <2> QED BY <2>1, <2>2
  <1> QED BY <1>5, <1>6 DEF OwedStand, Mistaken

LEMMA DnrReadKeeps ==
  ASSUME OwedStand, chanserv_dnr_read
  PROVE  OwedStand'
  <1>1. PICK filed \in [Timed -> {-1} \union Garbage] :
           dnrs' = WithoutKeys([k \in DOMAIN dnrs |-> IF k \in Timed /\ filed[k] # -1 THEN filed[k] ELSE dnrs[k]],
                       Lapsed([k \in DOMAIN dnrs |-> IF k \in Timed /\ filed[k] # -1 THEN filed[k] ELSE dnrs[k]]))
    BY DEF chanserv_dnr_read
  <1> DEFINE fil == [k \in DOMAIN dnrs |-> IF k \in Timed /\ filed[k] # -1 THEN filed[k] ELSE dnrs[k]]
  <1>2. dnrs' = WithoutKeys(fil, Lapsed(fil))
    BY <1>1
  <1>3. \A k \in DOMAIN dnrs : dnrs[k] = 0 => k \in DOMAIN fil /\ fil[k] = 0
    BY DEF Timed
  <1> HIDE DEF fil
  <1>4. \A k \in DOMAIN dnrs : dnrs[k] = 0 => k \in DOMAIN dnrs' /\ dnrs'[k] = 0
    BY <1>2, <1>3 DEF WithoutKeys, Lapsed
  <1>5. UNCHANGED <<dnrAccounts, owed>>
    BY DEF chanserv_dnr_read
  <1> QED BY <1>4, <1>5 DEF OwedStand, Mistaken

LEMMA DnrsStep ==
  ASSUME OwedStand, DnrsNext
  PROVE  OwedStand'
  <1>1. CASE \E c \in PlainNames \union {"none"}, h \in AccountNames \union {"none"} : AskDnrs(c, h)
    BY <1>1, AskKeeps
  <1>2. CASE \E k \in DnrKeys : cmd_allowregister(k)
    <2>1. PICK k \in DnrKeys : cmd_allowregister(k)
      BY <1>2
    <2>2. dnrs' = WithoutKeys(dnrs, {k}) /\ owed' = owed \ {k} /\ UNCHANGED dnrAccounts
      BY <2>1 DEF cmd_allowregister
    <2> QED BY <2>2, NamedTaken
  <1>3. CASE \E k \in DnrKeys : \E d \in DnrDurations : cmd_noregister(k, d)
    BY <1>3, NoregisterKeeps
  <1>4. CASE \E t \in DnrKeys \union {"any"}, min \in {0, listNow + 1}, max \in {0, listNow}, limit \in {1, 50} :
                cmd_dnrsearch(t, min, max, limit)
    <2>1. \E gone : dnrs' = WithoutKeys(dnrs, gone) /\ owed' = owed \ gone /\ UNCHANGED dnrAccounts
      BY <1>4 DEF cmd_dnrsearch
    <2> QED BY <2>1, NamedTaken
  <1>5. CASE send_dnrs
    <2>1. dnrs' = WithoutKeys(dnrs, Lapsed(dnrs)) /\ UNCHANGED <<dnrAccounts, owed>>
      BY <1>5 DEF send_dnrs
    <2>2. \A k \in Lapsed(dnrs) \intersect DOMAIN dnrs : dnrs[k] > 0
      BY DEF Lapsed
    <2> QED BY <2>1, <2>2, EndedTaken
  <1>6. CASE expire_dnrs
    BY <1>6, ExpireKeeps
  <1>7. CASE write_dnrs_helper
    <2>1. dnrs' = WithoutKeys(dnrs, Timed) /\ UNCHANGED <<dnrAccounts, owed>>
      BY <1>7 DEF write_dnrs_helper
    <2>2. \A k \in Timed \intersect DOMAIN dnrs : dnrs[k] > 0
      BY DEF Timed
    <2> QED BY <2>1, <2>2, EndedTaken
  <1>8. CASE \E h \in AccountNames : UnregisterName(h)
    BY <1>8 DEF UnregisterName, OwedStand, Mistaken
  <1>9. CASE \E h \in AccountNames : RegisterName(h)
    BY <1>9 DEF RegisterName, OwedStand, Mistaken
  <1>10. CASE \E h \in AccountNames : \E to \in AccountNames : handle_rename(h, to)
    BY <1>10, RenameKeeps
  <1> QED BY <1>1, <1>2, <1>3, <1>4, <1>5, <1>6, <1>7, <1>8, <1>9, <1>10 DEF DnrsNext

-----------------------------------------------------------------------------
\* Least is the smaller of two lengths.
LEMMA LeastNatural ==
  ASSUME NEW a \in Nat, NEW b \in Nat
  PROVE  Least(a, b) \in Nat /\ Least(a, b) <= b /\ Least(a, b) <= a
  BY DEF Least

\* Finitely many channels have notes of a type.
LEMMA NoteUsersFinite ==
  ASSUME NotesShaped, NEW t
  PROVE  IsFiniteSet(NoteUsers(t)) /\ Cardinality(NoteUsers(t)) \in Nat
  <1>1. NoteUsers(t) \in SUBSET NoteChannels
    BY DEF NoteUsers, NotesShaped
  <1>2. IsFiniteSet(NoteUsers(t))
    BY <1>1, NoteChannelsFinite, FS_Subset
  <1> QED BY <1>2, FS_CardinalityType

\* cmd_createnote: the count of the type is what it was, and its notes are cut.
LEMMA CreateKeeps ==
  ASSUME StaffInv, NEW name \in Types, NEW acc \in NoteAccesses \union {[type |-> "bad", min |-> 0]},
         NEW vis \in Visibilities \union {"bad"}, NEW max \in Lengths \union {0}, cmd_createnote(name, acc, vis, max)
  PROVE  NotesShaped' /\ NotesTyped'
  <1> DEFINE existed == name \in DOMAIN note_types
             old  == IF existed THEN note_types[name] ELSE NewType
             one  == IF acc.type = "bad" THEN old ELSE [old EXCEPT !.access = acc]
             two  == IF vis = "bad" THEN one ELSE [one EXCEPT !.visible = vis]
             ok   == acc.type # "bad" /\ vis # "bad" /\ max # 0
  <1>0. max \in Nat
    BY NotesNatural
  <1>1. old \in NoteFields
    BY DEF StaffInv, NotesShaped, NoteFields, NewType, Visibilities
  <1>2. acc.type # "bad" => acc \in NoteAccesses
    OBVIOUS
  <1>3. one \in NoteFields /\ one.refs = old.refs /\ one.max_length = old.max_length
    BY <1>1, <1>2 DEF NoteFields
  <1>4. two \in NoteFields /\ two.refs = old.refs /\ two.max_length = old.max_length
    BY <1>3 DEF NoteFields
  <1>5. /\ note_types' = IF ok THEN PutKey(note_types, name, [two EXCEPT !.max_length = max])
                         ELSE IF existed THEN PutKey(note_types, name, two) ELSE note_types
        /\ notes' = IF ok /\ existed /\ max < old.max_length THEN Truncated(name, max) ELSE notes
        /\ UNCHANGED noteFreed
    BY DEF cmd_createnote
  <1>6. [two EXCEPT !.max_length = max] \in NoteFields /\ [two EXCEPT !.max_length = max].refs = old.refs
        /\ [two EXCEPT !.max_length = max].max_length = max
    BY <1>0, <1>4 DEF NoteFields
  <1>7. existed => old = note_types[name]
    OBVIOUS
  <1>8. ~existed => old.refs = 1 /\ NoteUsers(name) = {}
    BY DEF StaffInv, NotesTyped, NoteUsers, NewType
  <1>9. old.max_length \in Nat
    BY <1>1 DEF NoteFields
  <1> HIDE DEF old, one, two
  <1>10. \A t : NoteUsers(t)' = NoteUsers(t)
    BY <1>5 DEF NoteUsers, Truncated
  <1>11. \A t \in DOMAIN note_types' :
            /\ note_types'[t] \in NoteFields
            /\ t # name => t \in DOMAIN note_types /\ note_types'[t] = note_types[t]
            /\ t = name => note_types'[t].refs = old.refs
    BY <1>4, <1>5, <1>6, <1>7 DEF PutKey, StaffInv, NotesShaped
  <1>12. note_types' = [t \in DOMAIN note_types' |-> note_types'[t]]
    BY <1>5 DEF PutKey, StaffInv, NotesShaped
  <1>13. notes' = [c \in DOMAIN notes' |-> notes'[c]] /\ DOMAIN notes' = DOMAIN notes
    BY <1>5 DEF Truncated, StaffInv, NotesShaped
  <1>14. \A t \in DOMAIN note_types' : note_types'[t].refs = 1 + Cardinality(NoteUsers(t))
    <2> TAKE t \in DOMAIN note_types'
    <2>1. CASE t # name
      BY <1>11, <2>1 DEF StaffInv, NotesTyped
    <2>2. CASE t = name /\ existed
      BY <1>7, <1>11, <2>2 DEF StaffInv, NotesTyped
    <2>3. CASE t = name /\ ~existed
      BY <1>8, <1>11, <2>3, FS_EmptySet
    <2> QED BY <2>1, <2>2, <2>3
  <1>15. ASSUME NEW c \in DOMAIN notes', NEW t \in DOMAIN notes'[c]
         PROVE  notes'[c][t] \in Nat /\ t \in DOMAIN note_types' /\ notes'[c][t] <= note_types'[t].max_length
    <2>1. c \in DOMAIN notes /\ t \in DOMAIN notes[c]
      BY <1>5, <1>13, <1>15 DEF Truncated
    <2>2. notes[c][t] \in Nat /\ t \in DOMAIN note_types /\ notes[c][t] <= note_types[t].max_length
          /\ note_types[t].max_length \in Nat
      BY <2>1 DEF StaffInv, NotesShaped, NotesTyped, NoteFields
    <2>3. t \in DOMAIN note_types'
      BY <1>5, <2>2 DEF PutKey
    <2>4. CASE t # name
      <3>1. notes'[c][t] = notes[c][t]
        BY <1>5, <2>1, <2>4 DEF Truncated
      <3> QED BY <1>11, <2>2, <2>3, <2>4, <3>1
    <2>5. CASE t = name /\ ~ok
      <3>1. notes'[c][t] = notes[c][t] /\ note_types'[t].max_length = note_types[t].max_length
        BY <1>4, <1>5, <1>7, <2>2, <2>5 DEF PutKey
      <3> QED BY <2>2, <2>3, <3>1
    <2>6. CASE t = name /\ ok /\ max < old.max_length
      <3>1. notes'[c][t] = Least(notes[c][t], max)
        BY <1>5, <2>1, <2>2, <2>6 DEF Truncated
      <3>2. note_types'[t].max_length = max
        BY <1>5, <1>6, <2>6 DEF PutKey
      <3> QED BY <1>0, <2>2, <2>3, <3>1, <3>2, LeastNatural
    <2>7. CASE t = name /\ ok /\ ~(max < old.max_length)
      <3>1. notes'[c][t] = notes[c][t]
        BY <1>5, <2>7
      <3>2. note_types'[t].max_length = max
        BY <1>5, <1>6, <2>7 DEF PutKey
      <3>3. note_types[t].max_length <= max
        BY <1>0, <1>7, <1>9, <2>2, <2>7
      <3> QED BY <1>0, <2>2, <2>3, <3>1, <3>2, <3>3
    <2> QED BY <2>4, <2>5, <2>6, <2>7
  <1>16. ~noteFreed'
    BY <1>5 DEF StaffInv, NotesTyped
  <1>17. NotesShaped'
    BY <1>11, <1>12, <1>13, <1>15 DEF StaffInv, NotesShaped
  <1> QED BY <1>10, <1>14, <1>15, <1>16, <1>17 DEF NotesTyped

\* cmd_removenote: by force the notes go first, and the count then reaches nothing.
LEMMA RemoveKeeps ==
  ASSUME StaffInv, NEW name, NEW force, cmd_removenote(name, force)
  PROVE  NotesShaped' /\ NotesTyped'
  <1>1. /\ name \in DOMAIN note_types
        /\ notes' = IF note_types[name].refs > 1 THEN Flushed(name) ELSE notes
        /\ note_types' = WithoutKeys(note_types, {name})
        /\ noteFreed' = (noteFreed \/ (IF note_types[name].refs > 1
                            THEN note_types[name].refs - Cardinality(NoteUsers(name)) - 1 # 0 ELSE NoteUsers(name) # {}))
    BY DEF cmd_removenote
  <1>2. note_types[name].refs = 1 + Cardinality(NoteUsers(name))
    BY <1>1 DEF StaffInv, NotesTyped
  <1>3. IsFiniteSet(NoteUsers(name)) /\ Cardinality(NoteUsers(name)) \in Nat
    BY NoteUsersFinite DEF StaffInv
  <1>4. ~(note_types[name].refs > 1) => NoteUsers(name) = {}
    <2> HAVE ~(note_types[name].refs > 1)
    <2>1. Cardinality(NoteUsers(name)) = 0
      BY <1>2, <1>3
    <2> QED BY <1>3, <2>1, FS_EmptySet
  <1>5. ~noteFreed'
    <2>1. ~noteFreed
      BY DEF StaffInv, NotesTyped
    <2>2. note_types[name].refs - Cardinality(NoteUsers(name)) - 1 = 0
      BY <1>2, <1>3
    <2> QED BY <1>1, <1>4, <2>1, <2>2
  <1>6. /\ DOMAIN notes' = DOMAIN notes /\ notes' = [c \in DOMAIN notes' |-> notes'[c]]
        /\ \A c \in DOMAIN notes : DOMAIN notes'[c] = DOMAIN notes[c] \ {name}
        /\ \A c \in DOMAIN notes : \A t \in DOMAIN notes[c] \ {name} : notes'[c][t] = notes[c][t]
    <2>1. CASE note_types[name].refs > 1
      BY <1>1, <2>1 DEF Flushed, WithoutKeys
    <2>2. CASE ~(note_types[name].refs > 1)
      BY <1>1, <1>4, <2>2 DEF StaffInv, NotesShaped, NoteUsers
    <2> QED BY <2>1, <2>2
  <1>7. \A t : t # name => NoteUsers(t)' = NoteUsers(t)
    BY <1>6 DEF NoteUsers
  <1>8. /\ DOMAIN note_types' = DOMAIN note_types \ {name}
        /\ note_types' = [t \in DOMAIN note_types' |-> note_types'[t]]
        /\ \A t \in DOMAIN note_types' : note_types'[t] = note_types[t]
    BY <1>1 DEF WithoutKeys
  <1>9. NotesShaped'
    BY <1>6, <1>8 DEF StaffInv, NotesShaped
  <1> QED BY <1>5, <1>6, <1>7, <1>8, <1>9 DEF StaffInv, NotesTyped

\* chanserv_add_channel_note: a note in the place of another lets go of the type before it holds it.
LEMMA NoteKeeps ==
  ASSUME StaffInv, NEW c \in DOMAIN notes, NEW name \in DOMAIN note_types, NEW len \in NoteTexts,
         chanserv_add_channel_note(c, name, len)
  PROVE  NotesShaped' /\ NotesTyped'
  <1> DEFINE lost == IF name \in DOMAIN notes[c] THEN 1 ELSE 0
             most == note_types[name].max_length
  <1>1. /\ notes' = [notes EXCEPT ![c] = PutKey(@, name, Least(len, most))]
        /\ note_types' = [note_types EXCEPT ![name].refs = (@ - lost) + 1]
        /\ noteFreed' = (noteFreed \/ note_types[name].refs - lost = 0)
    BY DEF chanserv_add_channel_note
  <1>2. note_types[name] \in NoteFields
    BY DEF StaffInv, NotesShaped
  <1>3. len \in Nat /\ most \in Nat
    BY <1>2, NotesNatural DEF NoteFields
  <1>4. Least(len, most) \in Nat /\ Least(len, most) <= most
    BY <1>3, LeastNatural
  <1>5. /\ DOMAIN notes' = DOMAIN notes /\ notes' = [d \in DOMAIN notes' |-> notes'[d]]
        /\ notes'[c] = PutKey(notes[c], name, Least(len, most))
        /\ \A d \in DOMAIN notes : d # c => notes'[d] = notes[d]
    BY <1>1 DEF StaffInv, NotesShaped
  <1>6. /\ DOMAIN note_types' = DOMAIN note_types /\ note_types' = [t \in DOMAIN note_types' |-> note_types'[t]]
        /\ note_types'[name] = [note_types[name] EXCEPT !.refs = (@ - lost) + 1]
        /\ \A t \in DOMAIN note_types : t # name => note_types'[t] = note_types[t]
    BY <1>1 DEF StaffInv, NotesShaped
  <1>7. note_types'[name] \in NoteFields /\ note_types'[name].refs = (note_types[name].refs - lost) + 1
        /\ note_types'[name].max_length = most
    <2>1. (note_types[name].refs - lost) + 1 \in Int
      BY <1>2 DEF NoteFields
    <2> HIDE DEF lost
    <2> QED BY <1>2, <1>6, <2>1 DEF NoteFields
  <1>8. \A t : t # name => NoteUsers(t)' = NoteUsers(t)
    BY <1>5 DEF NoteUsers, PutKey
  <1>9. NoteUsers(name)' = NoteUsers(name) \union {c}
    BY <1>5 DEF NoteUsers, PutKey
  <1>10. IsFiniteSet(NoteUsers(name)) /\ Cardinality(NoteUsers(name)) \in Nat
    BY NoteUsersFinite DEF StaffInv
  <1>11. note_types[name].refs = 1 + Cardinality(NoteUsers(name))
    BY DEF StaffInv, NotesTyped
  <1>12. c \in NoteUsers(name) <=> name \in DOMAIN notes[c]
    BY DEF NoteUsers
  <1>13. Cardinality(NoteUsers(name)') = Cardinality(NoteUsers(name)) + 1 - lost
    <2>1. Cardinality(NoteUsers(name)') = IF c \in NoteUsers(name) THEN Cardinality(NoteUsers(name)) ELSE Cardinality(NoteUsers(name)) + 1
      BY <1>9, <1>10, FS_AddElement
    <2> QED BY <1>10, <1>12, <2>1
  <1>14. note_types'[name].refs = 1 + Cardinality(NoteUsers(name)')
    BY <1>7, <1>10, <1>11, <1>13
  <1>15. ~noteFreed'
    <2>1. ~noteFreed
      BY DEF StaffInv, NotesTyped
    <2>2. CASE name \in DOMAIN notes[c]
      <3>1. Cardinality(NoteUsers(name)) # 0
        BY <1>10, <1>12, <2>2, FS_EmptySet
      <3>2. lost = 1
        BY <2>2
      <3> HIDE DEF lost
      <3>3. note_types[name].refs - lost # 0
        BY <1>10, <1>11, <3>1, <3>2
      <3> QED BY <1>1, <2>1, <3>3
    <2>3. CASE name \notin DOMAIN notes[c]
      <3>1. lost = 0
        BY <2>3
      <3> HIDE DEF lost
      <3>2. note_types[name].refs - lost # 0
        BY <1>10, <1>11, <3>1
      <3> QED BY <1>1, <2>1, <3>2
    <2> QED BY <2>2, <2>3
  <1>16. ASSUME NEW d \in DOMAIN notes', NEW t \in DOMAIN notes'[d]
         PROVE  notes'[d][t] \in Nat /\ t \in DOMAIN note_types' /\ notes'[d][t] <= note_types'[t].max_length
    <2>1. CASE d = c /\ t = name
      BY <1>4, <1>5, <1>6, <1>7, <2>1 DEF PutKey
    <2>2. CASE ~(d = c /\ t = name)
      <3>1. d \in DOMAIN notes /\ t \in DOMAIN notes[d] /\ notes'[d][t] = notes[d][t]
        BY <1>5, <1>16, <2>2 DEF PutKey
      <3>2. notes[d][t] \in Nat /\ t \in DOMAIN note_types /\ notes[d][t] <= note_types[t].max_length
        BY <3>1 DEF StaffInv, NotesShaped, NotesTyped
      <3>3. note_types'[t].max_length = note_types[t].max_length
        BY <1>6, <1>7, <3>2
      <3> QED BY <1>6, <3>1, <3>2, <3>3
    <2> QED BY <2>1, <2>2
  <1>17. NotesShaped'
    BY <1>5, <1>6, <1>7, <1>16 DEF StaffInv, NotesShaped
  <1>18. ASSUME NEW t \in DOMAIN note_types'
         PROVE  note_types'[t].refs = 1 + Cardinality(NoteUsers(t)')
    <2>1. CASE t = name
      BY <1>14, <2>1
    <2>2. CASE t # name
      <3>1. t \in DOMAIN note_types /\ note_types'[t] = note_types[t]
        BY <1>6, <2>2
      <3>2. NoteUsers(t)' = NoteUsers(t)
        BY <1>8, <2>2
      <3>3. note_types[t].refs = 1 + Cardinality(NoteUsers(t))
        BY <3>1 DEF StaffInv, NotesTyped
      <3> QED BY <3>1, <3>2, <3>3
    <2> QED BY <2>1, <2>2
  <1> HIDE DEF lost, most
  <1> QED BY <1>15, <1>16, <1>17, <1>18 DEF NotesTyped

\* A channel whose notes of some types go, or all of them: each type counts one less.
LEMMA ReleaseKeeps ==
  ASSUME StaffInv, NEW c \in DOMAIN notes, NEW names \in SUBSET DOMAIN notes[c],
         note_types' = RefsReleased(names),
         noteFreed' = (noteFreed \/ \E t \in names : note_types[t].refs = 1),
         DOMAIN notes' \subseteq DOMAIN notes, notes' = [d \in DOMAIN notes' |-> notes'[d]],
         \A d \in DOMAIN notes : d # c => d \in DOMAIN notes' /\ notes'[d] = notes[d],
         c \in DOMAIN notes' => notes'[c] = WithoutKeys(notes[c], names),
         c \notin DOMAIN notes' => names = DOMAIN notes[c]
  PROVE  NotesShaped' /\ NotesTyped'
  <1>1. /\ DOMAIN note_types' = DOMAIN note_types
        /\ note_types' = [t \in DOMAIN note_types' |-> note_types'[t]]
        /\ \A t \in DOMAIN note_types : note_types'[t] = [note_types[t] EXCEPT !.refs = IF t \in names THEN @ - 1 ELSE @]
    BY DEF RefsReleased
  <1>2. \A t \in DOMAIN note_types :
           /\ note_types'[t] \in NoteFields /\ note_types'[t].max_length = note_types[t].max_length
           /\ note_types'[t].refs = IF t \in names THEN note_types[t].refs - 1 ELSE note_types[t].refs
    <2> TAKE t \in DOMAIN note_types
    <2>1. note_types[t] \in NoteFields
      BY DEF StaffInv, NotesShaped
    <2> QED BY <1>1, <2>1 DEF NoteFields
  <1>3. \A t \in names : NoteUsers(t)' = NoteUsers(t) \ {c} /\ c \in NoteUsers(t)
    BY DEF NoteUsers, WithoutKeys
  <1>4. \A t : t \notin names => NoteUsers(t)' = NoteUsers(t)
    BY DEF NoteUsers, WithoutKeys
  <1>5. ASSUME NEW t \in DOMAIN note_types PROVE note_types'[t].refs = 1 + Cardinality(NoteUsers(t)')
    <2>1. note_types[t].refs = 1 + Cardinality(NoteUsers(t))
      BY DEF StaffInv, NotesTyped
    <2>2. CASE t \notin names
      BY <1>2, <1>4, <2>1, <2>2
    <2>3. CASE t \in names
      <3>1. IsFiniteSet(NoteUsers(t)) /\ Cardinality(NoteUsers(t)) \in Nat
        BY NoteUsersFinite DEF StaffInv
      <3>2. Cardinality(NoteUsers(t)') = Cardinality(NoteUsers(t)) - 1
        BY <1>3, <2>3, <3>1, FS_RemoveElement
      <3> QED BY <1>2, <2>1, <2>3, <3>1, <3>2
    <2> QED BY <2>2, <2>3
  <1>6. ASSUME NEW t \in names PROVE note_types[t].refs # 1
    <2>1. t \in DOMAIN note_types
      BY DEF StaffInv, NotesTyped
    <2>2. note_types[t].refs = 1 + Cardinality(NoteUsers(t))
      BY <2>1 DEF StaffInv, NotesTyped
    <2>3. IsFiniteSet(NoteUsers(t)) /\ Cardinality(NoteUsers(t)) \in Nat
      BY NoteUsersFinite DEF StaffInv
    <2>4. Cardinality(NoteUsers(t)) # 0
      BY <1>3, <2>3, FS_EmptySet
    <2> QED BY <2>2, <2>3, <2>4
  <1>7. ~noteFreed'
    BY <1>6 DEF StaffInv, NotesTyped
  <1>8. \A d \in DOMAIN notes' : \A t \in DOMAIN notes'[d] :
           d \in DOMAIN notes /\ t \in DOMAIN notes[d] /\ notes'[d][t] = notes[d][t]
    BY DEF WithoutKeys
  <1>9. NotesShaped'
    BY <1>1, <1>2, <1>8 DEF StaffInv, NotesShaped
  <1> QED BY <1>1, <1>2, <1>5, <1>7, <1>8, <1>9 DEF StaffInv, NotesTyped

LEMMA NoteReadKeeps ==
  ASSUME StaffInv, chanserv_note_type_read
  PROVE  NotesShaped' /\ NotesTyped'
  <1>1. /\ note_types' = [t \in DOMAIN note_types |-> [note_types[t] EXCEPT !.refs = 1 + Cardinality(NoteUsers(t))]]
        /\ notes' = [c \in DOMAIN notes |-> [t \in DOMAIN notes[c] |-> Least(notes[c][t], note_types[t].max_length)]]
        /\ noteFreed' = noteFreed
    BY DEF chanserv_note_type_read
  <1>2. \A t : NoteUsers(t)' = NoteUsers(t)
    BY <1>1 DEF NoteUsers
  <1>3. \A t \in DOMAIN note_types : /\ note_types'[t] \in NoteFields
                                     /\ note_types'[t].refs = 1 + Cardinality(NoteUsers(t))
                                     /\ note_types'[t].max_length = note_types[t].max_length
    <2> TAKE t \in DOMAIN note_types
    <2>1. note_types[t] \in NoteFields
      BY DEF StaffInv, NotesShaped
    <2>2. 1 + Cardinality(NoteUsers(t)) \in Int
      BY NoteUsersFinite DEF StaffInv
    <2> QED BY <1>1, <2>1, <2>2 DEF NoteFields
  <1>4. ASSUME NEW c \in DOMAIN notes, NEW t \in DOMAIN notes[c]
        PROVE  t \in DOMAIN note_types /\ notes'[c][t] \in Nat /\ notes'[c][t] <= note_types[t].max_length
    <2>1. notes[c][t] \in Nat /\ t \in DOMAIN note_types
      BY DEF StaffInv, NotesShaped, NotesTyped
    <2>2. note_types[t].max_length \in Nat
      BY <2>1 DEF StaffInv, NotesShaped, NoteFields
    <2>3. notes'[c][t] = Least(notes[c][t], note_types[t].max_length)
      BY <1>1
    <2> QED BY <2>1, <2>2, <2>3, LeastNatural
  <1>5. DOMAIN notes' = DOMAIN notes /\ \A c \in DOMAIN notes : DOMAIN notes'[c] = DOMAIN notes[c]
    BY <1>1
  <1>6. DOMAIN note_types' = DOMAIN note_types
    BY <1>1
  <1>7. NotesShaped'
    BY <1>1, <1>3, <1>4, <1>5, <1>6, ZenonT(30) DEF StaffInv, NotesShaped
  <1> QED BY <1>1, <1>2, <1>3, <1>4, <1>5, <1>6, <1>7 DEF StaffInv, NotesTyped

LEMMA NotesStep ==
  ASSUME StaffInv, NotesNext
  PROVE  NotesShaped' /\ NotesTyped'
  <1>1. CASE \E t \in Types, a \in NoteAccesses \union {[type |-> "bad", min |-> 0]}, v \in Visibilities \union {"bad"}, max \in Lengths \union {0} :
                cmd_createnote(t, a, v, max)
    BY <1>1, CreateKeeps
  <1>2. CASE \E t \in Types, force \in BOOLEAN : cmd_removenote(t, force)
    BY <1>2, RemoveKeeps
  <1>3. CASE \E c \in NoteChannels, t \in Types, level \in NoteLevels, setter, staff \in BOOLEAN : cmd_delnote(c, t, level, setter, staff)
    <2>1. PICK c \in NoteChannels, t \in Types :
             /\ c \in DOMAIN notes /\ t \in DOMAIN notes[c]
             /\ notes' = [notes EXCEPT ![c] = WithoutKeys(@, {t})]
             /\ note_types' = RefsReleased({t})
             /\ noteFreed' = (noteFreed \/ note_types[t].refs = 1)
      BY <1>3 DEF cmd_delnote
    <2>2. /\ DOMAIN notes' = DOMAIN notes /\ notes' = [d \in DOMAIN notes' |-> notes'[d]]
          /\ \A d \in DOMAIN notes : d # c => notes'[d] = notes[d]
          /\ notes'[c] = WithoutKeys(notes[c], {t})
      BY <2>1 DEF StaffInv, NotesShaped
    <2>3. noteFreed' = (noteFreed \/ \E x \in {t} : note_types[x].refs = 1) /\ {t} \in SUBSET DOMAIN notes[c]
      BY <2>1
    <2> QED BY <2>1, <2>2, <2>3, ReleaseKeeps
  <1>4. CASE \E c \in NoteChannels, t \in Types, level \in NoteLevels, setter, staff \in BOOLEAN :
                \E len \in NoteTexts : cmd_note(c, t, len, level, setter, staff)
    BY <1>4, NoteKeeps DEF cmd_note
  <1>5. CASE \E c \in NoteChannels : unregister_channel(c)
    <2>1. PICK c \in NoteChannels :
             /\ c \in DOMAIN notes /\ note_types' = RefsReleased(DOMAIN notes[c])
             /\ notes' = WithoutKeys(notes, {c})
             /\ noteFreed' = (noteFreed \/ \E t \in DOMAIN notes[c] : note_types[t].refs = 1)
      BY <1>5 DEF unregister_channel
    <2>2. /\ DOMAIN notes' = DOMAIN notes \ {c} /\ notes' = [d \in DOMAIN notes' |-> notes'[d]]
          /\ \A d \in DOMAIN notes : d # c => d \in DOMAIN notes' /\ notes'[d] = notes[d]
      BY <2>1 DEF WithoutKeys
    <2> QED BY <2>1, <2>2, ReleaseKeeps
  <1>6. CASE \E c \in NoteChannels : register_channel(c)
    <2>1. PICK c \in NoteChannels : c \notin DOMAIN notes /\ notes' = PutKey(notes, c, NoKeys) /\ UNCHANGED <<note_types, noteFreed>>
      BY <1>6 DEF register_channel
    <2>2. /\ DOMAIN notes' = DOMAIN notes \union {c} /\ notes' = [d \in DOMAIN notes' |-> notes'[d]]
          /\ DOMAIN notes'[c] = {} /\ \A d \in DOMAIN notes : notes'[d] = notes[d]
      BY <2>1 DEF PutKey, NoKeys
    <2>3. \A t : NoteUsers(t)' = NoteUsers(t)
      BY <2>2 DEF NoteUsers
    <2>4. NotesShaped'
      BY <2>1, <2>2 DEF StaffInv, NotesShaped
    <2> QED BY <2>1, <2>2, <2>3, <2>4 DEF StaffInv, NotesTyped
  <1> QED BY <1>1, <1>2, <1>3, <1>4, <1>5, <1>6 DEF NotesNext

LEMMA DnrsStepNotes ==
  ASSUME UNCHANGED noteVars, StaffInv
  PROVE  NotesShaped' /\ NotesTyped'
  BY DEF noteVars, StaffInv, NotesShaped, NotesTyped, NoteUsers

LEMMA NotesStepDnrs ==
  ASSUME UNCHANGED dnrVars, OwedStand
  PROVE  OwedStand'
  BY DEF dnrVars, OwedStand, Mistaken

LEMMA StaffStep ==
  ASSUME StaffInv, [StaffNext]_staffVars
  PROVE  StaffInv'
  <1>1. CASE DnrsNext
    <2>1. UNCHANGED noteVars
      BY <1>1 DEF DnrsNext, AskDnrs, cmd_allowregister, cmd_noregister, cmd_dnrsearch, send_dnrs, expire_dnrs,
                  write_dnrs_helper, UnregisterName, RegisterName, handle_rename
    <2> QED BY <1>1, <2>1, DnrsStep, DnrsStepNotes DEF StaffInv
  <1>2. CASE NotesNext
    <2>1. UNCHANGED dnrVars
      <3>1. \A t, a, v, max : cmd_createnote(t, a, v, max) => UNCHANGED dnrVars
        BY DEF cmd_createnote
      <3>2. \A t, force : cmd_removenote(t, force) => UNCHANGED dnrVars
        BY DEF cmd_removenote
      <3>3. \A c, t, l, s, f : cmd_delnote(c, t, l, s, f) => UNCHANGED dnrVars
        BY DEF cmd_delnote
      <3>4. \A c, t, len, l, s, f : cmd_note(c, t, len, l, s, f) => UNCHANGED dnrVars
        BY DEF cmd_note, chanserv_add_channel_note
      <3>5. \A c : unregister_channel(c) \/ register_channel(c) => UNCHANGED dnrVars
        BY DEF unregister_channel, register_channel
      <3> QED BY <1>2, <3>1, <3>2, <3>3, <3>4, <3>5 DEF NotesNext
    <2> QED BY <1>2, <2>1, NotesStep, NotesStepDnrs DEF StaffInv
  <1>3. CASE StaffRestart
    BY <1>3, DnrReadKeeps, NoteReadKeeps DEF StaffRestart, StaffInv
  <1>4. CASE StaffTick
    <2>1. OwedStand'
      BY <1>4 DEF StaffTick, StaffInv, OwedStand, Mistaken
    <2> QED BY <1>4, <2>1, DnrsStepNotes DEF StaffTick, StaffInv
  <1>5. CASE UNCHANGED staffVars
    BY <1>5, DnrsStepNotes, NotesStepDnrs DEF staffVars, StaffInv
  <1> QED BY <1>1, <1>2, <1>3, <1>4, <1>5 DEF StaffNext

\* What staff forbade for good stays forbidden through renames, expiries, saves and restarts, and a
\* type of note counts exactly its notes, is freed under none and bounds their length: for any names,
\* masks, accounts, channels, types and times (expire_dnrs, handle_rename, chanserv_free_note).
THEOREM StaffStayKept == StaffSpec => []StaffKept
  <1>1. StaffInit => StaffInv
    <2> HAVE StaffInit
    <2>1. OwedStand
      BY DEF StaffInit, OwedStand
    <2>2. NotesShaped
      BY DEF StaffInit, NotesShaped, NoKeys
    <2>3. NotesTyped
      BY DEF StaffInit, NotesTyped, NoKeys
    <2> QED BY <2>1, <2>2, <2>3 DEF StaffInv
  <1>2. StaffInv /\ [StaffNext]_staffVars => StaffInv'
    BY StaffStep
  <1>3. StaffInv => StaffKept
    BY KeysApart DEF StaffInv, OwedStand, Mistaken, StaffKept, DnrsKept
  <1> QED BY <1>1, <1>2, <1>3, PTL DEF StaffSpec

-----------------------------------------------------------------------------
(* Virtual hosts.  Every account has its own number, and the number of a   *)
(* login is that of an account that is registered; the host of an account  *)
(* was approved for it.                                                    *)

AccountsSound ==
  /\ accounts \in Nat
  /\ owner = [h \in DOMAIN owner |-> owner[h]] /\ \A h \in DOMAIN owner : owner[h] \in 1..accounts
  /\ \A h, k \in DOMAIN owner : owner[h] = owner[k] => h = k
  /\ fakehost = [n \in DOMAIN fakehost |-> fakehost[n]]
  /\ DOMAIN fakehost = {owner[h] : h \in DOMAIN owner}
  /\ login = [u \in HostUsers |-> login[u]] /\ \A u \in HostUsers : login[u] = 0 \/ login[u] \in DOMAIN fakehost
  /\ shown = [u \in HostUsers |-> shown[u]]

HostsApproved == \A n \in DOMAIN fakehost : fakehost[n] # NoHost => <<n, fakehost[n]>> \in approved

\* A host that is shown was given; it is the account's, unless nobody told the user.
ShownOwn ==
  \A u \in HostUsers : shown[u] # NoHost =>
    /\ \E p \in approved : p[2] = shown[u]
    /\ login[u] = 0 \/ u \in untold \/ fakehost[login[u]] \in {NoHost, shown[u]}

HostInv == AccountsSound /\ HostsApproved /\ ShownOwn

LEMMA WearShows ==
  ASSUME NEW us, NEW v, Wear(us, v)
  PROVE  /\ shown' = [u \in HostUsers |-> shown'[u]]
         /\ \A u \in HostUsers : shown'[u] = IF u \in us THEN v ELSE shown[u]
  BY DEF Wear

\* The command leaves accounts and their hosts alone, and shows a host of the account or none.
LEMMA ShowKeeps ==
  ASSUME HostInv, NEW us, NEW v, Wear(us, v), Told(us), UNCHANGED <<nickVars, fakehost, approved>>,
         v = NoHost \/ \A u \in us : u \in HostUsers => login[u] # 0 /\ fakehost[login[u]] = v
  PROVE  HostInv'
  <1>1. UNCHANGED <<owner, login, accounts, fakehost, approved>> /\ untold' = untold \ us
    BY DEF nickVars, Told
  <1>2. AccountsSound'
    BY <1>1, WearShows DEF HostInv, AccountsSound
  <1>3. HostsApproved'
    BY <1>1 DEF HostInv, HostsApproved
  <1>4. ASSUME NEW u \in HostUsers, shown'[u] # NoHost
        PROVE  /\ \E p \in approved : p[2] = shown'[u]
               /\ login[u] = 0 \/ u \in untold' \/ fakehost[login[u]] \in {NoHost, shown'[u]}
    <2>1. CASE u \in us
      <3>1. shown'[u] = v /\ v # NoHost
        BY <1>4, <2>1, WearShows
      <3>2. login[u] # 0 /\ fakehost[login[u]] = v
        BY <2>1, <3>1
      <3>3. login[u] \in DOMAIN fakehost
        BY <3>2 DEF HostInv, AccountsSound
      <3>4. <<login[u], v>> \in approved
        BY <3>1, <3>2, <3>3 DEF HostInv, HostsApproved
      <3> QED BY <3>1, <3>2, <3>4
    <2>2. CASE u \notin us
      <3>1. shown'[u] = shown[u] /\ (u \in untold => u \in untold')
        BY <1>1, <2>2, WearShows
      <3> QED BY <1>4, <3>1 DEF HostInv, ShownOwn
    <2> QED BY <2>1, <2>2
  <1>5. ShownOwn'
    BY <1>1, <1>4 DEF ShownOwn
  <1> QED BY <1>2, <1>3, <1>5 DEF HostInv

\* Account n is given host v, and sessions us of it show that; the others were not told.
LEMMA GiveKeeps ==
  ASSUME HostInv, NEW n \in DOMAIN fakehost, NEW us, NEW v, Wear(us, v), UNCHANGED nickVars,
         fakehost' = [fakehost EXCEPT ![n] = v], approved' = approved \cup {<<n, v>>},
         \A u \in HostUsers : u \in us => login[u] = n,
         \A u \in HostUsers : login[u] = n => u \in us \/ u \in untold',
         \A u \in HostUsers : u \in untold => u \in us \/ u \in untold'
  PROVE  HostInv'
  <1>1. UNCHANGED <<owner, login, accounts>>
    BY DEF nickVars
  <1>2. /\ DOMAIN fakehost' = DOMAIN fakehost /\ fakehost' = [m \in DOMAIN fakehost' |-> fakehost'[m]]
        /\ fakehost'[n] = v /\ \A m \in DOMAIN fakehost : m # n => fakehost'[m] = fakehost[m]
    BY ZenonT(30) DEF HostInv, AccountsSound
  <1>3. AccountsSound'
    BY <1>1, <1>2, WearShows DEF HostInv, AccountsSound
  <1>4. HostsApproved'
    BY <1>2 DEF HostInv, HostsApproved
  <1>5. ASSUME NEW u \in HostUsers, shown'[u] # NoHost
        PROVE  /\ \E p \in approved' : p[2] = shown'[u]
               /\ login[u] = 0 \/ u \in untold' \/ fakehost'[login[u]] \in {NoHost, shown'[u]}
    <2>1. CASE u \in us
      <3>1. shown'[u] = v /\ login[u] = n
        BY <2>1, WearShows
      <3>2. <<n, v>> \in approved' /\ <<n, v>>[2] = v
        OBVIOUS
      <3> QED BY <1>2, <3>1, <3>2
    <2>2. CASE u \notin us
      <3>1. shown'[u] = shown[u]
        BY <2>2, WearShows
      <3>2. \E p \in approved : p[2] = shown[u]
        BY <1>5, <3>1 DEF HostInv, ShownOwn
      <3>3. ASSUME login[u] # 0, u \notin untold' PROVE fakehost'[login[u]] \in {NoHost, shown[u]}
        <4>1. login[u] # n /\ login[u] \in DOMAIN fakehost /\ u \notin untold
          BY <2>2, <3>3 DEF HostInv, AccountsSound
        <4>2. fakehost[login[u]] \in {NoHost, shown[u]}
          BY <1>5, <3>1, <3>3, <4>1 DEF HostInv, ShownOwn
        <4> QED BY <1>2, <4>1, <4>2
      <3> QED BY <3>1, <3>2, <3>3
    <2> QED BY <2>1, <2>2
  <1>6. ShownOwn'
    BY <1>1, <1>5 DEF ShownOwn
  <1> QED BY <1>3, <1>4, <1>6 DEF HostInv

\* Nothing that HostServ or an account shows or has changes.
LEMMA RequestsKeep ==
  ASSUME HostInv, UNCHANGED <<nickVars, fakehost, shown, approved, untold>>
  PROVE  HostInv'
  <1>1. UNCHANGED <<owner, login, accounts, fakehost, shown, approved, untold>>
    BY DEF nickVars
  <1> QED BY <1>1 DEF HostInv, AccountsSound, HostsApproved, ShownOwn

LEMMA OwnerHasHost ==
  ASSUME HostInv, NEW h \in DOMAIN owner
  PROVE  owner[h] \in DOMAIN fakehost /\ owner[h] # 0
  <1>1. owner[h] \in 1..accounts /\ accounts \in Nat
    BY DEF HostInv, AccountsSound
  <1> QED BY <1>1 DEF HostInv, AccountsSound

\* A user logs in, logs out or is replaced by another: the handlers run with the new account.
LEMMA LoginKeeps ==
  ASSUME HostInv, NEW u \in HostUsers, NEW n, n = 0 \/ n \in DOMAIN fakehost,
         login' = [login EXCEPT ![u] = n], hostserv_check_auth(u, n),
         Told({u}), UNCHANGED <<owner, accounts, fakehost, approved>>
  PROVE  HostInv'
  <1>0. \A x \in HostUsers : x # u /\ x \in untold => x \in untold'
    BY DEF Told
  <1>1. login' = [x \in HostUsers |-> login'[x]] /\ login'[u] = n /\ \A x \in HostUsers : x # u => login'[x] = login[x]
    BY DEF HostInv, AccountsSound
  <1>2. /\ shown' = [x \in HostUsers |-> shown'[x]]
        /\ \A x \in HostUsers : shown'[x] = IF x = u /\ n # 0 /\ fakehost[n] # NoHost THEN fakehost[n] ELSE shown[x]
    <2>1. CASE n # 0 /\ fakehost[n] # NoHost
      <3>1. Wear({u}, fakehost[n])
        BY <2>1 DEF hostserv_check_auth
      <3> QED BY <2>1, <3>1, WearShows
    <2>2. CASE ~(n # 0 /\ fakehost[n] # NoHost)
      <3>1. shown' = shown
        BY <2>2 DEF hostserv_check_auth
      <3> QED BY <2>2, <3>1 DEF HostInv, AccountsSound
    <2> QED BY <2>1, <2>2
  <1>3. AccountsSound'
    BY <1>1, <1>2 DEF HostInv, AccountsSound
  <1>4. HostsApproved'
    BY DEF HostInv, HostsApproved
  <1>5. ASSUME NEW x \in HostUsers, shown'[x] # NoHost
        PROVE  /\ \E p \in approved : p[2] = shown'[x]
               /\ login'[x] = 0 \/ x \in untold' \/ fakehost[login'[x]] \in {NoHost, shown'[x]}
    <2>1. CASE x = u /\ n # 0 /\ fakehost[n] # NoHost
      <3>1. shown'[x] = fakehost[n] /\ login'[x] = n
        BY <1>1, <1>2, <2>1
      <3>2. <<n, fakehost[n]>> \in approved
        BY <2>1 DEF HostInv, HostsApproved
      <3> QED BY <3>1, <3>2
    <2>2. CASE ~(x = u /\ n # 0 /\ fakehost[n] # NoHost)
      <3>1. shown'[x] = shown[x]
        BY <1>2, <2>2
      <3>2. CASE x = u
        <4>1. login'[x] = 0 \/ fakehost[login'[x]] = NoHost
          BY <1>1, <2>2, <3>2
        <4> QED BY <1>5, <3>1, <4>1 DEF HostInv, ShownOwn
      <3>3. CASE x # u
        BY <1>0, <1>1, <1>5, <3>1, <3>3 DEF HostInv, ShownOwn
      <3> QED BY <3>2, <3>3
    <2> QED BY <2>1, <2>2
  <1>6. ShownOwn'
    BY <1>5 DEF ShownOwn
  <1> QED BY <1>3, <1>4, <1>6 DEF HostInv

\* A new number, an end of one or another name for one.
LEMMA RegisterKeeps ==
  ASSUME HostInv, NEW h, RegisterAccount(h)
  PROVE  HostInv'
  <1> DEFINE n == accounts + 1
  <1>1. /\ h \notin DOMAIN owner /\ accounts' = n
        /\ owner' = SetAt(owner, h, n) /\ fakehost' = SetAt(fakehost, n, NoHost)
        /\ UNCHANGED <<login, shown, approved, untold>>
    BY DEF RegisterAccount
  <1>2. accounts \in Nat /\ n \in Nat /\ n # 0 /\ n \in 1..n
    BY DEF HostInv, AccountsSound
  <1>3. \A k \in DOMAIN owner : owner[k] # n /\ owner[k] \in 1..n
    <2> SUFFICES ASSUME NEW k \in DOMAIN owner PROVE owner[k] # n /\ owner[k] \in 1..n
      OBVIOUS
    <2>1. owner[k] \in 1..accounts
      BY DEF HostInv, AccountsSound
    <2> QED BY <1>2, <2>1
  <1>4. n \notin DOMAIN fakehost
    BY <1>3 DEF HostInv, AccountsSound
  <1> HIDE DEF n
  <1>5. /\ DOMAIN owner' = DOMAIN owner \union {h} /\ owner' = [k \in DOMAIN owner' |-> owner'[k]]
        /\ owner'[h] = n /\ \A k \in DOMAIN owner : owner'[k] = owner[k]
    BY <1>1 DEF SetAt
  <1>6. /\ DOMAIN fakehost' = DOMAIN fakehost \union {n} /\ fakehost' = [k \in DOMAIN fakehost' |-> fakehost'[k]]
        /\ fakehost'[n] = NoHost /\ \A k \in DOMAIN fakehost : fakehost'[k] = fakehost[k]
    BY <1>1, <1>4 DEF SetAt
  <1>7. AccountsSound'
    <2>1. \A k \in DOMAIN owner' : owner'[k] \in 1..accounts'
      BY <1>1, <1>2, <1>3, <1>5
    <2>2. \A k, l \in DOMAIN owner' : owner'[k] = owner'[l] => k = l
      BY <1>3, <1>5 DEF HostInv, AccountsSound
    <2>3. DOMAIN fakehost' = {owner'[k] : k \in DOMAIN owner'}
      BY <1>5, <1>6 DEF HostInv, AccountsSound
    <2> QED BY <1>1, <1>2, <1>5, <1>6, <2>1, <2>2, <2>3 DEF HostInv, AccountsSound
  <1>8. HostsApproved'
    BY <1>1, <1>6 DEF HostInv, HostsApproved
  <1>9. ShownOwn'
    BY <1>1, <1>6 DEF HostInv, AccountsSound, ShownOwn
  <1> QED BY <1>7, <1>8, <1>9 DEF HostInv

LEMMA UnregisterKeeps ==
  ASSUME HostInv, NEW h, UnregisterAccount(h)
  PROVE  HostInv'
  <1> DEFINE n == owner[h]
  <1>1. /\ h \in DOMAIN owner
        /\ owner' = Restrict(owner, DOMAIN owner \ {h}) /\ fakehost' = Restrict(fakehost, DOMAIN fakehost \ {n})
        /\ login' = [u \in HostUsers |-> IF login[u] = n THEN 0 ELSE login[u]]
        /\ UNCHANGED <<accounts, shown, approved, untold>>
    BY DEF UnregisterAccount
  <1>2. \A k \in DOMAIN owner : k # h => owner[k] # n
    BY <1>1 DEF HostInv, AccountsSound
  <1> HIDE DEF n
  <1>3. /\ DOMAIN owner' = DOMAIN owner \ {h} /\ owner' = [k \in DOMAIN owner' |-> owner'[k]]
        /\ \A k \in DOMAIN owner' : owner'[k] = owner[k]
    BY <1>1 DEF Restrict
  <1>4. /\ DOMAIN fakehost' = DOMAIN fakehost \ {n} /\ fakehost' = [k \in DOMAIN fakehost' |-> fakehost'[k]]
        /\ \A k \in DOMAIN fakehost' : fakehost'[k] = fakehost[k]
    BY <1>1 DEF Restrict
  <1>5. DOMAIN fakehost' = {owner'[k] : k \in DOMAIN owner'}
    <2>1. DOMAIN fakehost = {owner[k] : k \in DOMAIN owner}
      BY DEF HostInv, AccountsSound
    <2>2. n = owner[h]
      BY DEF n
    <2>3. ASSUME NEW m \in DOMAIN fakehost' PROVE m \in {owner'[k] : k \in DOMAIN owner'}
      <3>1. PICK k \in DOMAIN owner : m = owner[k]
        BY <1>4, <2>1
      <3>2. k # h
        BY <1>4, <2>2, <3>1
      <3> QED BY <1>3, <3>1, <3>2
    <2>4. ASSUME NEW k \in DOMAIN owner' PROVE owner'[k] \in DOMAIN fakehost'
      BY <1>2, <1>3, <1>4, <2>1
    <2> QED BY <2>3, <2>4
  <1>6. \A u \in HostUsers : login'[u] = 0 \/ (login'[u] = login[u] /\ login[u] \in DOMAIN fakehost')
    BY <1>1, <1>4 DEF HostInv, AccountsSound
  <1>7. AccountsSound'
    <2>1. /\ accounts' \in Nat
          /\ owner' = [k \in DOMAIN owner' |-> owner'[k]] /\ \A k \in DOMAIN owner' : owner'[k] \in 1..accounts'
          /\ \A k, m \in DOMAIN owner' : owner'[k] = owner'[m] => k = m
      BY <1>1, <1>3, ZenonT(30) DEF HostInv, AccountsSound
    <2>2. /\ login' = [u \in HostUsers |-> login'[u]] /\ shown' = [u \in HostUsers |-> shown'[u]]
          /\ \A u \in HostUsers : login'[u] = 0 \/ login'[u] \in DOMAIN fakehost'
      BY <1>1, <1>6 DEF HostInv, AccountsSound
    <2> QED BY <1>4, <1>5, <2>1, <2>2 DEF AccountsSound
  <1>8. HostsApproved'
    BY <1>1, <1>4 DEF HostInv, HostsApproved
  <1>9. ShownOwn'
    BY <1>1, <1>4, <1>6 DEF HostInv, ShownOwn
  <1> QED BY <1>7, <1>8, <1>9 DEF HostInv

LEMMA AccountRenameKeeps ==
  ASSUME HostInv, NEW h, NEW k, RenameAccount(h, k)
  PROVE  HostInv'
  <1>1. /\ h \in DOMAIN owner /\ k \notin DOMAIN owner
        /\ owner' = SetAt(Restrict(owner, DOMAIN owner \ {h}), k, owner[h])
        /\ UNCHANGED <<login, accounts, fakehost, shown, approved, untold>>
    BY DEF RenameAccount
  <1>2. /\ DOMAIN owner' = (DOMAIN owner \ {h}) \union {k} /\ owner' = [x \in DOMAIN owner' |-> owner'[x]]
        /\ owner'[k] = owner[h] /\ \A x \in DOMAIN owner \ {h} : owner'[x] = owner[x]
    BY <1>1 DEF SetAt, Restrict
  <1>3. ASSUME NEW x \in DOMAIN owner', NEW y \in DOMAIN owner', owner'[x] = owner'[y] PROVE x = y
    <2>1. \A a, b \in DOMAIN owner : owner[a] = owner[b] => a = b
      BY DEF HostInv, AccountsSound
    <2>2. CASE x = k /\ y # k
      BY <1>1, <1>2, <1>3, <2>1, <2>2
    <2>3. CASE x # k /\ y = k
      BY <1>1, <1>2, <1>3, <2>1, <2>3
    <2>4. CASE x # k /\ y # k
      BY <1>1, <1>2, <1>3, <2>1, <2>4
    <2> QED BY <2>2, <2>3, <2>4
  <1>4. {owner'[x] : x \in DOMAIN owner'} = {owner[x] : x \in DOMAIN owner}
    BY <1>1, <1>2
  <1>5. \A x \in DOMAIN owner' : owner'[x] \in 1..accounts
    BY <1>1, <1>2 DEF HostInv, AccountsSound
  <1>6. DOMAIN fakehost' = {owner'[x] : x \in DOMAIN owner'}
    BY <1>1, <1>4 DEF HostInv, AccountsSound
  <1>7. AccountsSound'
    <2>1. /\ accounts' \in Nat /\ fakehost' = [n \in DOMAIN fakehost' |-> fakehost'[n]]
          /\ login' = [u \in HostUsers |-> login'[u]]
          /\ \A u \in HostUsers : login'[u] = 0 \/ login'[u] \in DOMAIN fakehost'
          /\ shown' = [u \in HostUsers |-> shown'[u]]
      BY <1>1 DEF HostInv, AccountsSound
    <2>2. \A x \in DOMAIN owner' : owner'[x] \in 1..accounts'
      BY <1>1, <1>5
    <2>3. \A x, y \in DOMAIN owner' : owner'[x] = owner'[y] => x = y
      BY <1>3
    <2>4. owner' = [x \in DOMAIN owner' |-> owner'[x]]
      BY <1>2
    <2> QED BY <1>6, <2>1, <2>2, <2>3, <2>4 DEF AccountsSound
  <1> QED BY <1>1, <1>7 DEF HostInv, HostsApproved, ShownOwn

\* Sessions are moved to account n: they, and all of its sessions if it inherits a host, were not told.
LEMMA MergeKeeps ==
  ASSUME HostInv, NEW h, NEW k, MergeAccounts(h, k)
  PROVE  HostInv'
  <1> DEFINE m == owner[h]
             n == owner[k]
             carried == fakehost[m] # NoHost /\ fakehost[n] = NoHost
  <1>1. /\ h # k /\ h \in DOMAIN owner /\ k \in DOMAIN owner
        /\ owner' = Restrict(owner, DOMAIN owner \ {h})
        /\ login' = [u \in HostUsers |-> IF login[u] = m THEN n ELSE login[u]]
        /\ fakehost' = [x \in DOMAIN fakehost \ {m} |-> IF x = n /\ carried THEN fakehost[m] ELSE fakehost[x]]
        /\ approved' = IF carried THEN approved \cup {<<n, fakehost[m]>>} ELSE approved
        /\ untold' = untold \cup Sessions(m) \cup (IF carried THEN Sessions(n) ELSE {})
        /\ UNCHANGED <<accounts, shown>>
    BY DEF MergeAccounts
  <1>2. /\ \A x \in DOMAIN owner : x # h => owner[x] # m
        /\ n # m /\ m \in DOMAIN fakehost /\ n \in DOMAIN fakehost /\ n # 0
    BY <1>1, OwnerHasHost DEF HostInv, AccountsSound
  <1> HIDE DEF m, n
  <1>3. /\ DOMAIN owner' = DOMAIN owner \ {h} /\ owner' = [x \in DOMAIN owner' |-> owner'[x]]
        /\ \A x \in DOMAIN owner' : owner'[x] = owner[x]
    BY <1>1 DEF Restrict
  <1>4. /\ DOMAIN fakehost' = DOMAIN fakehost \ {m} /\ fakehost' = [x \in DOMAIN fakehost' |-> fakehost'[x]]
        /\ \A x \in DOMAIN fakehost' : fakehost'[x] = IF x = n /\ carried THEN fakehost[m] ELSE fakehost[x]
    BY <1>1
  <1>5. DOMAIN fakehost' = {owner'[x] : x \in DOMAIN owner'}
    <2>1. DOMAIN fakehost = {owner[x] : x \in DOMAIN owner} /\ m = owner[h]
      BY DEF HostInv, AccountsSound, m
    <2>2. ASSUME NEW y \in DOMAIN fakehost' PROVE y \in {owner'[x] : x \in DOMAIN owner'}
      <3>1. PICK x \in DOMAIN owner : y = owner[x]
        BY <1>4, <2>1
      <3>2. x # h
        BY <1>4, <2>1, <3>1
      <3> QED BY <1>3, <3>1, <3>2
    <2>3. ASSUME NEW x \in DOMAIN owner' PROVE owner'[x] \in DOMAIN fakehost'
      BY <1>2, <1>3, <1>4, <2>1
    <2> QED BY <2>2, <2>3
  <1>6. \A u \in HostUsers : /\ login[u] = m => login'[u] = n /\ u \in untold'
                             /\ login[u] # m => login'[u] = login[u]
                             /\ login[u] = n /\ carried => u \in untold'
                             /\ u \in untold => u \in untold'
    BY <1>1 DEF Sessions
  <1>7. AccountsSound'
    <2>1. /\ accounts' \in Nat
          /\ owner' = [x \in DOMAIN owner' |-> owner'[x]] /\ \A x \in DOMAIN owner' : owner'[x] \in 1..accounts'
          /\ \A x, y \in DOMAIN owner' : owner'[x] = owner'[y] => x = y
      BY <1>1, <1>3, ZenonT(30) DEF HostInv, AccountsSound
    <2>2. \A u \in HostUsers : login'[u] = 0 \/ login'[u] \in DOMAIN fakehost'
      BY <1>2, <1>4, <1>6 DEF HostInv, AccountsSound
    <2>3. login' = [u \in HostUsers |-> login'[u]] /\ shown' = [u \in HostUsers |-> shown'[u]]
      BY <1>1 DEF HostInv, AccountsSound
    <2> QED BY <1>4, <1>5, <2>1, <2>2, <2>3 DEF AccountsSound
  <1>8. HostsApproved'
    <2> SUFFICES ASSUME NEW x \in DOMAIN fakehost', fakehost'[x] # NoHost PROVE <<x, fakehost'[x]>> \in approved'
      BY DEF HostsApproved
    <2>1. CASE x = n /\ carried
      BY <1>1, <1>4, <2>1
    <2>2. CASE ~(x = n /\ carried)
      <3>1. fakehost'[x] = fakehost[x] /\ x \in DOMAIN fakehost
        BY <1>4, <2>2
      <3>2. <<x, fakehost[x]>> \in approved
        BY <3>1 DEF HostInv, HostsApproved
      <3> QED BY <1>1, <3>1, <3>2
    <2> QED BY <2>1, <2>2
  <1>9. ShownOwn'
    <2> SUFFICES ASSUME NEW u \in HostUsers, shown'[u] # NoHost
                 PROVE  /\ \E p \in approved' : p[2] = shown'[u]
                        /\ login'[u] = 0 \/ u \in untold' \/ fakehost'[login'[u]] \in {NoHost, shown'[u]}
      BY DEF ShownOwn
    <2>1. shown'[u] = shown[u]
      BY <1>1
    <2>2. PICK p \in approved : p[2] = shown[u]
      BY <2>1 DEF HostInv, ShownOwn
    <2>3. p \in approved'
      BY <1>1, <2>2
    <2>4. ASSUME login'[u] # 0, u \notin untold' PROVE fakehost'[login'[u]] \in {NoHost, shown[u]}
      <3>1. login'[u] = login[u] /\ login[u] # m /\ ~(login[u] = n /\ carried) /\ u \notin untold
        BY <1>6, <2>4
      <3>2. login[u] \in DOMAIN fakehost'
        BY <1>4, <2>4, <3>1 DEF HostInv, AccountsSound
      <3>3. fakehost'[login[u]] = fakehost[login[u]]
        BY <1>4, <3>1, <3>2
      <3> QED BY <2>1, <2>4, <3>1, <3>3 DEF HostInv, ShownOwn
    <2> QED BY <2>1, <2>2, <2>3, <2>4
  <1> QED BY <1>7, <1>8, <1>9 DEF HostInv

LEMMA HostStep ==
  ASSUME HostInv, [HostNext]_hostVars
  PROVE  HostInv'
  <1>1. ASSUME NEW u \in HostUsers, cmd_on(u) PROVE HostInv'
    <2>1. Wear({u}, fakehost[login[u]]) /\ Told({u}) /\ login[u] # 0 /\ UNCHANGED <<nickVars, fakehost, approved>>
      BY <1>1 DEF cmd_on
    <2> QED BY <2>1, ShowKeeps
  <1>2. ASSUME NEW u \in HostUsers, cmd_off(u) PROVE HostInv'
    <2>1. Wear({u}, NoHost) /\ Told({u}) /\ UNCHANGED <<nickVars, fakehost, approved>>
      BY <1>2 DEF cmd_off
    <2> QED BY <2>1, ShowKeeps
  <1>3. ASSUME NEW u \in HostUsers, cmd_group(u) PROVE HostInv'
    <2>1. /\ Wear(Sessions(login[u]), fakehost[login[u]]) /\ Told(Sessions(login[u]))
          /\ login[u] # 0 /\ UNCHANGED <<nickVars, fakehost, approved>>
      BY <1>3 DEF cmd_group
    <2>2. \A x \in Sessions(login[u]) : login[x] = login[u]
      BY DEF Sessions
    <2> QED BY <2>1, <2>2, ShowKeeps
  <1>4. ASSUME NEW h, NEW v, cmd_set(h, v) PROVE HostInv'
    <2>1. /\ h \in DOMAIN owner /\ Wear(Sessions(owner[h]), v) /\ UNCHANGED nickVars
          /\ fakehost' = [fakehost EXCEPT ![owner[h]] = v] /\ approved' = approved \cup {<<owner[h], v>>}
          /\ Told(Sessions(owner[h]))
      BY <1>4 DEF cmd_set
    <2>2. \A u \in HostUsers : u \in Sessions(owner[h]) <=> login[u] = owner[h]
      BY DEF Sessions
    <2>3. owner[h] \in DOMAIN fakehost
      BY <2>1, OwnerHasHost
    <2> QED BY <2>1, <2>2, <2>3, GiveKeeps DEF Told
  <1>5. ASSUME NEW h, cmd_del(h) PROVE HostInv'
    <2>1. /\ h \in DOMAIN owner /\ Wear(Sessions(owner[h]), NoHost) /\ UNCHANGED <<owner, login, accounts, approved>>
          /\ fakehost' = [fakehost EXCEPT ![owner[h]] = NoHost] /\ Told(Sessions(owner[h]))
      BY <1>5 DEF cmd_del, nickVars
    <2>2. \A u \in HostUsers : u \in Sessions(owner[h]) <=> login[u] = owner[h]
      BY DEF Sessions
    <2>3. /\ DOMAIN fakehost' = DOMAIN fakehost /\ fakehost' = [m \in DOMAIN fakehost' |-> fakehost'[m]]
          /\ \A m \in DOMAIN fakehost : fakehost'[m] = fakehost[m] \/ (m = owner[h] /\ fakehost'[m] = NoHost)
      BY <2>1 DEF HostInv, AccountsSound
    <2>4. AccountsSound'
      BY <2>1, <2>3, WearShows DEF HostInv, AccountsSound
    <2>5. HostsApproved'
      BY <2>1, <2>3 DEF HostInv, HostsApproved
    <2>6. \A u \in HostUsers : shown'[u] = NoHost \/ (shown'[u] = shown[u] /\ login[u] # owner[h])
      BY <2>1, <2>2, WearShows
    <2>7. \A u \in HostUsers : login[u] # 0 => login[u] \in DOMAIN fakehost
      BY DEF HostInv, AccountsSound
    <2>8. ShownOwn'
      <3>1. \A u \in HostUsers : u \in untold /\ login[u] # owner[h] => u \in untold'
        BY <2>1, <2>2 DEF Told
      <3>2. ASSUME NEW u \in HostUsers, shown'[u] # NoHost
            PROVE  /\ \E p \in approved : p[2] = shown'[u]
                   /\ login[u] = 0 \/ u \in untold' \/ fakehost'[login[u]] \in {NoHost, shown'[u]}
        <4>1. shown'[u] = shown[u] /\ login[u] # owner[h]
          BY <2>6, <3>2
        <4>2. login[u] # 0 => fakehost'[login[u]] = fakehost[login[u]]
          BY <2>3, <2>7, <4>1
        <4> QED BY <3>1, <3>2, <4>1, <4>2 DEF HostInv, ShownOwn
      <3> QED BY <2>1, <3>2 DEF ShownOwn
    <2> QED BY <2>4, <2>5, <2>8 DEF HostInv
  <1>6. ASSUME NEW u \in HostUsers, NEW v, cmd_request(u, v) PROVE HostInv'
    <2>1. CASE require_approval
      <3>1. UNCHANGED <<nickVars, fakehost, shown, approved, untold>>
        BY <1>6, <2>1 DEF cmd_request
      <3> QED BY <3>1, RequestsKeep
    <2>2. CASE ~require_approval
      <3>1. /\ login[u] # 0 /\ Wear({u}, v) /\ UNCHANGED nickVars
            /\ fakehost' = [fakehost EXCEPT ![login[u]] = v] /\ approved' = approved \cup {<<login[u], v>>}
            /\ untold' = (untold \cup Sessions(login[u])) \ {u}
        BY <1>6, <2>2 DEF cmd_request
      <3>2. login[u] \in DOMAIN fakehost
        BY <3>1 DEF HostInv, AccountsSound
      <3>3. /\ \A x \in HostUsers : x \in {u} => login[x] = login[u]
            /\ \A x \in HostUsers : login[x] = login[u] => x \in {u} \/ x \in untold'
            /\ \A x \in HostUsers : x \in untold => x \in {u} \/ x \in untold'
        BY <3>1 DEF Sessions
      <3> QED BY <3>1, <3>2, <3>3, GiveKeeps
    <2> QED BY <2>1, <2>2
  <1>7. ASSUME NEW h, cmd_activate(h) PROVE HostInv'
    <2> DEFINE v == hostserv_requests[h].vhost
    <2>1. /\ h \in DOMAIN owner /\ Wear(Sessions(owner[h]), v) /\ UNCHANGED nickVars
          /\ fakehost' = [fakehost EXCEPT ![owner[h]] = v] /\ approved' = approved \cup {<<owner[h], v>>}
          /\ Told(Sessions(owner[h]))
      BY <1>7 DEF cmd_activate
    <2>2. \A u \in HostUsers : u \in Sessions(owner[h]) <=> login[u] = owner[h]
      BY DEF Sessions
    <2>3. owner[h] \in DOMAIN fakehost
      BY <2>1, OwnerHasHost
    <2> HIDE DEF v
    <2> QED BY <2>1, <2>2, <2>3, GiveKeeps DEF Told
  <1>8. ASSUME NEW h, NEW v, cmd_reject(h) \/ cmd_offer(v) \/ cmd_offerdel(v) PROVE HostInv'
    <2>1. UNCHANGED <<nickVars, fakehost, shown, approved, untold>>
      BY <1>8 DEF cmd_reject, cmd_offer, cmd_offerdel
    <2> QED BY <2>1, RequestsKeep
  <1>9. ASSUME NEW u \in HostUsers, NEW h, HostLogIn(u, h) PROVE HostInv'
    <2>1. /\ h \in DOMAIN owner /\ login' = [login EXCEPT ![u] = owner[h]] /\ hostserv_check_auth(u, owner[h])
          /\ Told({u}) /\ UNCHANGED <<owner, accounts, fakehost, approved>>
      BY <1>9 DEF HostLogIn
    <2>2. owner[h] \in DOMAIN fakehost
      BY <2>1, OwnerHasHost
    <2> QED BY <2>1, <2>2, LoginKeeps
  <1>10. ASSUME NEW u \in HostUsers, HostLogOut(u) PROVE HostInv'
    <2>1. /\ login' = [login EXCEPT ![u] = 0] /\ hostserv_check_auth(u, 0)
          /\ Told({u}) /\ UNCHANGED <<owner, accounts, fakehost, approved>>
      BY <1>10 DEF HostLogOut
    <2> QED BY <2>1, LoginKeeps
  <1>11. ASSUME NEW u \in HostUsers, Reconnect(u) PROVE HostInv'
    <2>1. /\ login' = [login EXCEPT ![u] = 0] /\ Wear({u}, NoHost) /\ Told({u}) /\ UNCHANGED <<owner, accounts, fakehost, approved>>
      BY <1>11 DEF Reconnect
    <2>2. /\ login' = [x \in HostUsers |-> login'[x]] /\ login'[u] = 0
          /\ \A x \in HostUsers : x # u => login'[x] = login[x]
      BY <2>1 DEF HostInv, AccountsSound
    <2>3. AccountsSound'
      BY <2>1, <2>2, WearShows DEF HostInv, AccountsSound
    <2>4. \A x \in HostUsers : shown'[x] = NoHost \/ (x # u /\ shown'[x] = shown[x])
      BY <2>1, WearShows
    <2>5. ShownOwn'
      BY <2>1, <2>2, <2>4 DEF HostInv, ShownOwn, Told
    <2> QED BY <2>1, <2>3, <2>5 DEF HostInv, HostsApproved
  <1>12. CASE hostserv_saxdb_read
    <2>1. /\ login' = [u \in HostUsers |-> 0] /\ shown' = [u \in HostUsers |-> NoHost]
          /\ UNCHANGED <<owner, accounts, fakehost, approved, untold>>
      BY <1>12 DEF hostserv_saxdb_read
    <2> QED BY <2>1 DEF HostInv, AccountsSound, HostsApproved, ShownOwn
  <1>13. CASE UNCHANGED hostVars
    <2>1. UNCHANGED <<nickVars, fakehost, shown, approved, untold>>
      BY <1>13 DEF hostVars, nickVars
    <2> QED BY <2>1, RequestsKeep
  <1> QED BY <1>1, <1>2, <1>3, <1>4, <1>5, <1>6, <1>7, <1>8, <1>9, <1>10, <1>11, <1>12, <1>13,
             RegisterKeeps, UnregisterKeeps, AccountRenameKeeps, MergeKeeps DEF HostNext

\* A virtual host that is shown was given to an account, and a logged-in user shows its account's or
\* none if that has one, but for the users nobody told of a change: for any users, accounts and
\* hosts, through renames, merges, unregistrations, logins from one account to another and restarts
\* (hostserv_check_auth, cmd_set, cmd_merge).
THEOREM HostsStayApproved == HostSpec => []ShownApproved
  <1>1. HostInit => HostInv
    <2> HAVE HostInit
    <2>1. AccountsSound
      BY DEF HostInit, AccountsSound, Unset
    <2>2. HostsApproved
      BY DEF HostInit, HostsApproved, Unset
    <2>3. ShownOwn
      BY DEF HostInit, ShownOwn
    <2> QED BY <2>1, <2>2, <2>3 DEF HostInv
  <1>2. HostInv /\ [HostNext]_hostVars => HostInv'
    BY HostStep
  <1>3. HostInv => ShownApproved
    <2> SUFFICES ASSUME HostInv, NEW u \in HostUsers, shown[u] # NoHost
                 PROVE  /\ \E p \in approved : p[2] = shown[u]
                        /\ login[u] # 0 /\ u \notin untold /\ fakehost[login[u]] # NoHost =>
                              shown[u] = fakehost[login[u]] /\ <<login[u], shown[u]>> \in approved
      BY DEF ShownApproved
    <2>1. /\ \E p \in approved : p[2] = shown[u]
          /\ login[u] = 0 \/ u \in untold \/ fakehost[login[u]] \in {NoHost, shown[u]}
      BY DEF HostInv, ShownOwn
    <2>2. login[u] # 0 => login[u] \in DOMAIN fakehost
      BY DEF HostInv, AccountsSound
    <2>3. login[u] \in DOMAIN fakehost /\ fakehost[login[u]] # NoHost => <<login[u], fakehost[login[u]]>> \in approved
      BY DEF HostInv, HostsApproved
    <2> QED BY <2>1, <2>2, <2>3
  <1> QED BY <1>1, <1>2, <1>3, PTL DEF HostSpec

-----------------------------------------------------------------------------
(* Shuns.  Every step on the list is a step of module Gline on the list of *)
(* shuns, whose bookkeeping is proved there.                               *)

ShunInv == G!IndInv /\ shuns \subseteq Targets

LEMMA ShunsAreGlines ==
  ASSUME ShunInv, [ShunNext]_shunVars
  PROVE  [G!Next]_(G!vars) /\ shuns' \subseteq Targets
  <1>1. CASE /\ shuns = {} /\ UNCHANGED shuns
             /\ \/ \E t \in Targets, e \in Times : shun_add(t, e)
                \/ \E t \in Targets : shun_remove(t) \/ shun_add_record(t)
                \/ shun_expire \/ shun_saxdb_write \/ Loop
                \/ \E n \in Times : shun_init(n)
    BY <1>1 DEF shun_add, shun_remove, shun_add_record, shun_expire, shun_saxdb_write, Loop, shun_init, G!Next
  <1>2. ASSUME NEW m, NEW k, NEW min, NEW l, cmd_strace(m, k, min, l)
        PROVE  UNCHANGED G!vars /\ shuns' \subseteq Targets
    <2>1. UNCHANGED shunListVars /\ shuns' \subseteq shun_heap
      BY <1>2 DEF cmd_strace
    <2>2. shun_heap \subseteq Targets
      BY DEF ShunInv, G!IndInv, G!Inv, G!TypeOK
    <2> QED BY <2>1, <2>2 DEF shunListVars, G!vars
  <1>3. ASSUME NEW t \in shuns, Unshun(t), shuns' = shuns \ {t}
        PROVE  G!Next /\ shuns' \subseteq Targets
    BY <1>3 DEF Unshun, shun_remove, G!Next, ShunInv
  <1>4. CASE UNCHANGED shunVars
    BY <1>4 DEF shunVars, shunListVars, G!vars, ShunInv
  <1> QED BY <1>1, <1>2, <1>3, <1>4 DEF ShunNext

LEMMA ShunInvHolds ==
  /\ ShunInit => ShunInv
  /\ ShunInv /\ [ShunNext]_shunVars => ShunInv'
  <1>1. ShunInit => ShunInv
    BY ShunTimes, G!InitIndInv DEF ShunInit, ShunInv
  <1>2. ShunInv /\ [ShunNext]_shunVars => ShunInv'
    <2> SUFFICES ASSUME ShunInv, [ShunNext]_shunVars PROVE ShunInv'
      OBVIOUS
    <2>1. [G!Next]_(G!vars) /\ shuns' \subseteq Targets
      BY ShunsAreGlines
    <2> QED BY <2>1, ShunTimes, G!NextIndInv DEF ShunInv
  <1> QED BY <1>1, <1>2

\* No shun outlives its time and the one timer covers the list, also in the middle of STRACE UNSHUN:
\* for any masks, clocks and mixes of additions, searches and restarts (shun_expire, shun_remove).
THEOREM ShunsStayTimed == ShunSpec => []ShunsTimed
  <1>3. ShunInv => ShunsTimed
    <2> HAVE ShunInv
    <2>1. /\ shun_heap = shun_dict
          /\ shun_heap # {} => \E w \in shunTimers : \A t \in shun_heap : w <= expires[t]
          /\ \A v, w \in shunTimers : v = w
      BY DEF ShunInv, G!IndInv, G!Inv, G!HeapDictAgree, G!TimerArmed, G!OneTimer
    <2>2. phase = "ran" => \A t \in shun_dict : expires[t] > shunNow
      BY DEF ShunInv, G!IndInv, G!NoneExpiredAfterRun
    <2>3. \A t : shun_find(t) \subseteq shun_dict
      BY DEF shun_find
    <2> QED BY <2>1, <2>2, <2>3 DEF ShunsTimed
  <1> QED BY ShunInvHolds, <1>3, PTL DEF ShunSpec

\* The shun list is a G-line list: its every behaviour, with the searches of OpServ and the removals
\* STRACE UNSHUN makes one after the other, is one of module Gline on the shuns (shun.c, gline.c).
THEOREM ShunsImplementGlines == ShunSpec => G!Spec
  <1>1. ShunInit => G!Init
    BY DEF ShunInit
  <1>2. ShunInv /\ [ShunNext]_shunVars => [G!Next]_(G!vars)
    BY ShunsAreGlines
  <1> QED BY ShunInvHolds, <1>1, <1>2, PTL DEF ShunSpec, G!Spec

-----------------------------------------------------------------------------
(* Uplinks.  The current uplink is on the list, and a round from it meets  *)
(* every entry.                                                            *)

UplinkStates == {"DISCONNECTED", "AUTHENTICATING", "BURSTING", "CONNECTED"}
Nodes == [UplinkNames -> [state : UplinkStates, tries : Nat, unavailable : BOOLEAN]]

UplinksTyped ==
  /\ enabled \subseteq UplinkNames
  /\ node \in Nodes /\ uplink \in UplinkNames
  /\ cycles \in Nat /\ socket \in BOOLEAN /\ exited \in BOOLEAN

\* cManager, as uplink_select takes it and returns it.
Managers == [uplink : UplinkNames, cycles : Nat, exited : BOOLEAN]

UplinkInv == UplinksTyped /\ GivesUpLast

LEMMA ListSize == Len(Order) \in Nat \ {0} /\ DOMAIN Order = 1..Len(Order)
  BY OrderListed

LEMMA Remainders ==
  ASSUME NEW l \in Nat \ {0}
  PROVE  /\ \A a \in Int : a % l \in 0..(l - 1)
         /\ \A a \in 0..(l - 1) : a % l = a /\ (a + l) % l = a
  <1>1. \A a \in Int : a % l \in 0..(l - 1)
    OBVIOUS
  <1>2. \A a \in 0..(l - 1) : a % l = a
    OBVIOUS
  <1>3. \A a \in 0..(l - 1) : (a + l) % l = a
    OBVIOUS
  <1> QED BY <1>1, <1>2, <1>3

\* The list is gone round from any entry: every place of it comes up.
LEMMA PlaceMet ==
  ASSUME NEW l \in Nat \ {0}, NEW start \in 1..l, NEW i \in 1..l
  PROVE  \E k \in 1..l : ((start + k - 2) % l) + 1 = i
  <1>1. CASE i >= start
    <2>1. i - start + 1 \in 1..l /\ start + (i - start + 1) - 2 = i - 1 /\ i - 1 \in 0..(l - 1)
      BY <1>1
    <2>2. ((i - 1) % l) + 1 = i
      BY <2>1, Remainders
    <2> QED BY <2>1, <2>2
  <1>2. CASE i < start
    <2>1. i - start + 1 + l \in 1..l /\ start + (i - start + 1 + l) - 2 = (i - 1) + l /\ i - 1 \in 0..(l - 1)
      BY <1>2
    <2>2. (((i - 1) + l) % l) + 1 = i
      BY <2>1, Remainders
    <2> QED BY <2>1, <2>2
  <1> QED BY <1>1, <1>2

LEMMA RoundMeetsAll ==
  ASSUME NEW current \in UplinkNames
  PROVE  /\ \A k \in 1..Len(Order) : Round(current)[k] \in UplinkNames
         /\ \A n \in UplinkNames : \E k \in 1..Len(Order) : Round(current)[k] = n
  <1> DEFINE l == Len(Order)
             at == CHOOSE i \in DOMAIN Order : Order[i] = current
             start == IF current = "none" THEN 1 ELSE (at % l) + 1
  <1>1. l \in Nat \ {0} /\ DOMAIN Order = 1..l
    BY ListSize
  <1>2. at \in DOMAIN Order
    BY DEF UplinkNames
  <1> HIDE DEF at, l
  <1>3. at % l \in 0..(l - 1)
    <2>1. at \in Int
      BY <1>1, <1>2
    <2> QED BY <1>1, <2>1, Remainders
  <1>4. start \in 1..l
    BY <1>1, <1>3
  <1>5. Round(current) = [k \in 1..l |-> Order[((start + k - 2) % l) + 1]]
    BY DEF Round, at, l
  <1> HIDE DEF start
  <1>6. \A k \in 1..l : Round(current)[k] \in UplinkNames
    <2> SUFFICES ASSUME NEW k \in 1..l PROVE Round(current)[k] \in UplinkNames
      OBVIOUS
    <2>1. start + k - 2 \in Int
      BY <1>1, <1>4
    <2>2. (start + k - 2) % l \in 0..(l - 1)
      BY <1>1, <2>1, Remainders
    <2>3. ((start + k - 2) % l) + 1 \in DOMAIN Order
      BY <1>1, <2>2
    <2> QED BY <1>5, <2>3 DEF UplinkNames
  <1>7. ASSUME NEW n \in UplinkNames PROVE \E k \in 1..l : Round(current)[k] = n
    <2>1. PICK i \in 1..l : Order[i] = n
      BY <1>1 DEF UplinkNames
    <2>2. PICK k \in 1..l : ((start + k - 2) % l) + 1 = i
      BY <1>1, <1>4, PlaceMet
    <2> QED BY <1>5, <2>1, <2>2
  <1> QED BY <1>6, <1>7 DEF l

LEMMA NumbersOrdered ==
  \E R : IsWellFoundedOn(R, Nat) /\ \A x, y \in Nat : x < y => <<x, y>> \in R
  <1>1. \A x, y \in Nat : x < y => <<x, y>> \in OpToRel(<, Nat)
    BY DEF OpToRel
  <1> QED BY <1>1, NatLessThanWellFounded

\* Among numbers there is a least, so that the searches of the list end at an entry of it.
LEMMA LeastOf ==
  ASSUME NEW S \in SUBSET Nat, S # {}
  PROVE  \E i \in S : \A j \in S : i <= j
  <1>1. PICK R : IsWellFoundedOn(R, Nat) /\ \A x, y \in Nat : x < y => <<x, y>> \in R
    BY NumbersOrdered
  <1>2. IsWellFoundedOn(R, Nat) /\ S \subseteq Nat
    BY <1>1
  <1>3. \E i \in S : \A j \in S : ~(<<j, i>> \in R)
    BY <1>2, WFMin
  <1>4. PICK i \in S : \A j \in S : ~(<<j, i>> \in R)
    BY <1>3
  <1>5. ASSUME NEW j \in S PROVE i <= j
    <2>1. ~(j < i)
      BY <1>1, <1>4
    <2> QED BY <2>1
  <1> QED BY <1>5

LEMMA FirstEnabled ==
  ASSUME NEW on \in SUBSET UplinkNames, on # {}
  PROVE  (CHOOSE i \in DOMAIN Order : Order[i] \in on /\ \A j \in 1 .. i - 1 : Order[j] \notin on) \in DOMAIN Order
  <1> DEFINE S == {i \in DOMAIN Order : Order[i] \in on}
  <1>1. S \in SUBSET Nat /\ S # {}
    BY ListSize DEF UplinkNames
  <1>2. PICK i \in S : \A j \in S : i <= j
    BY <1>1, LeastOf
  <1>3. i \in DOMAIN Order /\ Order[i] \in on /\ i \in 1..Len(Order) /\ Len(Order) \in Nat
    BY ListSize
  <1>4. ASSUME NEW j \in 1 .. i - 1 PROVE Order[j] \notin on
    <2>1. j \in DOMAIN Order /\ ~(i <= j)
      BY <1>3, ListSize
    <2> QED BY <1>2, <2>1
  <1> QED BY <1>3, <1>4

\* uplink_select stays on the list; it gives up when nothing on it can be taken or after too many rounds.
LEMMA SelectLast ==
  ASSUME NEW m \in Managers, NEW nodes \in Nodes, NEW name
  PROVE  LET r == uplink_select(m, nodes, name)
         IN  /\ r \in Managers
             /\ r.exited => \/ enabled = {} \/ m.exited
                            \/ max_cycles > 0 /\ r.cycles >= max_cycles
                            \/ \A n \in UplinkNames : ~Usable(nodes, n, name)
  <1> DEFINE r     == uplink_select(m, nodes, name)
             found == Candidates(m.uplink, nodes, name)
             k     == CHOOSE i \in found : \A j \in found : i <= j
             whole == found = {} \/ k = Len(Order)
             turns == IF whole THEN m.cycles + 1 ELSE m.cycles
             over  == whole /\ max_cycles > 0 /\ turns >= max_cycles
             stuck == found = {} /\ (m.uplink = "none" \/ nodes[m.uplink].unavailable)
  <1>0. m.uplink \in UplinkNames /\ m.cycles \in Nat /\ m.exited \in BOOLEAN
    BY DEF Managers
  <1>1. found \subseteq 1..Len(Order) /\ found \in SUBSET Nat
    BY ListSize DEF Candidates
  <1>2. found # {} => k \in found
    <2>1. found # {} => \E i \in found : \A j \in found : i <= j
      BY <1>1, LeastOf
    <2> QED BY <2>1
  <1>3. found # {} => Round(m.uplink)[k] \in UplinkNames
    BY <1>0, <1>1, <1>2, RoundMeetsAll
  <1>4. found = {} => \A n \in UplinkNames : ~Usable(nodes, n, name)
    <2>1. \A n \in UplinkNames : \E i \in 1..Len(Order) : Round(m.uplink)[i] = n
      BY <1>0, RoundMeetsAll
    <2> QED BY <2>1 DEF Candidates
  <1>5. CASE enabled = {}
    <2>1. r = [m EXCEPT !.exited = TRUE]
      BY <1>5 DEF uplink_select
    <2>2. r \in Managers
      BY <2>1 DEF Managers
    <2> QED BY <1>5, <2>2
  <1>6. CASE enabled # {}
    <2> DEFINE taken == IF over \/ found = {} THEN m.uplink ELSE Round(m.uplink)[k]
    <2>1. r = [uplink |-> taken, cycles |-> turns, exited |-> over \/ stuck]
      BY <1>6 DEF uplink_select
    <2>2. turns \in Nat
      BY <1>0
    <2>3. over => max_cycles > 0 /\ turns >= max_cycles
      OBVIOUS
    <2>4. stuck => found = {}
      OBVIOUS
    <2>5. taken \in UplinkNames
      BY <1>0, <1>3
    <2> DEFINE ended == over \/ stuck
    <2>6. ended \in BOOLEAN /\ (ended => over \/ stuck) /\ r = [uplink |-> taken, cycles |-> turns, exited |-> ended]
      BY <2>1
    <2> HIDE DEF taken, found, k, over, stuck, turns, whole, ended
    <2>7. r.cycles = turns /\ r.exited = ended
      BY <2>6
    <2>8. r \in Managers
      BY <2>2, <2>5, <2>6 DEF Managers
    <2> QED BY <1>4, <2>3, <2>4, <2>6, <2>7, <2>8
  <1> QED BY <1>5, <1>6

LEMMA ManagerTyped ==
  ASSUME UplinksTyped
  PROVE  Manager \in Managers /\ Manager.exited = exited /\ Manager.uplink = uplink /\ Manager.cycles = cycles
  BY DEF Manager, Managers, UplinksTyped

\* What the handlers do to the nodes keeps them nodes.
LEMMA NodeChanges ==
  ASSUME NEW nodes \in Nodes, NEW n \in UplinkNames
  PROVE  /\ \A s \in UplinkStates : [nodes EXCEPT ![n].state = s] \in Nodes
         /\ [nodes EXCEPT ![n].tries = 0] \in Nodes
         /\ [nodes EXCEPT ![n].tries = @ + 1] \in Nodes
         /\ [nodes EXCEPT ![n].unavailable = TRUE] \in Nodes
  <1>1. nodes[n] \in [state : UplinkStates, tries : Nat, unavailable : BOOLEAN] /\ DOMAIN nodes = UplinkNames
    BY DEF Nodes
  <1>2. ASSUME NEW r \in [state : UplinkStates, tries : Nat, unavailable : BOOLEAN]
        PROVE  [nodes EXCEPT ![n] = r] \in Nodes /\ [nodes EXCEPT ![n] = r][n] = r
    BY DEF Nodes
  <1>3. \A s \in UplinkStates : [nodes[n] EXCEPT !.state = s] \in [state : UplinkStates, tries : Nat, unavailable : BOOLEAN] /\ [nodes[n] EXCEPT !.state = s].state = s
    BY <1>1
  <1>4. [nodes[n] EXCEPT !.tries = 0] \in [state : UplinkStates, tries : Nat, unavailable : BOOLEAN]
    BY <1>1
  <1>5. [nodes[n] EXCEPT !.tries = @ + 1] \in [state : UplinkStates, tries : Nat, unavailable : BOOLEAN]
    BY <1>1
  <1>6. [nodes[n] EXCEPT !.unavailable = TRUE] \in [state : UplinkStates, tries : Nat, unavailable : BOOLEAN]
    BY <1>1
  <1> QED BY <1>1, <1>2, <1>3, <1>4, <1>5, <1>6

Stated(nodes, n, s) == [nodes EXCEPT ![n].state = s]

LEMMA StateSet ==
  ASSUME NEW nodes \in Nodes, NEW n \in UplinkNames, NEW s \in UplinkStates
  PROVE  Stated(nodes, n, s) \in Nodes /\ Stated(nodes, n, s)[n].state = s
  <1>1. nodes[n] \in [state : UplinkStates, tries : Nat, unavailable : BOOLEAN] /\ DOMAIN nodes = UplinkNames
    BY DEF Nodes
  <1>2. Stated(nodes, n, s)[n] = [nodes[n] EXCEPT !.state = s]
    BY <1>1 DEF Stated
  <1>3. Stated(nodes, n, s) \in Nodes
    BY NodeChanges DEF Stated
  <1> QED BY <1>1, <1>2, <1>3

LEMMA FreshNodes ==
  ASSUME node \in Nodes, NEW on, NEW n \in UplinkNames
  PROVE  /\ Fresh(on) \in Nodes
         /\ [Fresh(on) EXCEPT ![n] = [node[n] EXCEPT !.unavailable = FALSE]] \in Nodes
         /\ [Fresh(on) EXCEPT ![n] = [node[n] EXCEPT !.unavailable = FALSE]][n].state = node[n].state
  <1>1. Fresh(on) \in Nodes
    BY DEF Fresh, Nodes, UplinkStates
  <1>2. node[n] \in [state : UplinkStates, tries : Nat, unavailable : BOOLEAN]
    BY DEF Nodes
  <1>3. /\ [node[n] EXCEPT !.unavailable = FALSE] \in [state : UplinkStates, tries : Nat, unavailable : BOOLEAN]
        /\ [node[n] EXCEPT !.unavailable = FALSE].state = node[n].state
    BY <1>2
  <1> QED BY <1>1, <1>3 DEF Nodes

\* A new connection: its uplink does not pass for disconnected.
LEMMA ConnectedNodes ==
  ASSUME NEW nodes \in Nodes, NEW n \in UplinkNames, Connected(nodes, n)
  PROVE  node' \in Nodes /\ socket' = TRUE /\ node'[n].state # "DISCONNECTED"
  <1>1. socket' = TRUE /\ node' = [nodes EXCEPT ![n].state = "AUTHENTICATING", ![n].tries = 0]
    BY DEF Connected
  <1>2. nodes[n] \in [state : UplinkStates, tries : Nat, unavailable : BOOLEAN] /\ DOMAIN nodes = UplinkNames
    BY DEF Nodes
  <1>3. node' = [[nodes EXCEPT ![n].state = "AUTHENTICATING"] EXCEPT ![n].tries = 0]
    BY <1>1
  <1>4. "AUTHENTICATING" \in UplinkStates
    BY DEF UplinkStates
  <1> DEFINE started == Stated(nodes, n, "AUTHENTICATING")
  <1>5. started \in Nodes /\ started[n].state = "AUTHENTICATING" /\ node' = [started EXCEPT ![n].tries = 0]
    <2>1. node' = [started EXCEPT ![n].tries = 0]
      BY <1>3 DEF Stated
    <2> QED BY <1>4, <2>1, StateSet
  <1> HIDE DEF started
  <1>6. node' \in Nodes
    BY <1>5, NodeChanges
  <1>7. started[n] \in [state : UplinkStates, tries : Nat, unavailable : BOOLEAN] /\ DOMAIN started = UplinkNames
    BY <1>5 DEF Nodes
  <1>8. node'[n] = [started[n] EXCEPT !.tries = 0]
    BY <1>5, <1>7
  <1>9. node'[n].state = "AUTHENTICATING"
    BY <1>5, <1>7, <1>8
  <1> QED BY <1>1, <1>6, <1>9

LEMMA ClosedNodes ==
  ASSUME NEW nodes \in Nodes, NEW n \in UplinkNames, Closed(nodes, n)
  PROVE  node' \in Nodes /\ socket' = FALSE
  <1>1. "DISCONNECTED" \in UplinkStates
    BY DEF UplinkStates
  <1> QED BY <1>1, NodeChanges DEF Closed

\* Nobody gives up, and the connection is closed.
LEMMA ClosedKeeps ==
  ASSUME UplinkInv, ~exited, NEW nodes \in Nodes, Closed(nodes, uplink), UplinkKept
  PROVE  UplinkInv'
  <1>1. node' \in Nodes /\ socket' = FALSE
    BY ClosedNodes DEF UplinkInv, UplinksTyped
  <1>2. UNCHANGED <<enabled, uplink, cycles, exited>>
    BY DEF UplinkKept
  <1> QED BY <1>1, <1>2 DEF UplinkInv, UplinksTyped, GivesUpLast

\* The uplink's state is another, of a connection that stands.
LEMMA StateKeeps ==
  ASSUME UplinkInv, ~exited, NEW s \in UplinkStates, s # "DISCONNECTED", State(s)
  PROVE  UplinkInv'
  <1>1. node' = [node EXCEPT ![uplink].state = s] /\ UNCHANGED <<enabled, uplink, cycles, exited, socket>>
    BY DEF State, UplinkKept
  <1>2. node' \in Nodes /\ node'[uplink].state = s
    <2>1. node' = Stated(node, uplink, s)
      BY <1>1 DEF Stated
    <2> QED BY <2>1, StateSet DEF UplinkInv, UplinksTyped
  <1> QED BY <1>1, <1>2 DEF UplinkInv, UplinksTyped, GivesUpLast

\* uplink_select gave up: the reason is one of the two.
LEMMA GivenUp ==
  ASSUME NEW m \in Managers, ~m.exited, NEW nodes \in Nodes, NEW name, enabled \subseteq UplinkNames,
         uplink_select(m, nodes, name).exited,
         name = "any" \/ \E n \in UplinkNames : Usable(nodes, n, name)
  PROVE  \/ \A n \in enabled : nodes[n].unavailable
         \/ max_cycles > 0 /\ uplink_select(m, nodes, name).cycles >= max_cycles
  <1>1. \/ enabled = {}
        \/ max_cycles > 0 /\ uplink_select(m, nodes, name).cycles >= max_cycles
        \/ \A n \in UplinkNames : ~Usable(nodes, n, name)
    BY SelectLast
  <1>2. CASE \A n \in UplinkNames : ~Usable(nodes, n, name)
    <2>1. name = "any"
      BY <1>2
    <2>2. \A n \in UplinkNames : nodes[n].unavailable
      BY <1>2, <2>1 DEF Usable
    <2> QED BY <2>2
  <1> QED BY <1>1, <1>2

\* uplink_connect, before the attempt: it goes on, or every uplink was tried.
LEMMA AttemptedLast ==
  ASSUME UplinkInv, ~exited
  PROVE  /\ Attempted \in Managers
         /\ Attempted.exited => \/ \A n \in enabled : node[n].unavailable
                                \/ max_cycles > 0 /\ Attempted.cycles >= max_cycles
  <1>0. UplinksTyped /\ node \in Nodes /\ enabled \subseteq UplinkNames
    BY DEF UplinkInv, UplinksTyped
  <1>1. Manager \in Managers /\ ~Manager.exited
    BY <1>0, ManagerTyped
  <1>2. CASE node[uplink].unavailable
    <2>1. Attempted = uplink_select(Manager, node, "any")
      BY <1>2 DEF Attempted
    <2>2. Attempted \in Managers
      BY <1>0, <1>1, <2>1, SelectLast
    <2> QED BY <1>0, <1>1, <2>1, <2>2, GivenUp
  <1>3. CASE ~node[uplink].unavailable
    BY <1>1, <1>3 DEF Attempted
  <1> QED BY <1>2, <1>3

LEMMA ManagesTyped ==
  ASSUME NEW m \in Managers, Manages(m)
  PROVE  /\ uplink' \in UplinkNames /\ cycles' \in Nat /\ exited' \in BOOLEAN
         /\ uplink' = m.uplink /\ cycles' = m.cycles /\ exited' = m.exited
  BY DEF Managers, Manages

LEMMA ConnectOkKeeps ==
  ASSUME UplinkInv, ~exited, ConnectOk
  PROVE  UplinkInv'
  <1>1. node \in Nodes /\ enabled \subseteq UplinkNames /\ enabled' = enabled
    BY DEF UplinkInv, UplinksTyped, ConnectOk
  <1>2. Attempted \in Managers /\ Manages(Attempted) /\ ~Attempted.exited /\ Connected(node, Attempted.uplink)
    BY AttemptedLast DEF ConnectOk
  <1>3. /\ uplink' \in UplinkNames /\ cycles' \in Nat /\ exited' = FALSE
        /\ Attempted.uplink \in UplinkNames /\ uplink' = Attempted.uplink
    BY <1>2, ManagesTyped
  <1>4. node' \in Nodes /\ socket' = TRUE /\ node'[Attempted.uplink].state # "DISCONNECTED"
    BY <1>1, <1>2, <1>3, ConnectedNodes
  <1> QED BY <1>1, <1>3, <1>4 DEF UplinkInv, UplinksTyped, GivesUpLast

LEMMA FailedNodes ==
  ASSUME node \in Nodes, NEW n \in UplinkNames, NEW counted \in BOOLEAN
  PROVE  Failed(n, counted) \in Nodes
  <1>1. node[n] \in [state : UplinkStates, tries : Nat, unavailable : BOOLEAN] /\ DOMAIN node = UplinkNames
    BY DEF Nodes
  <1> DEFINE r == [state |-> "DISCONNECTED",
                   tries |-> IF counted THEN node[n].tries + 1 ELSE node[n].tries,
                   unavailable |-> node[n].unavailable]
  <1>2. node[n].tries \in Nat /\ node[n].unavailable \in BOOLEAN
    BY <1>1
  <1>3. r \in [state : UplinkStates, tries : Nat, unavailable : BOOLEAN]
    BY <1>2 DEF UplinkStates
  <1>4. Failed(n, counted) = [node EXCEPT ![n] = r]
    BY <1>1 DEF Failed
  <1> HIDE DEF r
  <1> QED BY <1>3, <1>4 DEF Nodes

LEMMA ConnectFailsKeeps ==
  ASSUME UplinkInv, ~exited, NEW counted \in BOOLEAN, ConnectFails(counted)
  PROVE  UplinkInv'
  <1> DEFINE m     == Attempted
             tried == Failed(m.uplink, counted)
             bad   == MaxTries > 0 /\ tried[m.uplink].tries >= MaxTries
             after == IF bad THEN [tried EXCEPT ![m.uplink].unavailable = TRUE] ELSE tried
             next  == IF bad THEN uplink_select(m, after, "any") ELSE m
  <1>0. node \in Nodes /\ enabled \subseteq UplinkNames
    BY DEF UplinkInv, UplinksTyped
  <1>1. /\ ~socket /\ socket' = socket /\ enabled' = enabled
        /\ IF m.exited THEN Manages(m) /\ UNCHANGED node ELSE node' = after /\ Manages(next)
    BY DEF ConnectFails
  <1>2. /\ m \in Managers
        /\ m.exited => (\A n \in enabled : node[n].unavailable) \/ (max_cycles > 0 /\ m.cycles >= max_cycles)
    BY AttemptedLast
  <1>3. m.uplink \in UplinkNames
    BY <1>2 DEF Managers
  <1>4. tried \in Nodes
    BY <1>0, <1>3, FailedNodes
  <1> HIDE DEF m, tried
  <1>5. after \in Nodes
    BY <1>3, <1>4, NodeChanges
  <1> HIDE DEF after, bad
  <1>6. CASE m.exited
    <2>1. Manages(m) /\ node' = node
      BY <1>1, <1>6
    <2>2. uplink' \in UplinkNames /\ cycles' \in Nat /\ exited' = TRUE /\ cycles' = m.cycles
      BY <1>2, <1>6, <2>1, ManagesTyped
    <2> QED BY <1>0, <1>1, <1>2, <1>6, <2>1, <2>2 DEF UplinkInv, UplinksTyped, GivesUpLast
  <1>7. CASE ~m.exited
    <2>1. Manages(next) /\ node' = after
      BY <1>1, <1>7
    <2>2. /\ next \in Managers
          /\ next.exited => (\A n \in enabled : after[n].unavailable) \/ (max_cycles > 0 /\ next.cycles >= max_cycles)
      <3>1. CASE bad
        <4>1. next = uplink_select(m, after, "any")
          BY <3>1
        <4>2. next \in Managers
          BY <1>2, <1>5, <4>1, SelectLast
        <4> QED BY <1>0, <1>2, <1>5, <1>7, <4>1, <4>2, GivenUp
      <3>2. CASE ~bad
        BY <1>2, <1>7, <3>2
      <3> QED BY <3>1, <3>2
    <2> HIDE DEF next
    <2>3. uplink' \in UplinkNames /\ cycles' \in Nat /\ exited' \in BOOLEAN /\ cycles' = next.cycles /\ exited' = next.exited
      BY <2>1, <2>2, ManagesTyped
    <2> QED BY <1>0, <1>1, <1>5, <2>1, <2>2, <2>3 DEF UplinkInv, UplinksTyped, GivesUpLast
  <1> QED BY <1>6, <1>7

LEMMA JumpKeeps ==
  ASSUME UplinkInv, ~exited, NEW n \in UplinkNames, cmd_jump(n)
  PROVE  UplinkInv'
  <1> DEFINE m == uplink_select(Manager, node, n)
  <1>0. UplinksTyped /\ node \in Nodes /\ enabled \subseteq UplinkNames /\ enabled' = enabled
    BY DEF UplinkInv, UplinksTyped, cmd_jump
  <1>1. /\ ~node[n].unavailable /\ Manages(m)
        /\ IF m.exited THEN UNCHANGED <<node, socket>> ELSE Closed([node EXCEPT ![m.uplink].tries = 0], m.uplink)
    BY DEF cmd_jump
  <1>2. Manager \in Managers /\ ~Manager.exited
    BY <1>0, ManagerTyped
  <1>3. m \in Managers
    BY <1>0, <1>2, SelectLast
  <1>4. m.exited => (\A x \in enabled : node[x].unavailable) \/ (max_cycles > 0 /\ m.cycles >= max_cycles)
    <2>1. Usable(node, n, n)
      BY <1>1 DEF Usable
    <2> QED BY <1>0, <1>2, <2>1, GivenUp
  <1> HIDE DEF m
  <1>5. uplink' \in UplinkNames /\ cycles' \in Nat /\ exited' \in BOOLEAN /\ cycles' = m.cycles /\ exited' = m.exited
    BY <1>1, <1>3, ManagesTyped
  <1>6. CASE m.exited
    <2>1. node' = node /\ socket' = socket
      BY <1>1, <1>6
    <2> QED BY <1>0, <1>4, <1>5, <1>6, <2>1 DEF UplinkInv, UplinksTyped, GivesUpLast
  <1>7. CASE ~m.exited
    <2>1. m.uplink \in UplinkNames
      BY <1>3 DEF Managers
    <2>2. [node EXCEPT ![m.uplink].tries = 0] \in Nodes
      BY <1>0, <2>1, NodeChanges
    <2>3. node' \in Nodes /\ socket' = FALSE
      BY <1>1, <1>7, <2>1, <2>2, ClosedNodes
    <2> QED BY <1>0, <1>5, <1>7, <2>3 DEF UplinkInv, UplinksTyped, GivesUpLast
  <1> QED BY <1>6, <1>7

LEMMA CompileKeeps ==
  ASSUME UplinkInv, ~exited, NEW on \in SUBSET UplinkNames, uplink_compile(on)
  PROVE  UplinkInv'
  <1>0. UplinksTyped /\ GivesUpLast /\ node \in Nodes /\ uplink \in UplinkNames /\ socket /\ enabled' = on
    BY DEF UplinkInv, UplinksTyped, uplink_compile
  <1>1. CASE uplink \in on
    <2>1. /\ node' = [Fresh(on) EXCEPT ![uplink] = [node[uplink] EXCEPT !.unavailable = FALSE]]
          /\ UNCHANGED <<uplink, cycles, socket, exited>>
      BY <1>1 DEF uplink_compile
    <2>2. node' \in Nodes /\ node'[uplink].state = node[uplink].state
      BY <1>0, <2>1, FreshNodes
    <2> QED BY <1>0, <2>1, <2>2 DEF UplinkInv, UplinksTyped, GivesUpLast
  <1>2. CASE uplink \notin on
    <2>1. node' = Fresh(on) /\ socket' = FALSE
      BY <1>2 DEF uplink_compile
    <2>2. node' \in Nodes
      BY <1>0, <2>1, FreshNodes
    <2>3. CASE on = {}
      <3>1. exited' = TRUE /\ UNCHANGED <<uplink, cycles>>
        BY <1>2, <2>3 DEF uplink_compile
      <3> QED BY <1>0, <2>1, <2>2, <2>3, <3>1 DEF UplinkInv, UplinksTyped, GivesUpLast
    <2>4. CASE on # {}
      <3> DEFINE i == CHOOSE j \in DOMAIN Order : Order[j] \in on /\ \A k \in 1 .. j - 1 : Order[k] \notin on
                 turns == IF i = Len(Order) THEN cycles + 1 ELSE cycles
      <3>1. /\ cycles' = turns /\ exited' = (i = Len(Order) /\ max_cycles > 0 /\ turns >= max_cycles)
            /\ uplink' = IF exited' THEN uplink ELSE Order[i]
        BY <1>2, <2>4 DEF uplink_compile
      <3>2. i \in DOMAIN Order
        BY <2>4, FirstEnabled
      <3> HIDE DEF i
      <3>3. turns \in Nat
        BY <1>0 DEF UplinksTyped
      <3>4. exited' => max_cycles > 0 /\ cycles' >= max_cycles
        BY <3>1
      <3>5. uplink' \in UplinkNames
        BY <1>0, <3>1, <3>2 DEF UplinkNames
      <3>6. exited' \in BOOLEAN /\ cycles' \in Nat
        BY <3>1, <3>3
      <3> QED BY <1>0, <2>1, <2>2, <3>4, <3>5, <3>6 DEF UplinkInv, UplinksTyped, GivesUpLast
    <2> QED BY <2>3, <2>4
  <1> QED BY <1>1, <1>2

LEMMA UplinkStep ==
  ASSUME UplinkInv, [UplinkNext]_uplinkVars
  PROVE  UplinkInv'
  <1>0. UplinksTyped /\ node \in Nodes /\ uplink \in UplinkNames
    BY DEF UplinkInv, UplinksTyped
  <1>1. CASE ~exited /\ cmd_pass
    BY <1>1, StateKeeps DEF cmd_pass, UplinkStates
  <1>2. CASE ~exited /\ cmd_eob
    BY <1>2, StateKeeps DEF cmd_eob, UplinkStates
  <1>3. CASE ~exited /\ irc_squit
    BY <1>0, <1>3, ClosedKeeps, NodeChanges DEF irc_squit
  <1>4. CASE ~exited /\ ConnectionLost
    BY <1>0, <1>4, ClosedKeeps DEF ConnectionLost
  <1>5. CASE ~exited /\ cmd_error
    <2>1. (IF node[uplink].state = "CONNECTED" THEN node ELSE [node EXCEPT ![uplink].unavailable = TRUE]) \in Nodes
      BY <1>0, NodeChanges
    <2> QED BY <1>5, <2>1, ClosedKeeps DEF cmd_error
  <1>6. CASE ~exited /\ cmd_pong
    BY <1>6 DEF cmd_pong, UplinkInv, UplinksTyped, GivesUpLast
  <1>7. ASSUME NEW p, timed_send_ping(p) PROVE UplinkInv'
    BY <1>7 DEF timed_send_ping, UplinkKept, UplinkInv, UplinksTyped, GivesUpLast
  <1>8. ASSUME NEW p, ~exited, timed_ping_timeout(p) PROVE UplinkInv'
    BY <1>0, <1>8, ClosedKeeps, NodeChanges DEF timed_ping_timeout
  <1>9. CASE UplinkTick
    BY <1>9 DEF UplinkTick, UplinkInv, UplinksTyped, GivesUpLast
  <1>10. CASE UNCHANGED uplinkVars
    BY <1>10 DEF uplinkVars, UplinkInv, UplinksTyped, GivesUpLast
  <1> QED BY <1>1, <1>2, <1>3, <1>4, <1>5, <1>6, <1>7, <1>8, <1>9, <1>10,
             ConnectOkKeeps, ConnectFailsKeeps, JumpKeeps, CompileKeeps DEF UplinkNext

\* The program gives up only when no enabled uplink is left or after max_cycles rounds without a
\* ping, and a connection that stands can be written to: for any list of uplinks, limits and
\* orders of failures, jumps and rehashes (uplink_select, uplink_connect, uplink_compile).
THEOREM UplinksAllTried == UplinkSpec => []GivesUpLast
  <1>1. UplinkInit => UplinkInv
    <2> HAVE UplinkInit
    <2>1. enabled \in SUBSET UplinkNames /\ enabled # {}
      BY DEF UplinkInit
    <2>2. uplink \in UplinkNames
      <3> DEFINE i == CHOOSE i \in DOMAIN Order : Order[i] \in enabled /\ \A j \in 1 .. i - 1 : Order[j] \notin enabled
      <3>1. i \in DOMAIN Order
        BY <2>1, FirstEnabled
      <3>2. uplink = Order[i]
        BY DEF UplinkInit
      <3> QED BY <3>1, <3>2 DEF UplinkNames
    <2>3. node \in Nodes
      BY DEF UplinkInit, Fresh, Nodes, UplinkStates
    <2>4. socket = FALSE /\ exited = FALSE /\ cycles \in Nat
      BY DEF UplinkInit
    <2> QED BY <2>1, <2>2, <2>3, <2>4 DEF UplinkInv, UplinksTyped, GivesUpLast
  <1>2. UplinkInv /\ [UplinkNext]_uplinkVars => UplinkInv'
    BY UplinkStep
  <1>3. UplinkInv => GivesUpLast
    BY DEF UplinkInv
  <1> QED BY <1>1, <1>2, <1>3, PTL DEF UplinkSpec

-----------------------------------------------------------------------------
(* Mail.  The queue holds mails, and a connection in use is there.         *)

SmtpStates == {"CLOSED", "CONNECTING", "ABORTED", "WAITING_GREETING", "SENT_EHLO", "SENT_HELO", "IDLE", "SENT_RSET"}
              \union SendingStates

MailTyped == mail_queue \in Seq(Mails) /\ smtp_state \in SmtpStates

MailInv == MailTyped /\ ActiveIsFirst

LEMMA FirstOfMails ==
  ASSUME NEW q \in Seq(Mails), q # <<>>
  PROVE  q[1] \in Mails /\ q[1] # NoMail
  BY MailsNamed

LEMMA WithoutIsQueue ==
  ASSUME mail_queue \in Seq(Mails), NEW m
  PROVE  WithoutMail(m) \in Seq(Mails)
  <1>1. CASE m \in MailsQueued
    <2> DEFINE k == CHOOSE i \in DOMAIN mail_queue : mail_queue[i] = m
    <2>1. k \in 1..Len(mail_queue)
      BY <1>1 DEF MailsQueued
    <2>2. WithoutMail(m) = SubSeq(mail_queue, 1, k - 1) \o SubSeq(mail_queue, k + 1, Len(mail_queue))
      BY <1>1 DEF WithoutMail
    <2> HIDE DEF k
    <2>3. SubSeq(mail_queue, 1, k - 1) \in Seq(Mails)
      BY <2>1
    <2>4. SubSeq(mail_queue, k + 1, Len(mail_queue)) \in Seq(Mails)
      BY <2>1
    <2> QED BY <2>2, <2>3, <2>4
  <1>2. CASE m \notin MailsQueued
    BY <1>2 DEF WithoutMail
  <1> QED BY <1>1, <1>2

\* Nothing is sent: the queue, the mail at its head and the connection are as they were.
LEMMA ClosedMailKeeps ==
  ASSUME MailInv, mail_destroyed
  PROVE  MailInv'
  BY DEF mail_destroyed, MailInv, MailTyped, SmtpStates, SendingStates, ActiveIsFirst, InSession

LEMMA StaysInSession ==
  ASSUME MailInv, UNCHANGED <<smtp_fd, mail_queue, active_mail>>, smtp_state' \in SmtpStates,
         InSession, smtp_state' \in SendingStates => smtp_state \in SendingStates
  PROVE  MailInv'
  BY DEF MailInv, MailTyped, ActiveIsFirst, InSession

\* smtp_idle_work takes the head of the queue, or nothing.
LEMMA IdleKeeps ==
  ASSUME MailInv, smtp_fd, UNCHANGED smtp_fd, mail_queue' \in Seq(Mails), IdleWork(mail_queue'),
         mail_queue' = <<>> => active_mail = NoMail
  PROVE  MailInv'
  <1>1. CASE mail_queue' = <<>>
    <2>1. smtp_state' = "IDLE" /\ active_mail' = active_mail
      BY <1>1 DEF IdleWork
    <2> QED BY <1>1, <2>1 DEF MailInv, MailTyped, ActiveIsFirst, SendingStates, SmtpStates, InSession
  <1>2. CASE mail_queue' # <<>>
    <2>1. smtp_state' = "SENT_MAIL_FROM" /\ active_mail' = mail_queue'[1]
      BY <1>2 DEF IdleWork
    <2>2. mail_queue'[1] # NoMail
      BY <1>2, FirstOfMails
    <2> QED BY <1>2, <2>1, <2>2 DEF MailInv, MailTyped, ActiveIsFirst, SendingStates, SmtpStates, InSession
  <1> QED BY <1>1, <1>2

LEMMA DiscardKeeps ==
  ASSUME MailInv, smtp_state \in SendingStates, discard_mail
  PROVE  MailInv'
  <1>1. mail_queue' \in Seq(Mails)
    BY WithoutIsQueue DEF discard_mail, MailInv, MailTyped
  <1>2. smtp_fd
    BY DEF MailInv, ActiveIsFirst, InSession, SendingStates
  <1> QED BY <1>1, <1>2 DEF discard_mail, MailInv, MailTyped, ActiveIsFirst, SendingStates, SmtpStates, InSession

LEMMA StepKeeps ==
  ASSUME MailInv, NEW s \in SendingStates, NEW next \in SendingStates, NEW code, SmtpStep(s, next, code)
  PROVE  MailInv'
  <1>1. smtp_state = s
    BY DEF SmtpStep
  <1>2. CASE code = 5
    BY <1>1, <1>2, DiscardKeeps DEF SmtpStep
  <1>3. CASE code = 4
    BY <1>3 DEF SmtpStep, mailVars, MailInv, MailTyped, ActiveIsFirst, InSession
  <1>4. CASE code # 4 /\ code # 5
    <2>1. smtp_state' = next /\ UNCHANGED <<smtp_fd, mail_queue, active_mail>>
      BY <1>4 DEF SmtpStep
    <2> QED BY <1>1, <2>1, StaysInSession DEF SmtpStates, InSession, SendingStates
  <1> QED BY <1>2, <1>3, <1>4

LEMMA AnswerKeeps ==
  ASSUME MailInv, NEW code, mail_readable(code)
  PROVE  MailInv'
  <1>0. InSession /\ smtp_fd /\ mail_queue \in Seq(Mails)
    BY DEF mail_readable, MailInv, MailTyped, ActiveIsFirst
  <1>00. mail_queue = <<>> => active_mail = NoMail
    BY DEF MailInv, ActiveIsFirst
  <1>1. CASE SmtpGreeted(code)
    <2>1. CASE code >= 4
      BY <1>1, <2>1, ClosedMailKeeps DEF SmtpGreeted
    <2>2. CASE ~(code >= 4)
      BY <1>0, <1>1, <2>2, StaysInSession DEF SmtpGreeted, SmtpStates, SendingStates
    <2> QED BY <2>1, <2>2
  <1>2. CASE smtp_handle_ehlo(code)
    <2>1. CASE code = 4
      BY <1>2, <2>1, ClosedMailKeeps DEF smtp_handle_ehlo
    <2>2. CASE code = 5
      <3>1. smtp_state' = "SENT_HELO" /\ UNCHANGED <<smtp_fd, mail_queue, active_mail>>
        BY <1>2, <2>2 DEF smtp_handle_ehlo
      <3> QED BY <1>0, <3>1, StaysInSession DEF SmtpStates, SendingStates
    <2>3. CASE code # 4 /\ code # 5
      <3>1. IdleWork(mail_queue) /\ UNCHANGED <<smtp_fd, mail_queue>>
        BY <1>2, <2>3 DEF smtp_handle_ehlo
      <3>2. IdleWork(mail_queue') /\ mail_queue' \in Seq(Mails) /\ (mail_queue' = <<>> => active_mail = NoMail)
        BY <1>0, <1>00, <3>1 DEF IdleWork
      <3> QED BY <1>0, <3>1, <3>2, IdleKeeps
    <2> QED BY <2>1, <2>2, <2>3
  <1>3. CASE smtp_handle_helo(code)
    <2>1. CASE code >= 4
      BY <1>3, <2>1, ClosedMailKeeps DEF smtp_handle_helo
    <2>2. CASE ~(code >= 4)
      <3>1. IdleWork(mail_queue) /\ UNCHANGED <<smtp_fd, mail_queue>>
        BY <1>3, <2>2 DEF smtp_handle_helo
      <3>2. IdleWork(mail_queue') /\ mail_queue' \in Seq(Mails) /\ (mail_queue' = <<>> => active_mail = NoMail)
        BY <1>0, <1>00, <3>1 DEF IdleWork
      <3> QED BY <1>0, <3>1, <3>2, IdleKeeps
    <2> QED BY <2>1, <2>2
  <1>4. CASE smtp_handle_mail_from(code) \/ smtp_handle_rcpt_to(code) \/ smtp_handle_data(code)
    BY <1>4, StepKeeps DEF smtp_handle_mail_from, smtp_handle_rcpt_to, smtp_handle_data, SendingStates
  <1>5. CASE smtp_handle_body(code)
    <2>0. smtp_state \in SendingStates
      BY <1>5 DEF smtp_handle_body, SendingStates
    <2>1. CASE code = 5
      BY <1>5, <2>0, <2>1, DiscardKeeps DEF smtp_handle_body
    <2>2. CASE code = 4
      BY <1>5, <2>2 DEF smtp_handle_body, mailVars, MailInv, MailTyped, ActiveIsFirst, InSession
    <2>3. CASE code # 4 /\ code # 5
      <3>1. /\ mail_queue' = WithoutMail(active_mail) /\ UNCHANGED smtp_fd
            /\ IF mail_queue' = <<>> THEN smtp_state' = "IDLE" /\ active_mail' = NoMail
               ELSE IdleWork(mail_queue')
        BY <1>5, <2>3 DEF smtp_handle_body
      <3>2. mail_queue' \in Seq(Mails)
        BY <1>0, <3>1, WithoutIsQueue
      <3>3. CASE mail_queue' = <<>>
        BY <1>0, <3>1, <3>2, <3>3 DEF MailInv, MailTyped, ActiveIsFirst, SendingStates, SmtpStates, InSession
      <3>4. CASE mail_queue' # <<>>
        BY <1>0, <3>1, <3>2, <3>4, IdleKeeps
      <3> QED BY <3>3, <3>4
    <2> QED BY <2>1, <2>2, <2>3
  <1>6. CASE smtp_handle_rset
    <2>1. CASE active_mail = NoMail
      BY <1>6, <2>1 DEF smtp_handle_rset, MailInv, MailTyped, ActiveIsFirst, SendingStates, SmtpStates, InSession
    <2>2. CASE active_mail # NoMail
      <3>1. IdleWork(mail_queue) /\ UNCHANGED <<smtp_fd, mail_queue>>
        BY <1>6, <2>2 DEF smtp_handle_rset
      <3>2. IdleWork(mail_queue') /\ mail_queue' \in Seq(Mails) /\ (mail_queue' = <<>> => active_mail = NoMail)
        BY <1>0, <1>00, <3>1 DEF IdleWork
      <3> QED BY <1>0, <3>1, <3>2, IdleKeeps
    <2> QED BY <2>1, <2>2
  <1> QED BY <1>1, <1>2, <1>3, <1>4, <1>5, <1>6 DEF mail_readable

\* mail_send puts a mail behind the others and opens the connection if there is none.
LEMMA SendKeeps ==
  ASSUME MailInv, NEW m \in Mails, NEW connects, mail_send(m, connects)
  PROVE  MailInv'
  <1>0. mail_queue \in Seq(Mails) /\ smtp_state \in SmtpStates /\ mail_queue' = Append(mail_queue, m)
    BY DEF MailInv, MailTyped, mail_send
  <1>1. mail_queue' \in Seq(Mails) /\ mail_queue' # <<>> /\ (mail_queue # <<>> => mail_queue'[1] = mail_queue[1])
    BY <1>0
  <1>2. CASE ~smtp_fd
    <2>1. /\ smtp_state' = IF connects = "at once" THEN "WAITING_GREETING" ELSE "CONNECTING"
          /\ smtp_fd' = (connects # "never") /\ active_mail' = active_mail
      BY <1>2 DEF mail_send
    <2> QED BY <1>1, <2>1 DEF MailInv, MailTyped, ActiveIsFirst, SendingStates, SmtpStates, InSession
  <1>3. CASE smtp_fd /\ smtp_state = "IDLE"
    <2>1. IdleWork(mail_queue') /\ UNCHANGED smtp_fd
      BY <1>3 DEF mail_send
    <2> QED BY <1>1, <1>3, <2>1, IdleKeeps
  <1>4. CASE smtp_fd /\ smtp_state # "IDLE"
    <2>1. UNCHANGED <<smtp_state, active_mail, smtp_fd>>
      BY <1>4 DEF mail_send
    <2> QED BY <1>1, <2>1 DEF MailInv, MailTyped, ActiveIsFirst, InSession
  <1> QED BY <1>2, <1>3, <1>4

\* An answer of the mail server is about the oldest mail of the queue, and that is there: for any
\* mails, answers, lost connections and mails sent meanwhile (discard_mail, smtp_idle_work).
THEOREM ActiveStaysFirst == MailSpec => []ActiveIsFirst
  <1>1. MailInit => MailInv
    BY DEF MailInit, MailInv, MailTyped, ActiveIsFirst, SmtpStates, SendingStates, InSession
  <1>2. MailInv /\ [MailNext]_mailVars => MailInv'
    <2> SUFFICES ASSUME MailInv, [MailNext]_mailVars PROVE MailInv'
      OBVIOUS
    <2>1. ASSUME NEW e \in BOOLEAN, mail_connected(e) PROVE MailInv'
      BY <2>1 DEF mail_connected, MailInv, MailTyped, ActiveIsFirst, SmtpStates, SendingStates, InSession
    <2>2. CASE ServerCloses
      BY <2>2, ClosedMailKeeps DEF ServerCloses
    <2>3. ASSUME NEW a, mail_ban_address(a) \/ cmd_unbanemail(a) PROVE MailInv'
      BY <2>3 DEF mail_ban_address, cmd_unbanemail, MailInv, MailTyped, ActiveIsFirst, InSession
    <2>4. CASE MailRestart
      BY <2>4 DEF MailRestart, MailInv, MailTyped, ActiveIsFirst, SmtpStates, SendingStates, InSession
    <2>5. CASE UNCHANGED mailVars
      BY <2>5 DEF mailVars, MailInv, MailTyped, ActiveIsFirst, InSession
    <2> QED BY <2>1, <2>2, <2>3, <2>4, <2>5, SendKeeps, AnswerKeeps DEF MailNext
  <1>3. MailInv => ActiveIsFirst
    BY DEF MailInv
  <1> QED BY <1>1, <1>2, <1>3, PTL DEF MailSpec

-----------------------------------------------------------------------------
(* Connections.  A ring keeps its fields in range; what it holds is a run  *)
(* of the stream, from the first byte that was not taken.                  *)

RingFields == {"buf", "get", "put", "size"}

InRing(q) ==
  /\ DOMAIN q = RingFields
  /\ q.size \in Nat \ {0} /\ q.buf \in [0 .. q.size - 1 -> Nat]
  /\ q.get \in 0 .. q.size - 1 /\ q.put \in 0 .. q.size - 1

HoldsFrom(q, from) == Held(q) = [k \in 1 .. ioq_used(q) |-> from + k]

\* The place of the k-th byte a ring holds.
Place(q, k) == IF q.get + k - 1 < q.size THEN q.get + k - 1 ELSE q.get + k - 1 - q.size

LEMMA RingNumbers ==
  ASSUME NEW q, InRing(q)
  PROVE  q.size \in Nat /\ q.get \in Nat /\ q.put \in Nat /\ q.get < q.size /\ q.put < q.size
  BY DEF InRing

LEMMA RingUse ==
  ASSUME NEW q, InRing(q)
  PROVE  /\ ioq_used(q) \in 0 .. q.size - 1
         /\ ioq_get_avail(q) \in 0 .. ioq_used(q)
         /\ q.get + ioq_get_avail(q) <= q.size
         /\ ioq_put_avail(q) \in 0 .. q.size - 1
         /\ q.put + ioq_put_avail(q) <= q.size
         /\ q.put >= q.get => ioq_get_avail(q) = ioq_used(q)
         /\ q.put < q.get => q.get + ioq_get_avail(q) = q.size
  <1>1. q.size \in Nat /\ q.get \in Nat /\ q.put \in Nat /\ q.get < q.size /\ q.put < q.size
    BY RingNumbers
  <1>2. CASE q.put < q.get
    <2>1. /\ ioq_used(q) = q.size + q.put - q.get /\ ioq_get_avail(q) = q.size - q.get
          /\ ioq_put_avail(q) = q.get - q.put - 1
      BY <1>1, <1>2 DEF ioq_used, ioq_get_avail, ioq_put_avail
    <2> QED BY <1>1, <1>2, <2>1
  <1>3. CASE ~(q.put < q.get)
    <2>1. /\ ioq_used(q) = q.put - q.get /\ ioq_get_avail(q) = q.put - q.get
          /\ ioq_put_avail(q) = IF q.get = 0 THEN q.size - q.put - 1 ELSE q.size - q.put
      BY <1>1, <1>3 DEF ioq_used, ioq_get_avail, ioq_put_avail
    <2> QED BY <1>1, <1>3, <2>1
  <1> QED BY <1>2, <1>3

LEMMA Around ==
  ASSUME NEW n \in Nat \ {0}, NEW i \in Nat, i < 2 * n
  PROVE  i % n = IF i < n THEN i ELSE i - n
  <1>1. CASE i < n
    BY <1>1
  <1>2. CASE i >= n
    <2>1. i - n \in 0 .. n - 1
      BY <1>2
    <2>2. ((i - n) + n) % n = i - n
      BY <2>1
    <2> QED BY <1>2, <2>2
  <1> QED BY <1>1, <1>2

LEMMA HeldPlace ==
  ASSUME NEW q, InRing(q)
  PROVE  /\ \A k \in 1 .. ioq_used(q) : Place(q, k) \in 0 .. q.size - 1 /\ (q.get + k - 1) % q.size = Place(q, k)
         /\ Held(q) = [k \in 1 .. ioq_used(q) |-> q.buf[Place(q, k)]]
         /\ Held(q) \in Seq(Nat) /\ Len(Held(q)) = ioq_used(q)
  <1>1. ASSUME NEW k \in 1 .. ioq_used(q)
        PROVE  Place(q, k) \in 0 .. q.size - 1 /\ (q.get + k - 1) % q.size = Place(q, k)
    <2>1. q.size \in Nat \ {0} /\ q.get + k - 1 \in Nat /\ q.get + k - 1 < 2 * q.size
      BY RingNumbers, RingUse
    <2> DEFINE i == q.get + k - 1
    <2>2. Place(q, k) = IF i < q.size THEN i ELSE i - q.size
      BY RingNumbers DEF Place
    <2>3. i % q.size = Place(q, k)
      <3> HIDE DEF i
      <3>1. i \in Nat /\ i < 2 * q.size
        BY <2>1 DEF i
      <3> QED BY <2>1, <2>2, <3>1, Around
    <2> QED BY <2>1, <2>3 DEF Place
  <1>2. Held(q) = [k \in 1 .. ioq_used(q) |-> q.buf[Place(q, k)]]
    BY <1>1 DEF Held
  <1>3. \A k \in 1 .. ioq_used(q) : q.buf[Place(q, k)] \in Nat
    BY <1>1 DEF InRing
  <1>4. ioq_used(q) \in Nat
    BY RingUse
  <1>5. Held(q) \in Seq(Nat) /\ Len(Held(q)) = ioq_used(q)
    BY <1>2, <1>3, <1>4
  <1> QED BY <1>1, <1>2, <1>5

LEMMA HoldsPlaces ==
  ASSUME NEW q, InRing(q), NEW from \in Nat
  PROVE  HoldsFrom(q, from) <=> \A k \in 1 .. ioq_used(q) : q.buf[Place(q, k)] = from + k
  BY HeldPlace DEF HoldsFrom

LEMMA GrowsWhole ==
  ASSUME NEW q, InRing(q)
  PROVE  /\ InRing(ioq_grow(q)) /\ ioq_grow(q).size = 2 * q.size
         /\ ioq_grow(q).get = 0 /\ ioq_grow(q).put = ioq_used(q)
         /\ ioq_used(ioq_grow(q)) = ioq_used(q)
         /\ \A from \in Nat : HoldsFrom(q, from) => HoldsFrom(ioq_grow(q), from)
  <1> DEFINE g == ioq_grow(q)
  <1>1. /\ ioq_used(q) \in 0 .. q.size - 1 /\ q.size \in Nat \ {0}
        /\ Held(q) \in Seq(Nat) /\ Len(Held(q)) = ioq_used(q)
    BY RingUse, HeldPlace DEF InRing
  <1>2. /\ DOMAIN g = RingFields /\ g.size = 2 * q.size /\ g.get = 0 /\ g.put = ioq_used(q)
        /\ g.buf = [i \in 0 .. 2 * q.size - 1 |-> IF i < ioq_used(q) THEN Held(q)[i + 1] ELSE 0]
    BY <1>1 DEF ioq_grow, RingFields
  <1>3. \A i \in 0 .. ioq_used(q) - 1 : Held(q)[i + 1] \in Nat
    BY <1>1
  <1> HIDE DEF g
  <1>4. InRing(g)
    <2>1. 2 * q.size \in Nat \ {0} /\ g.get \in 0 .. 2 * q.size - 1 /\ g.put \in 0 .. 2 * q.size - 1
      BY <1>1, <1>2
    <2>2. \A i \in 0 .. 2 * q.size - 1 : (IF i < ioq_used(q) THEN Held(q)[i + 1] ELSE 0) \in Nat
      BY <1>1, <1>3
    <2>3. g.buf \in [0 .. 2 * q.size - 1 -> Nat]
      BY <1>2, <2>2
    <2> QED BY <1>2, <2>1, <2>3 DEF InRing
  <1>5. ioq_used(g) = ioq_used(q)
    BY <1>1, <1>2 DEF ioq_used
  <1>6. ASSUME NEW from \in Nat, HoldsFrom(q, from) PROVE HoldsFrom(g, from)
    <2>1. ASSUME NEW k \in 1 .. ioq_used(g) PROVE g.buf[Place(g, k)] = from + k
      <3>1. Place(g, k) = k - 1 /\ k - 1 \in 0 .. 2 * q.size - 1 /\ k - 1 < ioq_used(q) /\ k \in 1 .. ioq_used(q)
        BY <1>1, <1>2, <1>5 DEF Place
      <3>2. g.buf[k - 1] = Held(q)[k]
        BY <1>2, <3>1
      <3>3. Held(q)[k] = from + k
        BY <1>6, <3>1 DEF HoldsFrom
      <3> QED BY <3>1, <3>2, <3>3
    <2> QED BY <1>4, <2>1, HoldsPlaces
  <1> QED BY <1>2, <1>4, <1>5, <1>6 DEF g

\* Bytes that fit behind put.
Fit(q, n) ==
  /\ q.put < q.get => q.put + n < q.get
  /\ q.put >= q.get => q.put + n <= q.size /\ (q.put + n = q.size => q.get > 0)

Filled(q, first, n) == [q EXCEPT !.buf = Copied(q, q.put, first, n), !.put = Wrapped(q.put + n, q)]

LEMMA FilledRing ==
  ASSUME NEW q, InRing(q), NEW first \in Nat, NEW n \in Nat, q.put + n <= q.size
  PROVE  /\ InRing(Filled(q, first, n))
         /\ Filled(q, first, n).size = q.size /\ Filled(q, first, n).get = q.get
         /\ Filled(q, first, n).put = IF q.put + n = q.size THEN 0 ELSE q.put + n
         /\ \A i \in 0 .. q.size - 1 :
              Filled(q, first, n).buf[i] = IF i \in q.put .. q.put + n - 1 THEN first + i - q.put + 1 ELSE q.buf[i]
  <1> DEFINE g == Filled(q, first, n)
  <1>1. /\ DOMAIN g = RingFields /\ g.size = q.size /\ g.get = q.get
        /\ g.buf = Copied(q, q.put, first, n) /\ g.put = Wrapped(q.put + n, q)
    BY DEF Filled, InRing, RingFields
  <1>2. \A i \in 0 .. q.size - 1 : (IF i \in q.put .. q.put + n - 1 THEN first + i - q.put + 1 ELSE q.buf[i]) \in Nat
    <2>1. q.put \in Nat /\ \A i \in 0 .. q.size - 1 : q.buf[i] \in Nat
      BY RingNumbers DEF InRing
    <2> QED BY <2>1
  <1>3. /\ g.buf \in [0 .. q.size - 1 -> Nat]
        /\ \A i \in 0 .. q.size - 1 : g.buf[i] = IF i \in q.put .. q.put + n - 1 THEN first + i - q.put + 1 ELSE q.buf[i]
    BY <1>1, <1>2 DEF Copied
  <1>4. g.put = (IF q.put + n = q.size THEN 0 ELSE q.put + n) /\ g.put \in 0 .. q.size - 1
    BY <1>1 DEF Wrapped, InRing
  <1> HIDE DEF g
  <1>5. InRing(g)
    BY <1>1, <1>3, <1>4 DEF InRing
  <1> QED BY <1>1, <1>3, <1>4, <1>5 DEF g

LEMMA FilledHolds ==
  ASSUME NEW q, InRing(q), NEW from \in Nat, NEW n \in Nat, Fit(q, n), HoldsFrom(q, from)
  PROVE  /\ ioq_used(Filled(q, from + ioq_used(q), n)) = ioq_used(q) + n
         /\ HoldsFrom(Filled(q, from + ioq_used(q), n), from)
  <1> DEFINE u == ioq_used(q)
             g == Filled(q, from + u, n)
  <1>0. q.size \in Nat /\ q.get \in Nat /\ q.put \in Nat /\ q.get < q.size /\ q.put < q.size
    BY RingNumbers
  <1>1. u \in Nat /\ q.put + n <= q.size /\ from + u \in Nat
    BY <1>0, RingUse DEF Fit
  <1>2. /\ InRing(g) /\ g.size = q.size /\ g.get = q.get
        /\ g.put = IF q.put + n = q.size THEN 0 ELSE q.put + n
        /\ \A i \in 0 .. q.size - 1 : g.buf[i] = IF i \in q.put .. q.put + n - 1 THEN from + u + i - q.put + 1 ELSE q.buf[i]
    BY <1>1, FilledRing
  <1> HIDE DEF g
  <1>3. ioq_used(g) = u + n
    BY <1>0, <1>2 DEF ioq_used, Fit
  <1>4. ASSUME NEW k \in 1 .. ioq_used(g) PROVE g.buf[Place(g, k)] = from + k
    <2>1. Place(g, k) = Place(q, k) /\ Place(g, k) \in 0 .. q.size - 1
      BY <1>2, HeldPlace DEF Place
    <2>2. CASE k <= u
      <3>1. k \in 1 .. u
        BY <2>2
      <3>2. Place(q, k) \notin q.put .. q.put + n - 1
        BY <1>0, <3>1 DEF Place, ioq_used, Fit
      <3>3. q.buf[Place(q, k)] = from + k
        BY <3>1, HoldsPlaces
      <3> QED BY <1>2, <2>1, <3>2, <3>3
    <2>3. CASE k > u
      <3>1. k \in u + 1 .. u + n
        BY <1>1, <1>3, <2>3
      <3>2. Place(q, k) = q.put + (k - u) - 1
        BY <1>0, <3>1 DEF Place, ioq_used, Fit
      <3>3. Place(q, k) \in q.put .. q.put + n - 1
        BY <1>0, <1>1, <3>1, <3>2
      <3>4. g.buf[Place(q, k)] = from + u + Place(q, k) - q.put + 1
        BY <1>2, <2>1, <3>3
      <3>5. q.put \in Int
        BY DEF InRing
      <3> QED BY <1>1, <2>1, <3>1, <3>2, <3>4, <3>5
    <2> QED BY <1>1, <2>2, <2>3
  <1>5. HoldsFrom(g, from)
    BY <1>2, <1>4, HoldsPlaces
  <1> QED BY <1>3, <1>5 DEF g

\* Taking n bytes.
Taken(q, n) == [q EXCEPT !.get = Place(q, n + 1)]

LEMMA TakenHolds ==
  ASSUME NEW q, InRing(q), NEW n \in 0 .. ioq_used(q)
  PROVE  /\ InRing(Taken(q, n)) /\ Taken(q, n).size = q.size
         /\ ioq_used(Taken(q, n)) = ioq_used(q) - n
         /\ \A from \in Nat : HoldsFrom(q, from) => HoldsFrom(Taken(q, n), from + n)
  <1> DEFINE g == Taken(q, n)
  <1>0. /\ q.size \in Nat \ {0} /\ q.get \in Nat /\ q.put \in Nat /\ q.get < q.size /\ q.put < q.size
        /\ ioq_used(q) \in Nat /\ ioq_used(q) < q.size
    BY RingNumbers, RingUse, SMTT(30) DEF InRing
  <1>1. Place(q, n + 1) \in 0 .. q.size - 1
    BY <1>0 DEF Place
  <1>2. /\ DOMAIN g = RingFields /\ g.size = q.size /\ g.buf = q.buf /\ g.put = q.put
        /\ g.get = Place(q, n + 1)
    BY DEF Taken, InRing, RingFields
  <1> HIDE DEF g
  <1>3. InRing(g)
    BY <1>1, <1>2 DEF InRing
  <1>4. ioq_used(g) = ioq_used(q) - n
    BY <1>0, <1>2 DEF ioq_used, Place
  <1>5. ASSUME NEW from \in Nat, HoldsFrom(q, from) PROVE HoldsFrom(g, from + n)
    <2>1. ASSUME NEW k \in 1 .. ioq_used(g) PROVE g.buf[Place(g, k)] = (from + n) + k
      <3>1. k + n \in 1 .. ioq_used(q)
        BY <1>0, <1>4
      <3>2. Place(g, k) = Place(q, k + n)
        BY <1>0, <1>2, <3>1 DEF Place
      <3>3. q.buf[Place(q, k + n)] = from + (k + n)
        BY <1>5, <3>1, HoldsPlaces
      <3> QED BY <1>2, <3>2, <3>3
    <2> QED BY <1>3, <2>1, HoldsPlaces
  <1> QED BY <1>2, <1>3, <1>4, <1>5 DEF g

-----------------------------------------------------------------------------
\* What was received.
ReceivedKept ==
  /\ HoldsFrom(recv, read) /\ read + ioq_used(recv) = arrived
  /\ eols \subseteq 1 .. arrived
  /\ line_len > 0 => read + line_len \in eols
  /\ \A k \in 1 .. ioq_used(recv) : read + k \in eols => line_len > 0 /\ line_len <= k

\* What was sent and is to be sent; the scratch buffer offers the first of what is to be sent.
Numbers(first, n) == [k \in 1 .. n |-> first + k]

SentKept ==
  /\ sent = Numbers(0, Len(sent))
  /\ HoldsFrom(send, Len(sent)) /\ Len(sent) + ioq_used(send) = written
  /\ ssl_wbuf = Numbers(Len(sent), Len(ssl_wbuf)) /\ Len(ssl_wbuf) <= ioq_used(send)

RingsTyped ==
  /\ InRing(recv) /\ InRing(send)
  /\ arrived \in Nat /\ read \in Nat /\ written \in Nat /\ spoiled \in BOOLEAN
  /\ line_len \in 0 .. recv.size
  /\ sent \in Seq(Nat) /\ ssl_wbuf \in Seq(Nat) /\ (~Tls => ssl_wbuf = <<>>)

RingsInv == RingsTyped /\ (~spoiled => ReceivedKept /\ SentKept)

LEMMA FreshRing ==
  /\ InRing(Ring(Size)) /\ ioq_used(Ring(Size)) = 0 /\ HoldsFrom(Ring(Size), 0)
  <1>1. InRing(Ring(Size))
    BY RingSizes DEF Ring, InRing, RingFields
  <1>2. ioq_used(Ring(Size)) = 0
    BY DEF Ring, ioq_used
  <1> QED BY <1>1, <1>2, HoldsPlaces

LEMMA FreshRings ==
  ASSUME recv = Ring(Size), send = Ring(Size), eols = {}, line_len = 0, arrived = 0, read = 0,
         written = 0, sent = <<>>, ssl_wbuf \in Seq(Nat), spoiled \in BOOLEAN,
         ~Tls => ssl_wbuf = <<>>, ~spoiled => ssl_wbuf = <<>>
  PROVE  RingsInv
  <1>1. RingsTyped
    <2>1. 0 \in 0 .. recv.size
      BY FreshRing, RingNumbers
    <2> QED BY <2>1, FreshRing DEF RingsTyped
  <1>2. ReceivedKept
    BY FreshRing DEF ReceivedKept
  <1>3. ASSUME ~spoiled PROVE SentKept
    <2>1. sent = Numbers(0, Len(sent)) /\ ssl_wbuf = Numbers(Len(sent), Len(ssl_wbuf)) /\ Len(sent) = 0 /\ Len(ssl_wbuf) = 0
      BY <1>3 DEF Numbers
    <2> QED BY <2>1, FreshRing DEF SentKept
  <1> QED BY <1>1, <1>2, <1>3 DEF RingsInv

\* Where the next line ends.
LEMMA LineFound ==
  ASSUME NEW q, InRing(q), NEW ends, NEW from \in Nat, HoldsFrom(q, from)
  PROVE  LET l == ioset_find_line_length(q, ends)
         IN  /\ l \in 0 .. ioq_used(q)
             /\ l > 0 => from + l \in ends
             /\ \A k \in 1 .. ioq_used(q) : from + k \in ends => l > 0 /\ l <= k
  <1> DEFINE u == ioq_used(q)
             ended == {k \in 1 .. u : Held(q)[k] \in ends}
             l == ioset_find_line_length(q, ends)
  <1>1. u \in Nat
    BY RingUse
  <1>2. ended = {k \in 1 .. u : from + k \in ends}
    BY DEF HoldsFrom
  <1>3. l = IF ended = {} THEN 0 ELSE CHOOSE k \in ended : \A j \in ended : k <= j
    BY DEF ioset_find_line_length
  <1> HIDE DEF l, ended, u
  <1>4. CASE ended = {}
    BY <1>1, <1>2, <1>3, <1>4 DEF l, u
  <1>5. CASE ended # {}
    <2>1. ended \in SUBSET Nat
      BY <1>2
    <2>2. \E k \in ended : \A j \in ended : k <= j
      BY <1>5, <2>1, LeastOf
    <2>3. l \in ended /\ \A j \in ended : l <= j
      BY <1>3, <1>5, <2>2
    <2> QED BY <1>1, <1>2, <2>3 DEF l, u
  <1> QED BY <1>4, <1>5

\* Even of a ring that is no longer a run of the stream.
LEMMA LineInRing ==
  ASSUME NEW q, InRing(q), NEW ends
  PROVE  ioset_find_line_length(q, ends) \in 0 .. q.size
  <1> DEFINE ended == {k \in 1 .. ioq_used(q) : Held(q)[k] \in ends}
             l == ioset_find_line_length(q, ends)
  <1>1. ioq_used(q) \in Nat /\ ioq_used(q) < q.size /\ q.size \in Nat
    BY RingUse, RingNumbers
  <1>2. l = IF ended = {} THEN 0 ELSE CHOOSE k \in ended : \A j \in ended : k <= j
    BY DEF ioset_find_line_length
  <1>3. ended \in SUBSET Nat /\ \A k \in ended : k <= ioq_used(q)
    BY <1>1
  <1> HIDE DEF ended, l
  <1>4. CASE ended = {}
    BY <1>1, <1>2, <1>4 DEF l
  <1>5. CASE ended # {}
    <2>1. l \in ended
      BY <1>2, <1>3, <1>5, LeastOf
    <2>2. l \in Nat /\ l <= ioq_used(q)
      BY <1>3, <2>1
    <2>3. l \in 0 .. q.size
      BY <1>1, <2>2
    <2> QED BY <2>3 DEF l
  <1> QED BY <1>4, <1>5

\* The least of the line ends that came in.
LEMMA FirstEnd ==
  ASSUME NEW came \in SUBSET Nat, came # {}, NEW m, m = CHOOSE k \in came : \A j \in came : k <= j
  PROVE  m \in came /\ \A j \in came : m <= j
  BY LeastOf

LEMMA BufferedReadKeeps ==
  ASSUME RingsInv, NEW n \in 1 .. MaxIn - arrived, NEW ends \in SUBSET (arrived + 1 .. arrived + n),
         ioset_buffered_read(n, ends)
  PROVE  RingsInv'
  <1> DEFINE full == ioq_put_avail(recv) = 0
             q    == IF full THEN ioq_grow(recv) ELSE recv
             room == IF full THEN q.size - q.put ELSE ioq_put_avail(recv)
             came == {k - arrived : k \in ends}
             first == CHOOSE k \in came : \A j \in came : k <= j
             pos  == q.put + first - 1
  <1>1. /\ line_len = 0 /\ n <= room
        /\ recv' = [q EXCEPT !.buf = Copied(q, q.put, arrived, n), !.put = Wrapped(q.put + n, q)]
        /\ arrived' = arrived + n /\ eols' = eols \union ends
        /\ line_len' = IF ends = {} THEN 0
                        ELSE IF q.put < q.get THEN q.size + pos + 1 - q.get ELSE pos + 1 - q.get
        /\ spoiled' = (spoiled \/ (full /\ n = room))
        /\ read' = read /\ UNCHANGED sendVars
    BY DEF ioset_buffered_read
  <1>2. /\ arrived \in Nat /\ n \in Nat /\ n > 0 /\ InRing(recv) /\ read \in Nat /\ spoiled \in BOOLEAN
    BY StreamBounds DEF RingsInv, RingsTyped
  <1>3. /\ InRing(q) /\ ioq_used(q) = ioq_used(recv) /\ (full => q.get = 0 /\ q.put = ioq_used(recv))
        /\ \A from \in Nat : HoldsFrom(recv, from) => HoldsFrom(q, from)
    BY <1>2, GrowsWhole
  <1>4. /\ q.size \in Nat /\ q.get \in Nat /\ q.put \in Nat /\ q.get < q.size /\ q.put < q.size
        /\ ioq_used(recv) \in Nat
        /\ ioq_used(recv) = IF q.put < q.get THEN q.size + q.put - q.get ELSE q.put - q.get
    <2>1. q.size \in Nat /\ q.get \in Nat /\ q.put \in Nat /\ q.get < q.size /\ q.put < q.size
      BY <1>3, RingNumbers
    <2>2. ioq_used(recv) \in Nat
      BY <1>2, RingUse
    <2>3. ioq_used(q) = IF q.put < q.get THEN q.size + q.put - q.get ELSE q.put - q.get
      BY <2>1 DEF ioq_used
    <2> QED BY <1>3, <2>1, <2>2, <2>3
  <1>5. /\ q.put + n <= q.size
        /\ q.put < q.get => q.put + n < q.get
        /\ ~(full /\ n = room) => Fit(q, n)
    <2>1. CASE full
      <3>1. q.get = 0 /\ room = q.size - q.put
        BY <1>3, <2>1
      <3> QED BY <1>1, <1>2, <1>4, <2>1, <3>1 DEF Fit
    <2>2. CASE ~full
      <3>1. q = recv /\ room = ioq_put_avail(recv)
        BY <2>2
      <3>2. room = IF q.put < q.get THEN q.get - q.put - 1
                   ELSE IF q.get = 0 THEN q.size - q.put - 1 ELSE q.size - q.put
        BY <3>1 DEF ioq_put_avail
      <3> HIDE DEF q, room
      <3> QED BY <1>1, <1>2, <1>4, <3>2 DEF Fit
    <2> QED BY <2>1, <2>2
  <1>6. recv' = Filled(q, arrived, n)
    BY <1>1 DEF Filled
  <1>7. ends = {} \/ (first \in 1 .. n /\ arrived + first \in ends /\ \A k \in ends : arrived + first <= k)
    <2> SUFFICES ASSUME ends # {}
                 PROVE  first \in 1 .. n /\ arrived + first \in ends /\ \A k \in ends : arrived + first <= k
      OBVIOUS
    <2>1. came \in SUBSET Nat /\ came # {} /\ \A j \in came : j \in 1 .. n /\ arrived + j \in ends
      <3>1. ASSUME NEW j \in came PROVE j \in 1 .. n /\ arrived + j \in ends
        <4>1. PICK k \in ends : j = k - arrived
          OBVIOUS
        <4>2. k \in arrived + 1 .. arrived + n /\ arrived + j = k
          BY <1>2, <4>1
        <4> QED BY <1>2, <4>1, <4>2
      <3>2. came # {}
        OBVIOUS
      <3> HIDE DEF came
      <3>3. \A j \in came : j \in 1 .. n /\ arrived + j \in ends
        BY <3>1
      <3>4. came \in SUBSET Nat
        BY <1>2, <3>3
      <3> QED BY <3>2, <3>3, <3>4
    <2>2. first \in came /\ \A j \in came : first <= j
      <3> HIDE DEF came
      <3> QED BY <2>1, FirstEnd
    <2>3. \A k \in ends : k - arrived \in came /\ k \in Int
      BY <1>2
    <2> HIDE DEF came, first
    <2> QED BY <1>2, <2>1, <2>2, <2>3
  <1> HIDE DEF q, full, room, came, first
  <1>8. line_len' = IF ends = {} THEN 0 ELSE ioq_used(recv) + first
    BY <1>1, <1>4, <1>7
  <1>9. RingsTyped'
    <2>1. InRing(recv') /\ recv'.size = q.size
      BY <1>2, <1>3, <1>5, <1>6, FilledRing
    <2>2. line_len' \in 0 .. recv'.size
      BY <1>2, <1>4, <1>5, <1>7, <1>8, <2>1
    <2>3. UNCHANGED <<send, written, sent, ssl_wbuf>>
      BY <1>1 DEF sendVars
    <2> QED BY <1>1, <1>2, <2>1, <2>2, <2>3 DEF RingsInv, RingsTyped
  <1>10. ASSUME ~spoiled' PROVE ReceivedKept' /\ SentKept'
    <2>1. ~spoiled /\ ~(full /\ n = room)
      BY <1>1, <1>2, <1>10
    <2>2. ReceivedKept /\ SentKept
      BY <2>1 DEF RingsInv
    <2>3. HoldsFrom(q, read) /\ arrived = read + ioq_used(q)
      BY <1>2, <1>3, <2>2 DEF ReceivedKept
    <2>4. ioq_used(recv') = ioq_used(recv) + n /\ HoldsFrom(recv', read)
      BY <1>2, <1>3, <1>5, <1>6, <2>1, <2>3, FilledHolds
    <2>5. SentKept'
      BY <1>1, <2>2 DEF SentKept, sendVars, HoldsFrom, Held, ioq_used
    <2>6. eols \subseteq 1 .. arrived /\ eols' \subseteq 1 .. arrived'
      BY <1>1, <1>2, <2>2 DEF ReceivedKept
    <2>7. \A k \in 1 .. ioq_used(recv) : read + k \notin eols
      BY <1>1, <2>2 DEF ReceivedKept
    <2>8. line_len' > 0 => read + line_len' \in eols'
      BY <1>1, <1>2, <1>3, <1>4, <1>7, <1>8, <2>3
    <2>9. ASSUME NEW k \in 1 .. ioq_used(recv'), read + k \in eols'
          PROVE  line_len' > 0 /\ line_len' <= k
      <3>1. read + k \in ends
        <4>1. CASE k <= ioq_used(recv)
          <5>1. read + k \notin eols /\ read + k <= arrived
            BY <1>2, <1>3, <1>4, <2>3, <2>4, <2>7, <4>1
          <5> QED BY <1>1, <2>9, <5>1
        <4>2. CASE k > ioq_used(recv)
          <5>1. read + k > arrived
            BY <1>2, <1>3, <1>4, <2>3, <2>4, <4>2
          <5>2. read + k \notin eols
            BY <1>2, <1>4, <2>4, <2>6, <5>1
          <5> QED BY <1>1, <2>9, <5>2
        <4> QED BY <1>2, <1>4, <2>4, <4>1, <4>2
      <3>2. arrived + first <= read + k /\ ends # {}
        BY <1>7, <3>1
      <3>3. line_len' = ioq_used(recv) + first /\ first \in 1 .. n
        BY <1>7, <1>8, <3>2
      <3>4. arrived = read + ioq_used(recv) /\ k \in Int
        BY <1>2, <1>3, <1>4, <2>3, <2>4
      <3> QED BY <1>2, <1>4, <3>2, <3>3, <3>4
    <2>10. read' + ioq_used(recv') = arrived'
      BY <1>1, <1>2, <1>3, <1>4, <2>3, <2>4
    <2>11. HoldsFrom(recv, read)' /\ (\A k \in 1 .. ioq_used(recv) : read + k \in eols => line_len > 0 /\ line_len <= k)'
      BY <1>1, <2>4, <2>9 DEF HoldsFrom, Held, ioq_used
    <2> QED BY <1>1, <2>5, <2>6, <2>8, <2>10, <2>11 DEF ReceivedKept, HoldsFrom, Held, ioq_used
  <1> QED BY <1>9, <1>10 DEF RingsInv

\* What a step leaves alone stays as it was.
LEMMA ReceivedStays == ASSUME ReceivedKept, UNCHANGED recvVars PROVE ReceivedKept'
  BY DEF ReceivedKept, recvVars, HoldsFrom, Held, ioq_used

LEMMA SentStays == ASSUME SentKept, UNCHANGED sendVars PROVE SentKept'
  BY DEF SentKept, sendVars, HoldsFrom, Held, ioq_used

LEMMA LineReadKeeps ==
  ASSUME RingsInv, ioset_line_read
  PROVE  RingsInv'
  <1> DEFINE max   == IF line_len < MaxLine THEN line_len ELSE MaxLine
             avail == ioq_get_avail(recv)
             get   == IF max > avail THEN max - avail ELSE recv.get + max
             q     == [recv EXCEPT !.get = Wrapped(get, recv)]
             u     == ioq_used(recv)
  <1>1. /\ line_len > 0 /\ recv' = q /\ read' = read + max
        /\ line_len' = ioset_find_line_length(q, eols)
        /\ UNCHANGED <<eols, arrived, sendVars, spoiled>>
    BY DEF ioset_line_read
  <1>2. /\ InRing(recv) /\ read \in Nat /\ arrived \in Nat /\ line_len \in 0 .. recv.size
        /\ recv.size \in Nat /\ recv.get \in Nat /\ recv.put \in Nat /\ recv.get < recv.size /\ recv.put < recv.size
    BY RingNumbers DEF RingsInv, RingsTyped
  <1>3. /\ max \in 1 .. line_len /\ avail \in Nat /\ u \in Nat /\ u < recv.size /\ avail <= u
        /\ recv.get + avail <= recv.size
        /\ recv.put >= recv.get => avail = u
        /\ recv.put < recv.get => recv.get + avail = recv.size
    <2>1. max \in 1 .. line_len
      BY <1>1, <1>2, RingSizes
    <2>2. /\ avail \in 0 .. u /\ u \in 0 .. recv.size - 1
          /\ recv.get + avail <= recv.size
          /\ recv.put >= recv.get => avail = u
          /\ recv.put < recv.get => recv.get + avail = recv.size
      BY <1>2, RingUse
    <2> QED BY <1>2, <2>1, <2>2
  <1> HIDE DEF max, avail, u
  <1>4. get \in 0 .. recv.size
    BY <1>2, <1>3
  <1>5. Wrapped(get, recv) \in 0 .. recv.size - 1
    BY <1>2, <1>4 DEF Wrapped
  <1>6. InRing(q) /\ q.size = recv.size
    BY <1>2, <1>5 DEF InRing, RingFields
  <1>7. RingsTyped'
    <2>1. line_len' \in 0 .. recv'.size
      BY <1>1, <1>6, LineInRing
    <2>2. read' \in Nat
      BY <1>1, <1>2, <1>3
    <2>3. InRing(recv')
      BY <1>1, <1>6
    <2> HIDE DEF q
    <2> QED BY <1>1, <2>1, <2>2, <2>3 DEF RingsInv, RingsTyped, sendVars
  <1>8. ASSUME ~spoiled' PROVE ReceivedKept' /\ SentKept'
    <2>1. ReceivedKept /\ SentKept
      BY <1>1, <1>8 DEF RingsInv
    <2>2. max <= u
      BY <1>1, <1>2, <1>3, <2>1 DEF ReceivedKept, u
    <2>3. Wrapped(get, recv) = Place(recv, max + 1)
      <3>1. CASE max > avail
        BY <1>2, <1>3, <2>2, <3>1 DEF Wrapped, Place
      <3>2. CASE ~(max > avail)
        BY <1>2, <1>3, <2>2, <3>2 DEF Wrapped, Place
      <3> QED BY <3>1, <3>2
    <2>4. recv' = Taken(recv, max)
      BY <1>1, <2>3 DEF Taken
    <2>5. /\ InRing(recv') /\ ioq_used(recv') = u - max /\ HoldsFrom(recv', read + max)
      <3>1. max \in 0 .. u
        BY <1>3, <2>2
      <3>2. HoldsFrom(recv, read)
        BY <2>1 DEF ReceivedKept
      <3> QED BY <1>2, <2>4, <3>1, <3>2, TakenHolds DEF u
    <2>6. /\ line_len' > 0 => read + max + line_len' \in eols
          /\ \A k \in 1 .. ioq_used(recv') : read + max + k \in eols => line_len' > 0 /\ line_len' <= k
      <3>1. line_len' = ioset_find_line_length(recv', eols) /\ read + max \in Nat
        BY <1>1, <1>2, <1>3
      <3> QED BY <2>5, <3>1, LineFound
    <2>7. read' + ioq_used(recv') = arrived'
      BY <1>1, <1>2, <1>3, <2>1, <2>5 DEF ReceivedKept, u
    <2>8. SentKept'
      BY <1>1, <2>1, SentStays
    <2> QED BY <1>1, <2>1, <2>5, <2>6, <2>7, <2>8 DEF ReceivedKept, HoldsFrom, Held, ioq_used
  <1> QED BY <1>7, <1>8 DEF RingsInv

\* The new bytes are in one piece or in two, of which the second starts at 0.
LEMMA WriteKeeps ==
  ASSUME RingsInv, NEW n \in 1 .. MaxOut - written, ioset_write(n)
  PROVE  RingsInv'
  <1> DEFINE grown == IF ioq_used(send) + n >= send.size THEN ioq_grow(send) ELSE send
             avail == ioq_put_avail(grown)
             first == IF n > avail THEN avail ELSE n
             q     == [grown EXCEPT !.buf = Copied(grown, grown.put, written, first),
                                    !.put = IF n > avail THEN 0 ELSE grown.put + first]
             rest  == n - first
             used  == ioq_used(send)
  <1>1. /\ ioq_used(grown) + n < grown.size
        /\ send' = [q EXCEPT !.buf = Copied(q, q.put, written + first, rest), !.put = Wrapped(q.put + rest, q)]
        /\ written' = written + n
        /\ UNCHANGED <<recvVars, sent, ssl_wbuf, spoiled>>
    BY DEF ioset_write
  <1>2. written \in Nat /\ n \in Nat /\ n > 0 /\ InRing(send)
    BY StreamBounds DEF RingsInv, RingsTyped
  <1>3. /\ InRing(grown) /\ ioq_used(grown) = used
        /\ \A from \in Nat : HoldsFrom(send, from) => HoldsFrom(grown, from)
    BY <1>2, GrowsWhole
  <1> HIDE DEF used
  <1>4. /\ grown.size \in Nat /\ grown.get \in Nat /\ grown.put \in Nat
        /\ grown.get < grown.size /\ grown.put < grown.size
        /\ used = IF grown.put < grown.get THEN grown.size + grown.put - grown.get ELSE grown.put - grown.get
        /\ avail = IF grown.put < grown.get THEN grown.get - grown.put - 1
                   ELSE IF grown.get = 0 THEN grown.size - grown.put - 1 ELSE grown.size - grown.put
        /\ used \in Nat /\ used + n < grown.size
    <2>1. /\ grown.size \in Nat /\ grown.get \in Nat /\ grown.put \in Nat
          /\ grown.get < grown.size /\ grown.put < grown.size
      BY <1>3, RingNumbers
    <2>2. ioq_used(grown) = IF grown.put < grown.get THEN grown.size + grown.put - grown.get ELSE grown.put - grown.get
      <3> HIDE DEF grown
      <3> QED BY <2>1 DEF ioq_used
    <2>3. avail = IF grown.put < grown.get THEN grown.get - grown.put - 1
                  ELSE IF grown.get = 0 THEN grown.size - grown.put - 1 ELSE grown.size - grown.put
      BY DEF ioq_put_avail
    <2>4. used \in Nat
      BY <1>2, RingUse DEF used
    <2> HIDE DEF grown, avail
    <2> QED BY <1>1, <1>3, <2>1, <2>2, <2>3, <2>4
  <1>5. /\ InRing(send') /\ send'.size = grown.size
        /\ \A from \in Nat : HoldsFrom(grown, from) /\ from + used = written =>
             HoldsFrom(send', from) /\ ioq_used(send') = used + n
    <2>1. CASE n > avail
      <3> DEFINE g == Filled(grown, written, avail)
      <3>1. /\ ~(grown.put < grown.get) /\ grown.get > 0 /\ avail = grown.size - grown.put
            /\ avail \in Nat /\ rest \in Nat /\ rest > 0 /\ rest < grown.get /\ first = avail /\ n = avail + rest
        <4> HIDE DEF grown, avail
        <4> QED BY <1>2, <1>4, <2>1
      <3>2. q = g
        <4>1. first = avail /\ (IF n > avail THEN 0 ELSE grown.put + first) = 0
          BY <2>1
        <4> HIDE DEF grown, avail, first
        <4>2. Wrapped(grown.put + avail, grown) = 0
          BY <1>4, <3>1 DEF Wrapped
        <4> QED BY <4>1, <4>2 DEF Filled
      <3>3. send' = Filled(g, written + avail, rest)
        <4> HIDE DEF q, g, grown, avail, rest, first
        <4> QED BY <1>1, <3>1, <3>2 DEF Filled
      <3>4. /\ InRing(g) /\ g.size = grown.size /\ g.get = grown.get /\ g.put = 0
        <4> HIDE DEF grown, avail
        <4>1. grown.put + avail <= grown.size /\ grown.put + avail = grown.size
          BY <1>4, <3>1
        <4>2. /\ InRing(Filled(grown, written, avail)) /\ Filled(grown, written, avail).size = grown.size
              /\ Filled(grown, written, avail).get = grown.get
              /\ Filled(grown, written, avail).put = IF grown.put + avail = grown.size THEN 0 ELSE grown.put + avail
          BY <1>2, <1>3, <3>1, <4>1, FilledRing
        <4> QED BY <4>1, <4>2
      <3> HIDE DEF grown, avail, q, g, rest, first
      <3>5. InRing(send') /\ send'.size = grown.size
        <4>1. g.put + rest <= g.size /\ written + avail \in Nat
          BY <1>2, <1>4, <3>1, <3>4
        <4> QED BY <3>1, <3>3, <3>4, <4>1, FilledRing
      <3>6. ASSUME NEW from \in Nat, HoldsFrom(grown, from), from + used = written
            PROVE  HoldsFrom(send', from) /\ ioq_used(send') = used + n
        <4>1. Fit(grown, avail)
          BY <1>4, <3>1 DEF Fit
        <4>2. written = from + ioq_used(grown)
          BY <1>3, <3>6
        <4>3. ioq_used(g) = used + avail /\ HoldsFrom(g, from)
          BY <1>3, <3>1, <3>6, <4>1, <4>2, FilledHolds DEF g
        <4>4. Fit(g, rest)
          BY <1>4, <3>1, <3>4 DEF Fit
        <4>5. written + avail = from + ioq_used(g)
          BY <1>2, <1>4, <3>1, <3>6, <4>3
        <4>6. ioq_used(send') = (used + avail) + rest /\ HoldsFrom(send', from)
          BY <3>1, <3>3, <3>4, <4>3, <4>4, <4>5, FilledHolds
        <4> QED BY <1>4, <3>1, <4>6
      <3> QED BY <3>5, <3>6
    <2>2. CASE ~(n > avail)
      <3>1. first = n /\ rest = 0
        BY <1>2, <2>2
      <3>2. q.put = grown.put + n /\ q.size = grown.size /\ DOMAIN q = RingFields /\ q.get = grown.get
            /\ q.buf = Copied(grown, grown.put, written, n)
        <4>1. DOMAIN grown = RingFields
          BY <1>3 DEF InRing
        <4> HIDE DEF grown, avail, rest, first
        <4> QED BY <2>2, <3>1, <4>1 DEF RingFields
      <3> HIDE DEF grown, avail, q, rest, first
      <3>3. Copied(q, q.put, written + first, rest) = Copied(grown, grown.put, written, n)
        <4>1. q.put \in Nat
          BY <1>2, <1>4, <3>2
        <4>2. \A i \in 0 .. q.size - 1 : i \notin q.put .. q.put + rest - 1
          BY <1>4, <3>1, <3>2, <4>1
        <4>3. Copied(q, q.put, written + first, rest) = [i \in 0 .. q.size - 1 |-> q.buf[i]]
          BY <4>2 DEF Copied
        <4> QED BY <3>2, <4>3 DEF Copied
      <3>4. send' = Filled(grown, written, n)
        <4>1. q.put + rest = grown.put + n
          BY <1>2, <1>4, <3>1, <3>2
        <4>2. Wrapped(q.put + rest, q) = Wrapped(grown.put + n, grown)
          BY <3>2, <4>1 DEF Wrapped
        <4>3. /\ DOMAIN send' = RingFields /\ send'.size = grown.size /\ send'.get = grown.get
              /\ send'.buf = Copied(grown, grown.put, written, n) /\ send'.put = Wrapped(grown.put + n, grown)
          BY <1>1, <3>2, <3>3, <4>2 DEF RingFields
        <4>4. /\ DOMAIN Filled(grown, written, n) = RingFields
              /\ Filled(grown, written, n).size = grown.size /\ Filled(grown, written, n).get = grown.get
              /\ Filled(grown, written, n).buf = Copied(grown, grown.put, written, n)
              /\ Filled(grown, written, n).put = Wrapped(grown.put + n, grown)
          BY <1>3 DEF Filled, InRing, RingFields
        <4>5. send' = [f \in RingFields |-> send'[f]] /\ Filled(grown, written, n) = [f \in RingFields |-> Filled(grown, written, n)[f]]
          BY <1>1, <1>3, <3>2, <4>3, <4>4 DEF Filled
        <4> QED BY <4>3, <4>4, <4>5 DEF RingFields
      <3>5. grown.put + n <= grown.size /\ Fit(grown, n)
        BY <1>2, <1>4, <2>2 DEF Fit
      <3>6. InRing(send') /\ send'.size = grown.size
        BY <1>2, <1>3, <3>4, <3>5, FilledRing
      <3>7. ASSUME NEW from \in Nat, HoldsFrom(grown, from), from + used = written
            PROVE  HoldsFrom(send', from) /\ ioq_used(send') = used + n
        <4>1. written = from + ioq_used(grown)
          BY <1>3, <3>7
        <4> QED BY <1>2, <1>3, <3>4, <3>5, <3>7, <4>1, FilledHolds
      <3> QED BY <3>6, <3>7
    <2> QED BY <2>1, <2>2
  <1> HIDE DEF grown, avail, q, rest, first
  <1>6. RingsTyped'
    <2>1. written' \in Nat
      BY <1>1, <1>2
    <2> QED BY <1>1, <1>5, <2>1 DEF RingsInv, RingsTyped, recvVars
  <1>7. ASSUME ~spoiled' PROVE ReceivedKept' /\ SentKept'
    <2>1. ReceivedKept /\ SentKept
      BY <1>1, <1>7 DEF RingsInv
    <2>2. ReceivedKept'
      BY <1>1, <2>1, ReceivedStays
    <2>3. Len(sent) \in Nat /\ Len(ssl_wbuf) \in Nat
      BY DEF RingsInv, RingsTyped
    <2>4. HoldsFrom(send', Len(sent)) /\ ioq_used(send') = used + n
      BY <1>3, <1>5, <2>1, <2>3 DEF SentKept, used
    <2>5. Len(sent) + ioq_used(send') = written' /\ Len(ssl_wbuf) <= ioq_used(send')
      BY <1>1, <1>2, <1>4, <2>1, <2>3, <2>4, SMTT(30) DEF SentKept, used
    <2> QED BY <1>1, <2>1, <2>2, <2>4, <2>5 DEF SentKept, HoldsFrom, Held, ioq_used
  <1> QED BY <1>6, <1>7 DEF RingsInv

LEMMA NumbersLonger ==
  ASSUME NEW a \in Nat, NEW m \in Nat, NEW n \in Nat
  PROVE  /\ Numbers(a, m) \in Seq(Nat) /\ Len(Numbers(a, m)) = m
         /\ Numbers(a, m) \o Numbers(a + m, n) = Numbers(a, m + n)
  <1>1. \A b, k \in Nat : Numbers(b, k) \in Seq(Nat) /\ Len(Numbers(b, k)) = k /\ \A i \in 1 .. k : Numbers(b, k)[i] = b + i
    BY DEF Numbers
  <1>2. a + m \in Nat /\ m + n \in Nat
    OBVIOUS
  <1> DEFINE s == Numbers(a, m)
             t == Numbers(a + m, n)
             r == Numbers(a, m + n)
  <1>3. /\ s \in Seq(Nat) /\ Len(s) = m /\ \A i \in 1 .. m : s[i] = a + i
        /\ t \in Seq(Nat) /\ Len(t) = n /\ \A i \in 1 .. n : t[i] = a + m + i
        /\ r \in Seq(Nat) /\ Len(r) = m + n /\ \A i \in 1 .. m + n : r[i] = a + i
    <2>1. r \in Seq(Nat) /\ Len(r) = m + n /\ \A i \in 1 .. m + n : r[i] = a + i
      <3> DEFINE k == m + n
      <3> HIDE DEF k
      <3>1. Numbers(a, k) \in Seq(Nat) /\ Len(Numbers(a, k)) = k /\ \A i \in 1 .. k : Numbers(a, k)[i] = a + i
        BY <1>1, <1>2 DEF k
      <3> QED BY <3>1 DEF k
    <2> QED BY <1>1, <1>2, <2>1
  <1> HIDE DEF s, t, r
  <1>4. s \o t \in Seq(Nat) /\ Len(s \o t) = m + n
    BY <1>3, ConcatProperties
  <1>5. ASSUME NEW i \in 1 .. m + n PROVE (s \o t)[i] = r[i]
    <2>1. CASE i <= m
      <3>1. (s \o t)[i] = s[i]
        BY <1>3, <2>1, ConcatProperties
      <3> QED BY <1>3, <2>1, <3>1
    <2>2. CASE i > m
      <3>1. i - m \in 1 .. n /\ i \in 1 .. Len(s) + Len(t) /\ ~(i <= Len(s)) /\ i - Len(s) = i - m
        BY <1>3, <2>2
      <3>2. (s \o t)[i] = t[i - m]
        BY <1>3, <3>1, ConcatProperties
      <3>3. t[i - m] = a + m + (i - m)
        BY <1>3, <3>1
      <3>4. a + m + (i - m) = a + i
        OBVIOUS
      <3>5. r[i] = a + i
        BY <1>3
      <3> QED BY <3>2, <3>3, <3>4, <3>5
    <2>3. i <= m \/ i > m
      OBVIOUS
    <2> QED BY <2>1, <2>2, <2>3
  <1>6. s \o t = r
    <2>1. Len(s \o t) = Len(r) /\ \A i \in 1 .. Len(s \o t) : (s \o t)[i] = r[i]
      BY <1>3, <1>4, <1>5
    <2> QED BY <1>3, <1>4, <2>1, SeqEqual
  <1> QED BY <1>3, <1>6 DEF s, t, r

\* The first n bytes of a run.
LEMMA HeldFirst ==
  ASSUME NEW q, InRing(q), NEW from \in Nat, HoldsFrom(q, from), NEW n \in 0 .. ioq_used(q)
  PROVE  SubSeq(Held(q), 1, n) = Numbers(from, n)
  <1>1. ioq_used(q) \in Nat /\ Held(q) \in Seq(Nat) /\ Len(Held(q)) = ioq_used(q)
    BY RingUse, HeldPlace
  <1>2. SubSeq(Held(q), 1, n) = [i \in 1 .. n |-> Held(q)[i]]
    BY <1>1
  <1>3. \A i \in 1 .. n : Held(q)[i] = from + i
    BY <1>1 DEF HoldsFrom
  <1> QED BY <1>2, <1>3 DEF Numbers

\* The socket took n bytes.
LEMMA SentMore ==
  ASSUME RingsInv, NEW n \in 0 .. ioq_used(send), SentKept, sent' = sent \o Numbers(Len(sent), n),
         send' = Taken(send, n), written' = written, ssl_wbuf' = <<>>
  PROVE  SentKept'
  <1>1. InRing(send) /\ sent \in Seq(Nat) /\ Len(sent) \in Nat /\ written \in Nat /\ n \in Nat /\ ioq_used(send) \in Nat
    BY RingUse DEF RingsInv, RingsTyped
  <1>2. sent = Numbers(0, Len(sent))
    BY DEF SentKept
  <1>3. sent' = Numbers(0, Len(sent) + n) /\ Len(sent') = Len(sent) + n
    <2> DEFINE m == Len(sent)
    <2> HIDE DEF m
    <2>1. m \in Nat /\ m + n \in Nat /\ 0 \in Nat /\ 0 + m = m
      BY <1>1 DEF m
    <2>2. Numbers(0, m) \o Numbers(0 + m, n) = Numbers(0, m + n) /\ Len(Numbers(0, m + n)) = m + n
      <3>1. Numbers(0, m) \o Numbers(0 + m, n) = Numbers(0, m + n)
        BY <1>1, <2>1, NumbersLonger, ZenonT(30)
      <3>2. Len(Numbers(0, m + n)) = m + n
        BY <2>1, NumbersLonger
      <3> QED BY <3>1, <3>2
    <2> QED BY <1>2, <2>1, <2>2 DEF m
  <1>4. HoldsFrom(send', Len(sent) + n) /\ ioq_used(send') = ioq_used(send) - n
    BY <1>1, TakenHolds DEF SentKept
  <1>5. Len(sent') + ioq_used(send') = written'
    BY <1>1, <1>3, <1>4 DEF SentKept
  <1>6. ssl_wbuf' = Numbers(Len(sent'), Len(ssl_wbuf')) /\ Len(ssl_wbuf') = 0 /\ 0 <= ioq_used(send')
    BY <1>1, <1>4 DEF Numbers
  <1> QED BY <1>3, <1>4, <1>5, <1>6 DEF SentKept, HoldsFrom, Held, ioq_used

LEMMA PlainKeeps ==
  ASSUME RingsInv, NEW n \in 1 .. MaxOut, TryWritePlain(n)
  PROVE  RingsInv'
  <1>1. /\ ~Tls /\ n \in 1 .. ioq_get_avail(send)
        /\ sent' = sent \o SubSeq(Held(send), 1, n)
        /\ send' = [send EXCEPT !.get = Wrapped(send.get + n, send)]
        /\ UNCHANGED <<recvVars, written, ssl_wbuf, spoiled>>
    BY DEF TryWritePlain
  <1>2. InRing(send) /\ sent \in Seq(Nat) /\ Len(sent) \in Nat /\ ssl_wbuf = <<>>
    BY <1>1 DEF RingsInv, RingsTyped
  <1>3. /\ send.size \in Nat /\ send.get \in Nat /\ send.put \in Nat /\ send.get < send.size
        /\ ioq_used(send) \in Nat /\ n \in 0 .. ioq_used(send) /\ send.get + n <= send.size
    <2>1. ioq_used(send) \in Nat /\ ioq_get_avail(send) \in 0 .. ioq_used(send) /\ send.get + ioq_get_avail(send) <= send.size
      BY <1>2, RingUse
    <2> QED BY <1>1, <1>2, <2>1, RingNumbers
  <1>4. send' = Taken(send, n)
    <2>1. Wrapped(send.get + n, send) = Place(send, n + 1)
      <3>1. n \in Nat /\ send.get + (n + 1) - 1 = send.get + n
        BY <1>3
      <3>2. Place(send, n + 1) = IF send.get + n < send.size THEN send.get + n ELSE send.get + n - send.size
        BY <3>1 DEF Place
      <3> QED BY <1>3, <3>1, <3>2 DEF Wrapped
    <2> QED BY <1>1, <2>1 DEF Taken
  <1>5. RingsTyped'
    <2>1. InRing(send')
      BY <1>2, <1>3, <1>4, TakenHolds
    <2>2. SubSeq(Held(send), 1, n) \in Seq(Nat)
      BY <1>2, <1>3, HeldPlace, SMTT(30)
    <2>3. sent' \in Seq(Nat)
      BY <1>1, <1>2, <2>2
    <2> QED BY <1>1, <2>1, <2>3 DEF RingsInv, RingsTyped, recvVars
  <1>6. ASSUME ~spoiled' PROVE ReceivedKept' /\ SentKept'
    <2>1. ReceivedKept /\ SentKept
      BY <1>1, <1>6 DEF RingsInv
    <2>2. SubSeq(Held(send), 1, n) = Numbers(Len(sent), n)
      BY <1>2, <1>3, <2>1, HeldFirst DEF SentKept
    <2>3. SentKept'
      BY <1>1, <1>2, <1>3, <1>4, <2>1, <2>2, SentMore
    <2> QED BY <1>1, <2>1, <2>3, ReceivedStays
  <1> QED BY <1>5, <1>6 DEF RingsInv

\* What TLS is offered, whatever has been spoiled.
LEMMA OfferedBytes ==
  ASSUME RingsTyped
  PROVE  Offered \in Seq(Nat)
  <1> DEFINE used == ioq_used(send)
             seg1 == ioq_get_avail(send)
             seg2 == used - seg1
             one  == IF seg1 > Scratch THEN Scratch ELSE seg1
             held == Held(send)
  <1>1. Offered = IF ssl_wbuf # <<>> THEN ssl_wbuf
                  ELSE IF one + seg2 <= Scratch THEN SubSeq(held, 1, one) \o SubSeq(held, seg1 + 1, used)
                  ELSE [k \in 1 .. one + seg2 |-> IF k <= one THEN held[k] ELSE 0]
    BY DEF Offered
  <1>2. held \in Seq(Nat) /\ Len(held) = used /\ used \in Nat /\ seg1 \in 0 .. used
    BY HeldPlace, RingUse DEF RingsTyped
  <1> HIDE DEF used, seg1, held
  <1>3. one \in 0 .. seg1 /\ seg2 \in Nat /\ one + seg2 \in Nat
    BY <1>2, RingSizes
  <1>4. SubSeq(held, 1, one) \in Seq(Nat) /\ SubSeq(held, seg1 + 1, used) \in Seq(Nat)
    <2>1. /\ one \in Int /\ seg1 + 1 \in Int /\ used \in Int
          /\ \A i \in 1 .. one : held[i] \in Nat
          /\ \A i \in seg1 + 1 .. used : held[i] \in Nat
      <3>1. \A i \in 1 .. Len(held) : held[i] \in Nat
        BY <1>2, ElementOfSeq
      <3> HIDE DEF one
      <3>2. \A i \in 1 .. one : i \in 1 .. Len(held)
        BY <1>2, <1>3
      <3>3. \A i \in seg1 + 1 .. used : i \in 1 .. Len(held)
        BY <1>2
      <3> QED BY <1>2, <1>3, <3>1, <3>2, <3>3
    <2> HIDE DEF one
    <2>2. SubSeq(held, 1, one) \in Seq(Nat)
      BY <2>1, SubSeqProperties
    <2>3. SubSeq(held, seg1 + 1, used) \in Seq(Nat)
      BY <2>1, SubSeqProperties
    <2> QED BY <2>2, <2>3
  <1>5. SubSeq(held, 1, one) \o SubSeq(held, seg1 + 1, used) \in Seq(Nat)
    BY <1>4
  <1>6. [k \in 1 .. one + seg2 |-> IF k <= one THEN held[k] ELSE 0] \in Seq(Nat)
    <2>1. \A k \in 1 .. one + seg2 : (IF k <= one THEN held[k] ELSE 0) \in Nat
      BY <1>2, <1>3
    <2> HIDE DEF one, seg2
    <2> QED BY <1>3, <2>1
  <1>7. ssl_wbuf \in Seq(Nat)
    BY DEF RingsTyped
  <1> QED BY <1>1, <1>5, <1>6, <1>7

\* Unless the scratch buffer is overrun, it is the first of what is to be sent.
LEMMA OfferedFirst ==
  ASSUME RingsInv, SentKept, ~Overrun
  PROVE  /\ Offered = Numbers(Len(sent), Len(Offered))
         /\ Len(Offered) \in 0 .. ioq_used(send)
  <1> DEFINE used == ioq_used(send)
             seg1 == ioq_get_avail(send)
             seg2 == used - seg1
             one  == IF seg1 > Scratch THEN Scratch ELSE seg1
             held == Held(send)
  <1>1. Offered = IF ssl_wbuf # <<>> THEN ssl_wbuf
                  ELSE IF one + seg2 <= Scratch THEN SubSeq(held, 1, one) \o SubSeq(held, seg1 + 1, used)
                  ELSE [k \in 1 .. one + seg2 |-> IF k <= one THEN held[k] ELSE 0]
    BY DEF Offered
  <1>2. held \in Seq(Nat) /\ Len(held) = used /\ used \in Nat /\ seg1 \in 0 .. used /\ Len(sent) \in Nat
    BY HeldPlace, RingUse DEF RingsInv, RingsTyped
  <1>3. \A n \in 0 .. used : SubSeq(held, 1, n) = Numbers(Len(sent), n)
    BY HeldFirst, <1>2 DEF RingsInv, RingsTyped, SentKept
  <1>4. CASE ssl_wbuf # <<>>
    <2>1. Len(ssl_wbuf) \in Nat
      BY DEF RingsInv, RingsTyped
    <2> QED BY <1>1, <1>4, <2>1 DEF SentKept
  <1>5. CASE ssl_wbuf = <<>>
    <2>1. used <= Scratch \/ seg1 = used
      BY <1>2, <1>5, RingSizes DEF Overrun
    <2> HIDE DEF used, seg1, held
    <2>2. one \in 0 .. seg1 /\ one + seg2 <= Scratch /\ (seg1 = used \/ one = seg1)
      BY <1>2, <2>1, RingSizes
    <2>3. Offered = SubSeq(held, 1, one) \o SubSeq(held, seg1 + 1, used)
      BY <1>1, <1>5, <2>2
    <2>4. \E n \in 0 .. used : Offered = SubSeq(held, 1, n)
      <3> HIDE DEF one, seg2
      <3>1. CASE seg1 = used
        <4>1. SubSeq(held, seg1 + 1, used) = <<>>
          BY <1>2, <3>1
        <4>2. SubSeq(held, 1, one) \in Seq(Nat)
          BY <1>2, <2>2
        <4>3. SubSeq(held, 1, one) \o <<>> = SubSeq(held, 1, one)
          BY <4>2
        <4> QED BY <1>2, <2>2, <2>3, <4>1, <4>3
      <3>2. CASE one = seg1
        <4>1. SubSeq(held, 1, seg1) \o SubSeq(held, seg1 + 1, used) = SubSeq(held, 1, used)
          <5>1. 1 \in 1 .. Len(held) + 1 /\ seg1 \in 1 - 1 .. Len(held) /\ used \in seg1 .. Len(held)
            BY <1>2
          <5> QED BY <1>2, <5>1, ConcatAdjacentSubSeq
        <4>2. Offered = SubSeq(held, 1, used)
          BY <2>3, <3>2, <4>1
        <4> QED BY <1>2, <4>2
      <3> QED BY <2>2, <3>1, <3>2
    <2>5. PICK n \in 0 .. used : Offered = Numbers(Len(sent), n)
      BY <1>3, <2>4
    <2>6. Len(Offered) = n
      BY <1>2, <2>5, NumbersLonger
    <2> QED BY <1>2, <2>5, <2>6 DEF used
  <1> QED BY <1>4, <1>5

LEMMA TlsKeeps ==
  ASSUME RingsInv, NEW accepted \in BOOLEAN, TryWriteTls(accepted)
  PROVE  RingsInv'
  <1> DEFINE l == Len(Offered)
  <1>1. /\ Tls /\ ssl_wbuf' = (IF accepted THEN <<>> ELSE Offered)
        /\ sent' = (IF accepted THEN sent \o Offered ELSE sent)
        /\ send' = (IF accepted THEN [send EXCEPT !.get = (send.get + l) % send.size] ELSE send)
        /\ spoiled' = (spoiled \/ Overrun)
        /\ UNCHANGED <<recvVars, written>>
    BY DEF TryWriteTls
  <1>2. /\ InRing(send) /\ sent \in Seq(Nat) /\ Len(sent) \in Nat /\ Offered \in Seq(Nat) /\ l \in Nat
        /\ spoiled \in BOOLEAN
    BY OfferedBytes DEF RingsInv, RingsTyped
  <1> HIDE DEF l
  <1>3. /\ send.size \in Nat \ {0} /\ send.get \in Nat /\ send.get < send.size
        /\ ioq_used(send) \in Nat /\ ioq_used(send) < send.size
    <2>1. send.size \in Nat \ {0} /\ send.get \in Nat /\ send.get < send.size
      BY <1>2, RingNumbers DEF InRing
    <2>2. ioq_used(send) \in 0 .. send.size - 1
      BY <1>2, RingUse
    <2> QED BY <2>1, <2>2
  <1>4. RingsTyped'
    <2>1. InRing(send')
      <3>1. (send.get + l) % send.size \in 0 .. send.size - 1
        BY <1>2, <1>3
      <3> QED BY <1>1, <1>2, <3>1 DEF InRing, RingFields
    <2>2. sent' \in Seq(Nat) /\ ssl_wbuf' \in Seq(Nat)
      <3>1. sent \o Offered \in Seq(Nat)
        BY <1>2, ConcatProperties
      <3> QED BY <1>1, <1>2, <3>1
    <2>3. spoiled' \in BOOLEAN
      BY <1>1 DEF Overrun
    <2> QED BY <1>1, <2>1, <2>2, <2>3 DEF RingsInv, RingsTyped, recvVars
  <1>5. ASSUME ~spoiled' PROVE ReceivedKept' /\ SentKept'
    <2>1. ~spoiled /\ ~Overrun
      BY <1>1, <1>5
    <2>2. ReceivedKept /\ SentKept
      BY <2>1 DEF RingsInv
    <2>3. Offered = Numbers(Len(sent), l) /\ l \in 0 .. ioq_used(send)
      BY <2>1, <2>2, OfferedFirst DEF l
    <2>4. ReceivedKept'
      BY <1>1, <2>2, ReceivedStays
    <2>5. CASE accepted
      <3>1. send' = Taken(send, l)
        <4>1. send.get + l \in Nat /\ send.get + l < 2 * send.size
          BY <1>3, <2>3
        <4>2. (send.get + l) % send.size = IF send.get + l < send.size THEN send.get + l ELSE send.get + l - send.size
          <5> DEFINE i == send.get + l
          <5> HIDE DEF i
          <5>1. i % send.size = IF i < send.size THEN i ELSE i - send.size
            BY <1>3, <4>1, Around DEF i
          <5> QED BY <1>2, <1>3, <5>1 DEF i
        <4>3. send.get + (l + 1) - 1 = send.get + l
          BY <1>3, <2>3
        <4>4. (send.get + l) % send.size = Place(send, l + 1)
          BY <1>2, <1>3, <4>2, <4>3 DEF Place
        <4> QED BY <1>1, <2>5, <4>4 DEF Taken
      <3>2. sent' = sent \o Numbers(Len(sent), l) /\ written' = written /\ ssl_wbuf' = <<>>
        BY <1>1, <2>3, <2>5
      <3> QED BY <2>2, <2>3, <2>4, <3>1, <3>2, SentMore
    <2>6. CASE ~accepted
      <3>1. UNCHANGED <<sent, send, written>> /\ ssl_wbuf' = Offered
        BY <1>1, <2>6
      <3>2. ssl_wbuf' = Numbers(Len(sent), Len(ssl_wbuf')) /\ Len(ssl_wbuf') <= ioq_used(send)
        BY <1>3, <2>3, <3>1 DEF l
      <3> QED BY <2>2, <2>4, <3>1, <3>2 DEF SentKept, HoldsFrom, Held, ioq_used
    <2> QED BY <2>5, <2>6
  <1> QED BY <1>4, <1>5 DEF RingsInv

LEMMA ReopenKeeps ==
  ASSUME RingsInv, NEW same \in BOOLEAN, Reopen(same)
  PROVE  RingsInv'
  <1>1. ssl_wbuf \in Seq(Nat) /\ (~Tls => ssl_wbuf = <<>>)
    BY DEF RingsInv, RingsTyped
  <1>2. <<>> \in Seq(Nat)
    BY EmptySeq
  <1>3. /\ (recv = Ring(Size))' /\ (send = Ring(Size))' /\ eols' = {} /\ line_len' = 0
        /\ arrived' = 0 /\ read' = 0 /\ written' = 0 /\ sent' = <<>>
    BY DEF Reopen, Ring
  <1>4. /\ ssl_wbuf' \in Seq(Nat) /\ spoiled' \in BOOLEAN
        /\ (~Tls => ssl_wbuf' = <<>>) /\ (~spoiled' => ssl_wbuf' = <<>>)
    BY <1>1, <1>2 DEF Reopen
  <1>5. RingsTyped'
    <2>1. InRing(Ring(Size))' /\ 0 \in 0 .. Ring(Size).size
      BY FreshRing, RingNumbers DEF InRing, Ring
    <2> QED BY <1>2, <1>3, <1>4, <2>1 DEF RingsTyped
  <1>6. HoldsFrom(recv, 0)' /\ HoldsFrom(send, 0)' /\ ioq_used(recv)' = 0 /\ ioq_used(send)' = 0
    BY <1>3, FreshRing DEF HoldsFrom, Held, ioq_used, Ring
  <1>7. ReceivedKept'
    BY <1>3, <1>6 DEF ReceivedKept
  <1>8. ASSUME ~spoiled' PROVE SentKept'
    <2>1. sent' = Numbers(0, Len(sent')) /\ ssl_wbuf' = Numbers(Len(sent'), Len(ssl_wbuf')) /\ Len(sent') = 0 /\ Len(ssl_wbuf') = 0
      BY <1>3, <1>4, <1>8 DEF Numbers
    <2> QED BY <1>3, <1>6, <2>1 DEF SentKept
  <1> QED BY <1>5, <1>7, <1>8 DEF RingsInv

LEMMA RingsStep == RingsInv /\ [IoNext]_ioVars => RingsInv'
  <1> SUFFICES ASSUME RingsInv, [IoNext]_ioVars PROVE RingsInv'
    OBVIOUS
  <1>1. ASSUME NEW n \in 1 .. MaxIn - arrived, NEW ends \in SUBSET (arrived + 1 .. arrived + n),
               ioset_buffered_read(n, ends)
        PROVE  RingsInv'
    BY <1>1, BufferedReadKeeps
  <1>2. CASE ioset_line_read
    BY <1>2, LineReadKeeps
  <1>3. ASSUME NEW n \in 1 .. MaxOut - written, ioset_write(n) PROVE RingsInv'
    BY <1>3, WriteKeeps
  <1>4. ASSUME NEW n \in 1 .. MaxOut, TryWritePlain(n) PROVE RingsInv'
    BY <1>4, PlainKeeps
  <1>5. ASSUME NEW accepted \in BOOLEAN, TryWriteTls(accepted) PROVE RingsInv'
    BY <1>5, TlsKeeps
  <1>6. ASSUME NEW same \in BOOLEAN, Reopen(same) PROVE RingsInv'
    BY <1>6, ReopenKeeps
  <1>7. CASE UNCHANGED ioVars
    BY <1>7 DEF ioVars, recvVars, sendVars, RingsInv, RingsTyped, ReceivedKept, SentKept, HoldsFrom, Held, ioq_used, InRing
  <1> QED BY <1>1, <1>2, <1>3, <1>4, <1>5, <1>6, <1>7 DEF IoNext

LEMMA RingsQueue == RingsInv => RingsAreQueues
  <1> SUFFICES ASSUME RingsInv, ~spoiled
               PROVE  /\ Held(recv) = [k \in 1 .. arrived - read |-> read + k]
                      /\ line_len > 0 => /\ read + line_len \in eols
                                         /\ \A k \in 1 .. line_len - 1 : read + k \notin eols
                      /\ sent \o Held(send) = [k \in 1 .. written |-> k]
                      /\ line_len > 0 /\ MaxLine > ioq_get_avail(recv) /\ line_len > ioq_get_avail(recv)
                             => recv.get + ioq_get_avail(recv) = recv.size
    BY DEF RingsAreQueues
  <1>1. ReceivedKept /\ SentKept /\ RingsTyped
    BY DEF RingsInv
  <1>2. /\ InRing(recv) /\ InRing(send) /\ arrived \in Nat /\ read \in Nat /\ written \in Nat
        /\ line_len \in Nat /\ Len(sent) \in Nat /\ ioq_used(recv) \in Nat /\ ioq_used(send) \in Nat
    BY <1>1, RingUse, RingNumbers DEF RingsTyped
  <1>3. Held(recv) = [k \in 1 .. arrived - read |-> read + k]
    <2>1. arrived - read = ioq_used(recv)
      BY <1>1, <1>2 DEF ReceivedKept
    <2> QED BY <1>1, <2>1 DEF ReceivedKept, HoldsFrom
  <1>4. ASSUME line_len > 0
        PROVE  /\ read + line_len \in eols /\ line_len <= ioq_used(recv)
               /\ \A k \in 1 .. line_len - 1 : read + k \notin eols
    <2>1. read + line_len \in eols /\ read + line_len <= arrived
      BY <1>1, <1>2, <1>4 DEF ReceivedKept
    <2>2. line_len <= ioq_used(recv)
      BY <1>1, <1>2, <2>1 DEF ReceivedKept
    <2>3. ASSUME NEW k \in 1 .. line_len - 1, read + k \in eols PROVE FALSE
      <3>1. k \in 1 .. ioq_used(recv) /\ k < line_len
        BY <1>2, <2>2
      <3> QED BY <1>1, <1>2, <2>3, <3>1 DEF ReceivedKept
    <2> QED BY <2>1, <2>2, <2>3
  <1>5. sent \o Held(send) = [k \in 1 .. written |-> k]
    <2> DEFINE m == Len(sent)
               n == ioq_used(send)
    <2>1. sent = Numbers(0, m) /\ Held(send) = Numbers(m, n) /\ m + n = written
      BY <1>1 DEF SentKept, HoldsFrom, Numbers
    <2>2. m \in Nat /\ n \in Nat /\ 0 + m = m
      BY <1>2
    <2> HIDE DEF m, n
    <2>3. Numbers(0, m) \o Numbers(0 + m, n) = Numbers(0, m + n)
      BY <2>2, NumbersLonger
    <2>4. Numbers(0, written) = [k \in 1 .. written |-> k]
      BY <1>2 DEF Numbers
    <2> QED BY <2>1, <2>2, <2>3, <2>4
  <1>6. ASSUME line_len > 0, line_len > ioq_get_avail(recv) PROVE recv.get + ioq_get_avail(recv) = recv.size
    <2>1. ioq_get_avail(recv) # ioq_used(recv)
      BY <1>2, <1>4, <1>6
    <2>2. recv.put < recv.get
      BY <1>2, <2>1, RingUse, RingNumbers
    <2> QED BY <1>2, <2>2, RingUse
  <1> QED BY <1>3, <1>4, <1>5, <1>6

\* For every first size, scratch buffer and length of lines, however often a ring wraps, grows, is
\* half sent or given to the next connection: what was received and not read, and what was written
\* and not sent, is there, whole and in order, and an announced line ends where its last byte is
\* (ioset_buffered_read, ioset_line_read, ioset_write, ioset_try_write).
THEOREM RingsStayQueues == IoSpec => []RingsAreQueues
  <1>1. IoInit => RingsInv
    <2> SUFFICES ASSUME IoInit PROVE RingsInv
      OBVIOUS
    <2> QED BY FreshRings, EmptySeq DEF IoInit
  <1> QED BY <1>1, RingsStep, RingsQueue, PTL DEF IoSpec

-----------------------------------------------------------------------------
(* The proxy scanner.  A check is under a timer exactly when it is past    *)
(* its start, at most one is at its start, and what is queued is no check. *)

AllTests == Range(Tests) \union NewTests

Check == [addr : ScanAddresses, tests : Seq(AllTests), test_index : Nat, test_rep : Nat,
          phase : {"begin", "connecting", "reading"}, index : Nat]
Queued == [id : 1 .. MaxSci, addr : ScanAddresses]

Waiting(T) == {t.client : t \in T}
Started(cl) == {c \in DOMAIN cl : cl[c].phase # "begin"}

TestList(list) == list \in Seq(AllTests) /\ IsInjective(list) /\ Range(Tests) \subseteq Range(list) /\ list # <<>>

ChecksShaped(cl) == DOMAIN cl \subseteq 1 .. MaxSci /\ cl \in [DOMAIN cl -> Check]
Runnable(cl, list) ==
  \A c \in DOMAIN cl : cl[c].test_index \in DOMAIN cl[c].tests /\ Range(cl[c].tests) \subseteq Range(list)
OneBegins(cl) == \A c, d \in DOMAIN cl : cl[c].phase = "begin" /\ cl[d].phase = "begin" => c = d

QueueApart(pend, cl) ==
  /\ pend \in Seq(Queued)
  /\ \A i \in DOMAIN pend : pend[i].id \notin DOMAIN cl
  /\ \A i, j \in DOMAIN pend : pend[i].id = pend[j].id => i = j

ScanInv ==
  /\ TestList(tests)
  /\ ChecksShaped(clients) /\ Runnable(clients, tests) /\ OneBegins(clients)
  /\ QueueApart(pending_sci_list, clients)
  /\ Waiting(timers) = Started(clients)
  /\ sockcheck_num_clients = Cardinality(DOMAIN clients)

LEMMA FiniteChecks ==
  ASSUME NEW cl, ChecksShaped(cl)
  PROVE  IsFiniteSet(DOMAIN cl)
  <1>1. IsFiniteSet(1 .. MaxSci)
    BY RecordsBounded, FS_Interval
  <1> QED BY <1>1, FS_Subset DEF ChecksShaped

\* A test that moves up leaves every test on the list once.
LEMMA FrontKeeps ==
  ASSUME NEW list, TestList(list), NEW test \in Range(list)
  PROVE  TestList(ToFront(list, test)) /\ Range(ToFront(list, test)) = Range(list)
  <1> DEFINE n == CHOOSE i \in DOMAIN list : list[i] = test
             f == ToFront(list, test)
  <1>1. list \in Seq(AllTests) /\ Len(list) \in Nat \ {0} /\ DOMAIN list = 1 .. Len(list)
    BY DEF TestList
  <1>2. n \in 1 .. Len(list) /\ list[n] = test
    <2>1. \E i \in DOMAIN list : list[i] = test
      BY DEF Range
    <2> QED BY <1>1, <2>1
  <1>3. f = [i \in 1 .. Len(list) |-> IF i = 1 THEN test ELSE IF i <= n THEN list[i - 1] ELSE list[i]]
    BY <1>1 DEF ToFront
  <1> HIDE DEF n
  <1>4. \A i \in 1 .. Len(list) : list[i] \in AllTests
    BY <1>1
  <1>5. f \in Seq(AllTests) /\ Len(f) = Len(list) /\ DOMAIN f = 1 .. Len(list)
    <2>1. \A i \in 1 .. Len(list) : f[i] \in AllTests
      BY <1>2, <1>3, <1>4
    <2>2. f \in [1 .. Len(list) -> AllTests]
      BY <1>3, <2>1
    <2> HIDE DEF f
    <2> QED BY <1>1, <2>2
  <1>6. \A i \in 1 .. Len(list) : f[i] = IF i = 1 THEN list[n] ELSE IF i <= n THEN list[i - 1] ELSE list[i]
    BY <1>2, <1>3
  <1> HIDE DEF f
  <1>7. \A i, j \in 1 .. Len(list) : list[i] = list[j] => i = j
    BY <1>1 DEF TestList, IsInjective
  <1>8. \A i, j \in 1 .. Len(list) : f[i] = f[j] => i = j
    <2> SUFFICES ASSUME NEW i \in 1 .. Len(list), NEW j \in 1 .. Len(list), f[i] = f[j] PROVE i = j
      OBVIOUS
    <2> DEFINE at(k) == IF k = 1 THEN n ELSE IF k <= n THEN k - 1 ELSE k
    <2>1. \A k \in 1 .. Len(list) : at(k) \in 1 .. Len(list) /\ f[k] = list[at(k)]
      BY <1>1, <1>2, <1>6
    <2>2. at(i) = at(j)
      <3> HIDE DEF at
      <3> QED BY <1>7, <2>1
    <2> QED BY <1>1, <1>2, <2>2
  <1>9. Range(f) = Range(list)
    <2>1. \A i \in 1 .. Len(list) : \E j \in 1 .. Len(list) : f[i] = list[j]
      BY <1>1, <1>2, <1>6
    <2>2. \A j \in 1 .. Len(list) : \E i \in 1 .. Len(list) : f[i] = list[j]
      <3> SUFFICES ASSUME NEW j \in 1 .. Len(list) PROVE \E i \in 1 .. Len(list) : f[i] = list[j]
        OBVIOUS
      <3>1. CASE j = n
        BY <1>1, <1>6, <3>1
      <3>2. CASE j < n
        <4>1. j + 1 \in 1 .. Len(list) /\ f[j + 1] = list[j]
          BY <1>1, <1>2, <1>6, <3>2
        <4> QED BY <4>1
      <3>3. CASE j > n
        BY <1>1, <1>2, <1>6, <3>3
      <3> QED BY <1>1, <1>2, <3>1, <3>2, <3>3
    <2>3. \A x : x \in Range(f) <=> \E i \in 1 .. Len(list) : x = f[i]
      BY <1>5 DEF Range
    <2>4. \A x : x \in Range(list) <=> \E i \in 1 .. Len(list) : x = list[i]
      BY <1>1 DEF Range
    <2>5. \A x : x \in Range(f) <=> x \in Range(list)
      BY <2>1, <2>2, <2>3, <2>4
    <2> QED BY <2>5
  <1>10. IsInjective(f)
    BY <1>5, <1>8 DEF IsInjective
  <1> QED BY <1>1, <1>5, <1>9, <1>10 DEF TestList, f

\* The first of the queue becomes a check, and the one that begins.
LEMMA StartKeeps ==
  ASSUME NEW pend, NEW others, NEW slots, NEW num, NEW idx \in Nat,
         QueueApart(pend, others), pend # <<>>, TestList(tests'),
         ChecksShaped(others), Runnable(others, tests'), \A c \in DOMAIN others : others[c].phase # "begin",
         Waiting(timers') = DOMAIN others, num = Cardinality(DOMAIN others),
         sockcheck_start_client(pend, others, slots, num, idx)
  PROVE  ScanInv'
  <1> DEFINE id    == pend[1].id
             first == [addr |-> pend[1].addr, tests |-> tests', test_index |-> 1, test_rep |-> 0,
                       phase |-> "begin", index |-> idx]
  <1>1. /\ pending_sci_list' = Tail(pend) /\ sockcheck_num_clients' = num + 1
        /\ clients' = [z \in DOMAIN others \cup {id} |-> IF z = id THEN first ELSE others[z]]
    BY DEF sockcheck_start_client, SetKey
  <1>2. pend \in Seq(Queued) /\ Len(pend) \in Nat \ {0} /\ DOMAIN pend = 1 .. Len(pend)
    BY DEF QueueApart
  <1>3. pend[1] \in Queued /\ id \in 1 .. MaxSci /\ pend[1].addr \in ScanAddresses
    <2>1. pend[1] \in Queued
      BY <1>2
    <2> QED BY <2>1 DEF Queued
  <1>4. id \notin DOMAIN others
    BY <1>2 DEF QueueApart
  <1>5. tests' \in Seq(AllTests) /\ 1 \in DOMAIN tests'
    BY DEF TestList
  <1>6. first \in Check /\ first.phase = "begin" /\ first.tests = tests' /\ first.test_index = 1
    BY <1>3, <1>5 DEF Check
  <1> HIDE DEF first, id
  <1>7. DOMAIN clients' = DOMAIN others \cup {id} /\ clients'[id] = first /\ \A c \in DOMAIN others : clients'[c] = others[c]
    BY <1>1, <1>4
  <1>8. ChecksShaped(clients')
    <2>1. \A c \in DOMAIN clients' : clients'[c] \in Check
      BY <1>6, <1>7 DEF ChecksShaped
    <2>2. clients' = [c \in DOMAIN clients' |-> clients'[c]]
      BY <1>1
    <2> QED BY <1>3, <1>7, <2>1, <2>2 DEF ChecksShaped
  <1>9. Runnable(clients', tests') /\ OneBegins(clients') /\ Started(clients') = DOMAIN others
    BY <1>4, <1>5, <1>6, <1>7 DEF Runnable, OneBegins, Started
  <1>10. QueueApart(pending_sci_list', clients')
    <2>1. Tail(pend) \in Seq(Queued) /\ Len(Tail(pend)) = Len(pend) - 1 /\ DOMAIN Tail(pend) = 1 .. Len(pend) - 1
          /\ \A i \in 1 .. Len(pend) - 1 : Tail(pend)[i] = pend[i + 1]
      BY <1>2
    <2>2. \A i \in 1 .. Len(pend) - 1 : i + 1 \in DOMAIN pend /\ i + 1 # 1 /\ 1 \in DOMAIN pend
      BY <1>2
    <2>3. \A i \in 1 .. Len(pend) - 1 : Tail(pend)[i].id \notin DOMAIN clients'
      BY <1>7, <2>1, <2>2 DEF QueueApart, id
    <2>4. \A i, j \in 1 .. Len(pend) - 1 : Tail(pend)[i].id = Tail(pend)[j].id => i + 1 = j + 1
      BY <2>1, <2>2 DEF QueueApart
    <2>5. \A i, j \in 1 .. Len(pend) - 1 : i + 1 = j + 1 => i = j
      BY <1>2
    <2> QED BY <1>1, <2>1, <2>3, <2>4, <2>5 DEF QueueApart
  <1>11. sockcheck_num_clients' = Cardinality(DOMAIN clients')
    BY <1>1, <1>4, <1>7, FiniteChecks, FS_AddElement
  <1> QED BY <1>8, <1>9, <1>10, <1>11 DEF ScanInv

\* A verdict ends a check of which no other begins.
LEMMA DecideKeeps ==
  ASSUME ScanInv, NEW c \in DOMAIN clients, \A d \in DOMAIN clients \ {c} : clients[d].phase # "begin",
         NEW decision, sockcheck_decide(c, decision)
  PROVE  ScanInv'
  <1> DEFINE k      == clients[c]
             num    == sockcheck_num_clients - 1
             others == [z \in DOMAIN clients \ {c} |-> clients[z]]
  <1>1. /\ tests' = IF decision = "REJECT" THEN ToFront(tests, k.tests[k.test_index]) ELSE tests
        /\ timers' = {t \in timers : t.client # c}
    BY DEF sockcheck_decide
  <1>2. \/ pending_sci_list # <<>> /\ sockcheck_start_client(pending_sci_list, others, client_list, num, k.index)
        \/ sockcheck_num_clients' = num /\ clients' = others /\ UNCHANGED pending_sci_list
    BY DEF sockcheck_decide, WithoutIds
  <1>3. k \in Check /\ k.index \in Nat /\ k.tests \in Seq(AllTests)
    <2>1. k \in Check
      BY DEF ScanInv, ChecksShaped
    <2> QED BY <2>1 DEF Check
  <1>4. k.tests[k.test_index] \in Range(tests)
    <2>1. k.test_index \in DOMAIN k.tests /\ Range(k.tests) \subseteq Range(tests)
      BY DEF ScanInv, Runnable
    <2> QED BY <2>1 DEF Range
  <1>5. TestList(tests') /\ Range(tests') = Range(tests)
    BY <1>1, <1>4, FrontKeeps DEF ScanInv
  <1>6. DOMAIN others = DOMAIN clients \ {c} /\ \A d \in DOMAIN others : others[d] = clients[d]
    OBVIOUS
  <1>7. others = [z \in DOMAIN others |-> others[z]]
    OBVIOUS
  <1>8. num = Cardinality(DOMAIN clients) - 1 /\ IsFiniteSet(DOMAIN clients)
    BY FiniteChecks DEF ScanInv
  <1> HIDE DEF others, num
  <1>9. ChecksShaped(others) /\ Runnable(others, tests') /\ \A d \in DOMAIN others : others[d].phase # "begin"
    <2>1. \A d \in DOMAIN others : others[d] \in Check
      BY <1>6 DEF ScanInv, ChecksShaped
    <2>2. ChecksShaped(others)
      BY <1>6, <1>7, <2>1 DEF ScanInv, ChecksShaped
    <2> QED BY <1>5, <1>6, <2>2 DEF ScanInv, Runnable
  <1>10. Waiting(timers') = DOMAIN others
    <2>1. Started(clients) \ {c} = DOMAIN others
      BY <1>6 DEF Started
    <2>2. Waiting(timers') = Waiting(timers) \ {c}
      BY <1>1 DEF Waiting
    <2> QED BY <2>1, <2>2 DEF ScanInv
  <1>11. num = Cardinality(DOMAIN others)
    BY <1>6, <1>8, FS_RemoveElement
  <1>12. QueueApart(pending_sci_list, others)
    BY <1>6 DEF ScanInv, QueueApart
  <1>13. CASE pending_sci_list # <<>> /\ sockcheck_start_client(pending_sci_list, others, client_list, num, k.index)
    BY <1>3, <1>5, <1>9, <1>10, <1>11, <1>12, <1>13, StartKeeps
  <1>14. CASE sockcheck_num_clients' = num /\ clients' = others /\ UNCHANGED pending_sci_list
    <2>1. OneBegins(others) /\ Started(others) = DOMAIN others
      BY <1>9 DEF OneBegins, Started
    <2> QED BY <1>5, <1>9, <1>10, <1>11, <1>12, <1>14, <2>1 DEF ScanInv
  <1> QED BY <1>2, <1>13, <1>14

\* A check that changes and stays.
LEMMA ChangeKeeps ==
  ASSUME ScanInv, NEW c \in DOMAIN clients, NEW k \in Check, clients' = [clients EXCEPT ![c] = k],
         k.tests = clients[c].tests, k.test_index \in DOMAIN k.tests,
         \A d \in DOMAIN clients \ {c} : clients[d].phase # "begin",
         Waiting(timers') \ {c} = Waiting(timers) \ {c}, c \in Waiting(timers') <=> k.phase # "begin",
         UNCHANGED <<pending_sci_list, sockcheck_num_clients, tests>>
  PROVE  ScanInv'
  <1>1. DOMAIN clients' = DOMAIN clients /\ clients'[c] = k /\ \A d \in DOMAIN clients \ {c} : clients'[d] = clients[d]
    OBVIOUS
  <1>2. \A d \in DOMAIN clients' : clients'[d] \in Check
    BY <1>1 DEF ScanInv, ChecksShaped
  <1>3. clients' = [d \in DOMAIN clients' |-> clients'[d]]
    OBVIOUS
  <1>4. ChecksShaped(clients')
    BY <1>1, <1>2, <1>3 DEF ScanInv, ChecksShaped
  <1>5. Runnable(clients', tests') /\ OneBegins(clients')
    BY <1>1 DEF ScanInv, Runnable, OneBegins
  <1>6. Waiting(timers') = Started(clients')
    BY <1>1 DEF ScanInv, Started
  <1>7. QueueApart(pending_sci_list', clients')
    BY <1>1 DEF ScanInv, QueueApart
  <1> QED BY <1>1, <1>4, <1>5, <1>6, <1>7 DEF ScanInv

LEMMA ChecksAre ==
  ASSUME ScanInv, NEW c \in DOMAIN clients
  PROVE  /\ clients[c] \in Check /\ clients[c].test_index \in DOMAIN clients[c].tests
         /\ clients[c].tests \in Seq(AllTests) /\ clients[c].test_index \in 1 .. Len(clients[c].tests)
         /\ clients[c].test_rep \in Nat
  <1>1. clients[c] \in Check /\ clients[c].test_index \in DOMAIN clients[c].tests
    BY DEF ScanInv, ChecksShaped, Runnable
  <1> QED BY <1>1 DEF Check

LEMMA CheckChanged ==
  ASSUME NEW k \in Check
  PROVE  LET again == [k EXCEPT !.phase = "begin", !.test_rep = @ + 1]
             next  == [k EXCEPT !.phase = "begin", !.test_rep = 0, !.test_index = @ + 1]
             later == [k EXCEPT !.test_index = @ + 1]
         IN /\ again \in Check /\ again.phase = "begin" /\ again.tests = k.tests /\ again.test_index = k.test_index
            /\ next \in Check /\ next.phase = "begin" /\ next.tests = k.tests /\ next.test_index = k.test_index + 1
            /\ later \in Check /\ later.phase = k.phase /\ later.tests = k.tests
            /\ later.test_index = k.test_index + 1
  <1>1. k.test_rep + 1 \in Nat /\ k.test_index + 1 \in Nat
    BY DEF Check
  <1> DEFINE r == k.test_rep + 1
             n == k.test_index + 1
  <1>2. r \in Nat /\ n \in Nat
    BY <1>1
  <1> HIDE DEF r, n
  <1>3. /\ [k EXCEPT !.phase = "begin", !.test_rep = r] \in Check
        /\ [k EXCEPT !.phase = "begin", !.test_rep = 0, !.test_index = n] \in Check
        /\ [k EXCEPT !.test_index = n] \in Check
    BY <1>2 DEF Check
  <1>4. /\ [k EXCEPT !.phase = "begin", !.test_rep = r].phase = "begin"
        /\ [k EXCEPT !.phase = "begin", !.test_rep = r].tests = k.tests
        /\ [k EXCEPT !.phase = "begin", !.test_rep = r].test_index = k.test_index
        /\ [k EXCEPT !.phase = "begin", !.test_rep = 0, !.test_index = n].phase = "begin"
        /\ [k EXCEPT !.phase = "begin", !.test_rep = 0, !.test_index = n].tests = k.tests
        /\ [k EXCEPT !.phase = "begin", !.test_rep = 0, !.test_index = n].test_index = n
        /\ [k EXCEPT !.test_index = n].phase = k.phase /\ [k EXCEPT !.test_index = n].tests = k.tests
        /\ [k EXCEPT !.test_index = n].test_index = n
    BY DEF Check
  <1> QED BY <1>3, <1>4 DEF r, n

LEMMA WaitingMore ==
  ASSUME NEW T, NEW c, NEW w
  PROVE  Waiting(T \cup {[client |-> c, when |-> w]}) = Waiting(T) \cup {c}
  <1> DEFINE r == [client |-> c, when |-> w]
  <1>1. r.client = c
    OBVIOUS
  <1> HIDE DEF r
  <1>2. Waiting(T \cup {r}) = Waiting(T) \cup {c}
    BY <1>1 DEF Waiting
  <1> QED BY <1>2 DEF r

LEMMA BeginKeeps ==
  ASSUME ScanInv, NEW c \in DOMAIN clients, sockcheck_begin_test(c)
  PROVE  ScanInv'
  <1>1. clients[c].phase = "begin" /\ \A d \in DOMAIN clients \ {c} : clients[d].phase # "begin"
    BY DEF sockcheck_begin_test, ScanInv, OneBegins
  <1>2. c \notin Waiting(timers)
    BY <1>1 DEF ScanInv, Started
  <1>3. CASE /\ clients' = [clients EXCEPT ![c].phase = "connecting"]
             /\ \E d \in Timeouts : timers' = timers \cup {[client |-> c, when |-> scanNow + d]}
             /\ UNCHANGED <<sci, pending_sci_list, client_list, sockcheck_num_clients, tests, glines>>
    <2> DEFINE k == [clients[c] EXCEPT !.phase = "connecting"]
    <2>1. PICK d \in Timeouts : timers' = timers \cup {[client |-> c, when |-> scanNow + d]}
      BY <1>3
    <2>2. Waiting(timers') = Waiting(timers) \cup {c}
      BY <2>1, WaitingMore
    <2>3. k \in Check /\ k.phase # "begin" /\ k.tests = clients[c].tests /\ k.test_index = clients[c].test_index
      BY ChecksAre DEF Check
    <2>4. clients' = [clients EXCEPT ![c] = k]
      BY <1>3
    <2> HIDE DEF k
    <2>5. k.test_index \in DOMAIN k.tests /\ UNCHANGED <<pending_sci_list, sockcheck_num_clients, tests>>
      BY <1>3, <2>3, ChecksAre
    <2>6. Waiting(timers') \ {c} = Waiting(timers) \ {c} /\ c \in Waiting(timers')
      BY <2>2
    <2> QED BY <1>1, <2>3, <2>4, <2>5, <2>6, ChangeKeeps
  <1>4. CASE /\ clients[c].test_index < Len(clients[c].tests)
             /\ clients' = [clients EXCEPT ![c].test_index = @ + 1]
             /\ UNCHANGED <<sci, pending_sci_list, client_list, sockcheck_num_clients, tests, glines, timers>>
    <2> DEFINE k == [clients[c] EXCEPT !.test_index = @ + 1]
    <2>1. k \in Check /\ k.phase = "begin" /\ k.tests = clients[c].tests /\ k.test_index = clients[c].test_index + 1
      BY <1>1, ChecksAre, CheckChanged
    <2>2. k.test_index \in DOMAIN k.tests
      BY <1>4, <2>1, ChecksAre
    <2>3. clients' = [clients EXCEPT ![c] = k] /\ Waiting(timers') = Waiting(timers)
      BY <1>4 DEF Waiting
    <2> HIDE DEF k
    <2> QED BY <1>1, <1>2, <1>4, <2>1, <2>2, <2>3, ChangeKeeps
  <1>5. CASE sockcheck_decide(c, "ACCEPT")
    BY <1>1, <1>5, DecideKeeps
  <1> QED BY <1>3, <1>4, <1>5 DEF sockcheck_begin_test

LEMMA ElaborateKeeps ==
  ASSUME ScanInv, Quiet, NEW c \in DOMAIN clients, NEW running, sockcheck_elaborate_state(c, running),
         Waiting(running) \ {c} = Waiting(timers) \ {c}
  PROVE  ScanInv'
  <1> DEFINE k == [clients[c] EXCEPT !.phase = "reading"]
  <1>1. PICK d \in Timeouts : timers' = running \cup {[client |-> c, when |-> scanNow + d]}
    BY DEF sockcheck_elaborate_state
  <1>2. Waiting(timers') = Waiting(running) \cup {c}
    BY <1>1, WaitingMore
  <1>3. k \in Check /\ k.phase # "begin" /\ k.tests = clients[c].tests /\ k.test_index = clients[c].test_index
    BY ChecksAre DEF Check
  <1>4. clients' = [clients EXCEPT ![c] = k] /\ UNCHANGED <<pending_sci_list, sockcheck_num_clients, tests>>
    BY DEF sockcheck_elaborate_state
  <1> HIDE DEF k
  <1> QED BY <1>2, <1>3, <1>4, ChecksAre, ChangeKeeps DEF Quiet

LEMMA AdvanceKeeps ==
  ASSUME ScanInv, Quiet, NEW c \in DOMAIN clients, sockcheck_advance(c)
  PROVE  ScanInv'
  <1> DEFINE k == clients[c]
             stopped == {t \in timers : t.client # c}
             again == [k EXCEPT !.phase = "begin", !.test_rep = @ + 1]
             next  == [k EXCEPT !.phase = "begin", !.test_rep = 0, !.test_index = @ + 1]
  <1>1. Waiting(stopped) = Waiting(timers) \ {c}
    BY DEF Waiting
  <1>2. CASE sockcheck_elaborate_state(c, stopped)
    BY <1>1, <1>2, ElaborateKeeps
  <1>3. CASE sockcheck_decide(c, "REJECT") \/ sockcheck_decide(c, "ACCEPT")
    BY <1>3, DecideKeeps DEF Quiet
  <1>4. CASE /\ k.test_rep + 1 < reps \/ k.test_index < Len(k.tests)
             /\ clients' = [clients EXCEPT ![c] = IF k.test_rep + 1 < reps THEN again ELSE next]
             /\ timers' = stopped
             /\ UNCHANGED <<sci, pending_sci_list, client_list, sockcheck_num_clients, tests, glines>>
    <2>1. /\ again \in Check /\ again.phase = "begin" /\ again.tests = k.tests /\ again.test_index = k.test_index
          /\ next \in Check /\ next.phase = "begin" /\ next.tests = k.tests /\ next.test_index = k.test_index + 1
      BY ChecksAre, CheckChanged
    <2>2. again.test_index \in DOMAIN again.tests
      BY <2>1, ChecksAre
    <2>3. c \notin Waiting(timers') /\ Waiting(timers') \ {c} = Waiting(timers) \ {c}
      BY <1>1, <1>4
    <2>4. UNCHANGED <<pending_sci_list, sockcheck_num_clients, tests>>
      BY <1>4
    <2>5. CASE k.test_rep + 1 < reps
      <3>1. clients' = [clients EXCEPT ![c] = again]
        BY <1>4, <2>5
      <3> HIDE DEF again, stopped
      <3> QED BY <2>1, <2>2, <2>3, <2>4, <3>1, ChangeKeeps DEF Quiet
    <2>6. CASE ~(k.test_rep + 1 < reps)
      <3>1. clients' = [clients EXCEPT ![c] = next] /\ k.test_index < Len(k.tests)
        BY <1>4, <2>6
      <3>2. next.test_index \in DOMAIN next.tests
        BY <2>1, <3>1, ChecksAre
      <3> HIDE DEF next, stopped
      <3> QED BY <2>1, <2>3, <2>4, <3>1, <3>2, ChangeKeeps DEF Quiet
    <2> QED BY <2>5, <2>6
  <1> QED BY <1>2, <1>3, <1>4 DEF sockcheck_advance

\* What the checks are does not depend on the cache, the verdicts, the clock or the limit.
LEMMA ApartKeeps ==
  ASSUME ScanInv, UNCHANGED <<pending_sci_list, clients, sockcheck_num_clients, timers, tests>>
  PROVE  ScanInv'
  BY DEF ScanInv, TestList, ChecksShaped, Runnable, OneBegins, QueueApart, Waiting, Started

\* A new record waits behind the others or is checked at once.
LEMMA QueueAddressKeeps ==
  ASSUME ScanInv, NEW a \in ScanAddresses, sockcheck_queue_address(a)
  PROVE  ScanInv'
  <1> DEFINE free  == (1 .. MaxSci) \ (DOMAIN sci \cup DOMAIN clients \cup {p.id : p \in Range(pending_sci_list)})
             fresh == CHOOSE n \in free : TRUE
             queue == Append(pending_sci_list, [id |-> fresh, addr |-> a])
  <1>1. \/ UNCHANGED <<pending_sci_list, clients, sockcheck_num_clients, timers, tests>>
        \/ /\ free # {} /\ UNCHANGED <<tests, timers>>
           /\ \/ sockcheck_start_client(queue, clients, client_list, sockcheck_num_clients, sockcheck_num_clients)
              \/ pending_sci_list' = queue /\ UNCHANGED <<clients, sockcheck_num_clients>>
    BY DEF sockcheck_queue_address
  <1>2. CASE UNCHANGED <<pending_sci_list, clients, sockcheck_num_clients, timers, tests>>
    BY <1>2, ApartKeeps
  <1>3. CASE /\ free # {} /\ UNCHANGED <<tests, timers>>
             /\ \/ sockcheck_start_client(queue, clients, client_list, sockcheck_num_clients, sockcheck_num_clients)
                \/ pending_sci_list' = queue /\ UNCHANGED <<clients, sockcheck_num_clients>>
    <2>1. fresh \in free
      BY <1>3
    <2>2. pending_sci_list \in Seq(Queued) /\ DOMAIN pending_sci_list = 1 .. Len(pending_sci_list)
      BY DEF ScanInv, QueueApart
    <2>3. fresh \in 1 .. MaxSci /\ fresh \notin DOMAIN clients
      BY <2>1
    <2>4. \A i \in DOMAIN pending_sci_list : pending_sci_list[i].id # fresh
      BY <2>1 DEF Range
    <2>5. [id |-> fresh, addr |-> a] \in Queued
      BY <2>3 DEF Queued
    <2> DEFINE rec == [id |-> fresh, addr |-> a]
    <2>6. rec \in Queued /\ rec.id = fresh
      BY <2>5
    <2> HIDE DEF fresh, free
    <2>7. /\ queue \in Seq(Queued) /\ Len(queue) = Len(pending_sci_list) + 1 /\ queue # <<>>
          /\ DOMAIN queue = 1 .. Len(pending_sci_list) + 1
          /\ queue[Len(pending_sci_list) + 1] = rec
          /\ \A i \in DOMAIN pending_sci_list : queue[i] = pending_sci_list[i]
      BY <2>2, <2>6
    <2> HIDE DEF rec, queue
    <2>8. \A i \in DOMAIN queue : i \in DOMAIN pending_sci_list \/ i = Len(pending_sci_list) + 1
      BY <2>2, <2>7
    <2>9. QueueApart(queue, clients)
      <3>1. \A i \in DOMAIN queue : queue[i].id \notin DOMAIN clients
        BY <2>3, <2>6, <2>7, <2>8 DEF ScanInv, QueueApart
      <3>2. \A i, j \in DOMAIN queue : queue[i].id = queue[j].id => i = j
        BY <2>4, <2>6, <2>7, <2>8 DEF ScanInv, QueueApart
      <3> QED BY <2>7, <3>1, <3>2 DEF QueueApart
    <2>10. CASE pending_sci_list' = queue /\ UNCHANGED <<clients, sockcheck_num_clients>>
      BY <1>3, <2>9, <2>10 DEF ScanInv, TestList, ChecksShaped, Runnable, OneBegins, Waiting, Started
    <2>11. CASE sockcheck_start_client(queue, clients, client_list, sockcheck_num_clients, sockcheck_num_clients)
      <3>1. \A c \in DOMAIN clients : clients[c].phase # "begin"
        BY DEF sockcheck_queue_address, Quiet
      <3>2. Waiting(timers') = DOMAIN clients /\ TestList(tests') /\ Runnable(clients, tests')
        <4>1. Waiting(timers') = Waiting(timers) /\ tests' = tests
          BY <1>3 DEF Waiting
        <4> QED BY <3>1, <4>1 DEF ScanInv, Started, TestList, Runnable
      <3>3. sockcheck_num_clients \in Nat
        BY FiniteChecks, FS_CardinalityType DEF ScanInv
      <3> QED BY <2>7, <2>9, <2>11, <3>1, <3>2, <3>3, StartKeeps DEF ScanInv
    <2> QED BY <1>3, <2>10, <2>11
  <1> QED BY <1>1, <1>2, <1>3

LEMMA AddTestKeeps ==
  ASSUME ScanInv, NEW t \in NewTests, sockcheck_add_test(t)
  PROVE  ScanInv'
  <1>1. tests' = Append(tests, t) /\ t \notin Range(tests) /\ UNCHANGED <<pending_sci_list, clients, sockcheck_num_clients, timers>>
    BY DEF sockcheck_add_test
  <1>2. tests \in Seq(AllTests) /\ DOMAIN tests = 1 .. Len(tests) /\ t \in AllTests
    BY DEF ScanInv, TestList, AllTests
  <1>3. /\ tests' \in Seq(AllTests) /\ tests' # <<>> /\ DOMAIN tests' = 1 .. Len(tests) + 1
        /\ tests'[Len(tests) + 1] = t /\ \A i \in DOMAIN tests : tests'[i] = tests[i] /\ i \in DOMAIN tests'
        /\ \A i \in DOMAIN tests' : i \in DOMAIN tests \/ i = Len(tests) + 1
    BY <1>1, <1>2
  <1>4. Range(tests) \subseteq Range(tests')
    BY <1>3 DEF Range
  <1>5. IsInjective(tests')
    <2>1. \A i \in DOMAIN tests : tests[i] # t
      BY <1>1 DEF Range
    <2> QED BY <1>3, <2>1 DEF ScanInv, TestList, IsInjective
  <1>6. TestList(tests') /\ Runnable(clients', tests')
    BY <1>1, <1>3, <1>4, <1>5 DEF ScanInv, TestList, Runnable
  <1> QED BY <1>1, <1>6 DEF ScanInv, ChecksShaped, OneBegins, QueueApart, Waiting, Started

LEMMA ScanStep == ScanInv /\ [ScanNext]_scanVars => ScanInv'
  <1> SUFFICES ASSUME ScanInv, [ScanNext]_scanVars PROVE ScanInv'
    OBVIOUS
  <1>1. ASSUME NEW c \in DOMAIN clients, sockcheck_connected(c) PROVE ScanInv'
    <2>1. Quiet /\ (sockcheck_elaborate_state(c, timers) \/ sockcheck_advance(c))
      BY <1>1 DEF sockcheck_connected
    <2> QED BY <1>1, <2>1, ElaborateKeeps, AdvanceKeeps
  <1>2. ASSUME NEW c \in DOMAIN clients, sockcheck_readable(c) PROVE ScanInv'
    BY <1>2, AdvanceKeeps DEF sockcheck_readable
  <1>3. ASSUME NEW t \in timers, sockcheck_timeout_client(t) PROVE ScanInv'
    <2>1. t.client \in DOMAIN clients
      <3>1. t.client \in Waiting(timers)
        BY DEF Waiting
      <3> QED BY <3>1 DEF ScanInv, Started
    <2> QED BY <1>3, <2>1, AdvanceKeeps DEF sockcheck_timeout_client
  <1>4. ASSUME NEW a \in ScanAddresses, cmd_clearhost(a) PROVE ScanInv'
    BY <1>4, ApartKeeps DEF cmd_clearhost
  <1>5. CASE sockcheck_clean_cache
    BY <1>5, ApartKeeps DEF sockcheck_clean_cache
  <1>6. CASE ScanTick
    BY <1>6, ApartKeeps DEF ScanTick
  <1>7. ASSUME NEW n, sockcheck_read_conf(n) PROVE ScanInv'
    BY <1>7, ApartKeeps DEF sockcheck_read_conf
  <1>8. CASE UNCHANGED scanVars
    BY <1>8, ApartKeeps DEF scanVars
  <1> QED BY <1>1, <1>2, <1>3, <1>4, <1>5, <1>6, <1>7, <1>8, BeginKeeps, QueueAddressKeeps, AddTestKeeps DEF ScanNext

\* For any addresses, tests, numbers of slots and timeouts: between callbacks every check waits
\* under a timeout and every timeout is for a check, the checks are counted exactly, and no test is
\* lost or doubled when tests are moved up (sockcheck_advance, sockcheck_decide).
THEOREM ChecksStayTimed == ScanSpec => []ChecksTimed
  <1>1. ScanInit => ScanInv
    <2> SUFFICES ASSUME ScanInit PROVE ScanInv
      OBVIOUS
    <2>1. TestList(tests)
      <3>1. Tests \in Seq(AllTests)
        BY TestsNamed DEF AllTests
      <3> QED BY <3>1, TestsNamed DEF ScanInit, TestList
    <2>2. DOMAIN clients = {} /\ DOMAIN pending_sci_list = {} /\ pending_sci_list \in Seq(Queued)
      BY DEF ScanInit
    <2>3. ChecksShaped(clients)
      BY <2>2 DEF ScanInit, ChecksShaped
    <2>4. Waiting(timers) = {} /\ Started(clients) = {}
      BY <2>2 DEF ScanInit, Waiting, Started
    <2>5. Cardinality(DOMAIN clients) = 0
      BY <2>2, FS_EmptySet
    <2> QED BY <2>1, <2>2, <2>3, <2>4, <2>5 DEF ScanInv, ScanInit, Runnable, OneBegins, QueueApart
  <1>2. ScanInv => ChecksTimed
    <2> SUFFICES ASSUME ScanInv PROVE ChecksTimed
      OBVIOUS
    <2>1. Quiet => {t.client : t \in timers} = DOMAIN clients
      BY DEF Quiet, ScanInv, Waiting, Started
    <2> QED BY <2>1 DEF ChecksTimed, ScanInv, TestList
  <1> QED BY <1>1, <1>2, ScanStep, PTL DEF ScanSpec

-----------------------------------------------------------------------------
(* Outside queries.  The table is the numbers from 0 on with a connection or *)
(* nothing at each; a slot has its dummy user while it is taken, and what is *)
(* taken are the open connections, each once.                                *)

TableShaped(t) ==
  /\ t \in [DOMAIN t -> Fds \cup {NoFd}]
  /\ \E n \in Nat : DOMAIN t = 0 .. n - 1 /\ Cardinality(DOMAIN t) = n

\* The slots of a table that are taken.
SlotsTaken(t) == {i \in DOMAIN t : t[i] # NoFd}

SlotsHold(t, open) ==
  /\ {t[i] : i \in SlotsTaken(t)} = open
  /\ \A i, j \in SlotsTaken(t) : t[i] = t[j] => i = j

OpenFds(f) == {fd \in Fds : f[fd] = "open"}

QueriesInv ==
  /\ TableShaped(qserver_clients)
  /\ qserver_dict = dummies
  /\ dummies = [i \in SlotsTaken(qserver_clients) |-> qserver_clients[i]]
  /\ fds \in [Fds -> {"new", "open", "closed"}]
  /\ SlotsHold(qserver_clients, OpenFds(fds))

LEMMA SlotsCounted ==
  ASSUME NEW n \in Nat
  PROVE  Cardinality(0 .. n - 1) = n
  BY FS_Interval

\* The slot for a new connection is free, or the first of those the table grows by.
LEMMA FirstFreeIs ==
  ASSUME NEW n \in Nat, DOMAIN qserver_clients = 0 .. n - 1, Cardinality(DOMAIN qserver_clients) = n
  PROVE  \/ FirstFree \in DOMAIN qserver_clients /\ qserver_clients[FirstFree] = NoFd
         \/ FirstFree = n
  <1> DEFINE free == {i \in DOMAIN qserver_clients : qserver_clients[i] = NoFd}
  <1>1. CASE free = {}
    BY <1>1 DEF FirstFree
  <1>2. CASE free # {}
    <2>1. \E i \in free : \A j \in free : i <= j
      <3>1. free \subseteq Nat
        OBVIOUS
      <3> HIDE DEF free
      <3> QED BY <1>2, <3>1, LeastOf
    <2>2. FirstFree = CHOOSE i \in free : \A j \in free : i <= j
      BY <1>2 DEF FirstFree
    <2> QED BY <2>1, <2>2
  <1> QED BY <1>1, <1>2

\* A connection put into a free slot is held there, and the others where they were.
LEMMA SlotTaken ==
  ASSUME NEW t, NEW open, SlotsHold(t, open), NEW fd \in Fds \ open, TableShaped(t),
         NEW s \in DOMAIN t, t[s] = NoFd
  PROVE  LET u == [t EXCEPT ![s] = fd] IN
         TableShaped(u) /\ SlotsTaken(u) = SlotsTaken(t) \cup {s} /\ SlotsHold(u, open \cup {fd})
  <1> DEFINE u == [t EXCEPT ![s] = fd]
  <1>1. DOMAIN u = DOMAIN t /\ u[s] = fd /\ \A i \in DOMAIN t : i # s => u[i] = t[i]
    BY DEF TableShaped
  <1>2. TableShaped(u)
    BY <1>1 DEF TableShaped
  <1>3. SlotsTaken(u) = SlotsTaken(t) \cup {s} /\ s \notin SlotsTaken(t)
    BY <1>1, QueriesNamed DEF SlotsTaken
  <1>4. \A i \in SlotsTaken(t) : u[i] = t[i] /\ t[i] \in open
    BY <1>1, <1>3 DEF SlotsTaken, SlotsHold
  <1> HIDE DEF u
  <1>5. SlotsHold(u, open \cup {fd})
    <2>1. {u[i] : i \in SlotsTaken(u)} = open \cup {fd}
      BY <1>1, <1>3, <1>4 DEF SlotsHold
    <2>2. \A i, j \in SlotsTaken(u) : u[i] = u[j] => i = j
      BY <1>1, <1>3, <1>4 DEF SlotsHold
    <2> QED BY <2>1, <2>2 DEF SlotsHold
  <1> QED BY <1>2, <1>3, <1>5 DEF u

\* The table grown is a table with the same slots taken.
LEMMA TableGrown ==
  ASSUME NEW t, NEW open, SlotsHold(t, open), TableShaped(t),
         NEW n \in Nat, DOMAIN t = 0 .. n - 1
  PROVE  LET u == [i \in 0 .. (n + Growth - 1) |-> IF i < n THEN t[i] ELSE NoFd] IN
         /\ TableShaped(u) /\ SlotsTaken(u) = SlotsTaken(t) /\ SlotsHold(u, open)
         /\ \A i \in SlotsTaken(t) : u[i] = t[i]
         /\ n \in DOMAIN u /\ u[n] = NoFd
  <1> DEFINE u == [i \in 0 .. (n + Growth - 1) |-> IF i < n THEN t[i] ELSE NoFd]
  <1>1. /\ DOMAIN u = 0 .. (n + Growth) - 1 /\ n + Growth \in Nat
        /\ \A i \in DOMAIN t : i \in DOMAIN u /\ u[i] = t[i]
        /\ \A i \in DOMAIN u : i \notin DOMAIN t => u[i] = NoFd
        /\ n \in DOMAIN u /\ u[n] = NoFd
    BY QueriesNamed
  <1>2. TableShaped(u)
    <2>1. u \in [DOMAIN u -> Fds \cup {NoFd}]
      BY <1>1 DEF TableShaped
    <2>2. Cardinality(DOMAIN u) = n + Growth
      BY <1>1, SlotsCounted
    <2> HIDE DEF u
    <2> QED BY <1>1, <2>1, <2>2 DEF TableShaped
  <1> HIDE DEF u
  <1>3. SlotsTaken(u) = SlotsTaken(t) /\ \A i \in SlotsTaken(t) : u[i] = t[i]
    BY <1>1 DEF SlotsTaken
  <1>4. SlotsHold(u, open)
    BY <1>3 DEF SlotsHold
  <1> QED BY <1>1, <1>2, <1>3, <1>4 DEF u

LEMMA AcceptKeeps ==
  ASSUME QueriesInv, NEW fd \in Fds, qserver_accept(fd)
  PROVE  QueriesInv'
  <1> DEFINE t == qserver_clients
             s == FirstFree
             open == OpenFds(fds)
  <1>1. PICK n \in Nat : DOMAIN t = 0 .. n - 1 /\ Cardinality(DOMAIN t) = n
    BY DEF QueriesInv, TableShaped
  <1> DEFINE wide == [i \in 0 .. (n + Growth - 1) |-> IF i < n THEN t[i] ELSE NoFd]
             g == IF s < n THEN t ELSE wide
  <1>2. /\ fd \notin open /\ OpenFds(fds') = open \cup {fd} /\ fds' \in [Fds -> {"new", "open", "closed"}]
    BY DEF qserver_accept, OpenFds, QueriesInv
  <1>3. /\ qserver_clients' = [g EXCEPT ![s] = fd]
        /\ dummies' = SetSlot(dummies, s, fd) /\ qserver_dict' = SetSlot(qserver_dict, s, fd)
    BY <1>1 DEF qserver_accept
  <1>4. \/ s \in DOMAIN t /\ t[s] = NoFd
        \/ s = n
    BY <1>1, FirstFreeIs
  <1>5. TableShaped(t) /\ SlotsHold(t, open)
    BY DEF QueriesInv
  <1>6. /\ TableShaped(g) /\ SlotsTaken(g) = SlotsTaken(t) /\ SlotsHold(g, open)
        /\ s \in DOMAIN g /\ g[s] = NoFd /\ \A i \in SlotsTaken(t) : g[i] = t[i]
    <2>1. CASE s \in DOMAIN t /\ t[s] = NoFd
      <3>1. s < n
        BY <1>1, <2>1
      <3> QED BY <1>5, <2>1, <3>1
    <2>2. CASE s = n
      <3>1. g = wide
        BY <2>2
      <3>2. /\ TableShaped(wide) /\ SlotsTaken(wide) = SlotsTaken(t) /\ SlotsHold(wide, open)
            /\ \A i \in SlotsTaken(t) : wide[i] = t[i]
            /\ n \in DOMAIN wide /\ wide[n] = NoFd
        <4> HIDE DEF open
        <4> QED BY <1>1, <1>5, TableGrown
      <3> HIDE DEF wide, g
      <3> QED BY <2>2, <3>1, <3>2
    <2> QED BY <1>4, <2>1, <2>2
  <1> HIDE DEF g, s, open
  <1>7. /\ TableShaped(qserver_clients') /\ SlotsTaken(qserver_clients') = SlotsTaken(t) \cup {s}
        /\ SlotsHold(qserver_clients', open \cup {fd})
    <2> DEFINE u == [g EXCEPT ![s] = fd]
    <2>1. TableShaped(u) /\ SlotsTaken(u) = SlotsTaken(g) \cup {s} /\ SlotsHold(u, open \cup {fd})
      BY <1>2, <1>6, SlotTaken
    <2> QED BY <1>3, <1>6, <2>1
  <1>8. \A i \in SlotsTaken(t) \cup {s} : qserver_clients'[i] = IF i = s THEN fd ELSE t[i]
    <2>1. SlotsTaken(t) \subseteq DOMAIN g /\ g = [i \in DOMAIN g |-> g[i]]
      BY <1>6 DEF SlotsTaken, TableShaped
    <2> QED BY <1>3, <1>6, <2>1
  <1>9. dummies = [i \in SlotsTaken(t) |-> t[i]] /\ qserver_dict = dummies
    BY DEF QueriesInv
  <1>10. dummies' = [i \in SlotsTaken(qserver_clients') |-> qserver_clients'[i]]
    BY <1>3, <1>7, <1>8, <1>9 DEF SetSlot
  <1> QED BY <1>2, <1>3, <1>7, <1>9, <1>10 DEF QueriesInv

LEMMA CloseKeeps ==
  ASSUME QueriesInv, NEW fd \in Fds, CloseQuery(fd)
  PROVE  QueriesInv'
  <1> DEFINE t == qserver_clients
             s == SlotOf(fd)
             open == OpenFds(fds)
  <1>1. /\ fd \in open /\ OpenFds(fds') = open \ {fd} /\ fds' \in [Fds -> {"new", "open", "closed"}]
    BY DEF CloseQuery, OpenFds, QueriesInv
  <1>2. /\ qserver_clients' = [t EXCEPT ![s] = NoFd]
        /\ dummies' = ClearSlot(dummies, s) /\ qserver_dict' = ClearSlot(qserver_dict, s)
    BY DEF CloseQuery, qserver_destroy_fd
  <1>3. \E i \in DOMAIN t : t[i] = fd
    BY <1>1 DEF QueriesInv, SlotsHold, SlotsTaken
  <1>4. s \in DOMAIN t /\ t[s] = fd
    BY <1>3 DEF SlotOf
  <1>5. TableShaped(t) /\ SlotsHold(t, open) /\ qserver_dict = dummies /\ dummies = [i \in SlotsTaken(t) |-> t[i]]
    BY DEF QueriesInv
  <1> DEFINE u == qserver_clients'
  <1> HIDE DEF s, open
  <1>6. DOMAIN u = DOMAIN t /\ u[s] = NoFd /\ \A i \in DOMAIN t : i # s => u[i] = t[i]
    BY <1>2, <1>4, <1>5 DEF TableShaped
  <1>7. u \in [DOMAIN u -> Fds \cup {NoFd}]
    BY <1>2, <1>4, <1>5 DEF TableShaped
  <1> HIDE DEF u
  <1>8. SlotsTaken(u) = SlotsTaken(t) \ {s} /\ s \in SlotsTaken(t)
    BY <1>4, <1>6, QueriesNamed DEF SlotsTaken
  <1>9. \A i \in SlotsTaken(u) : u[i] = t[i]
    BY <1>6, <1>8 DEF SlotsTaken
  <1>10. SlotsHold(u, open \ {fd})
    BY <1>4, <1>5, <1>8, <1>9 DEF SlotsHold
  <1>11. TableShaped(u)
    BY <1>5, <1>6, <1>7 DEF TableShaped
  <1>12. dummies' = [i \in SlotsTaken(u) |-> u[i]] /\ qserver_dict' = dummies'
    BY <1>2, <1>5, <1>8, <1>9 DEF ClearSlot
  <1> QED BY <1>1, <1>10, <1>11, <1>12 DEF QueriesInv, u

\* For any connections and any number of slots the table grows by: an answer finds the
\* connection its dummy user was made for, and each open connection holds one slot
\* (qserver_accept, qserver_destroy_fd, qserver_privmsg).
THEOREM AnswersStayHome == QuerySpec => []AnswersGoHome
  <1>1. QueryInit => QueriesInv
    <2> SUFFICES ASSUME QueryInit PROVE QueriesInv
      OBVIOUS
    <2>1. qserver_clients = NoSlots /\ DOMAIN NoSlots = 0 .. 0 - 1
      BY DEF QueryInit, NoSlots
    <2>2. TableShaped(qserver_clients)
      <3>1. Cardinality(DOMAIN NoSlots) = 0
        BY <2>1, SlotsCounted
      <3>2. NoSlots \in [DOMAIN NoSlots -> Fds \cup {NoFd}]
        BY DEF NoSlots
      <3> QED BY <2>1, <3>1, <3>2 DEF TableShaped
    <2>3. SlotsTaken(qserver_clients) = {} /\ OpenFds(fds) = {}
      BY <2>1 DEF SlotsTaken, QueryInit, OpenFds
    <2> QED BY <2>1, <2>2, <2>3 DEF QueryInit, QueriesInv, SlotsHold, NoSlots
  <1>2. QueriesInv /\ [QueryNext]_queryVars => QueriesInv'
    <2> SUFFICES ASSUME QueriesInv, [QueryNext]_queryVars PROVE QueriesInv'
      OBVIOUS
    <2>1. CASE \E fd \in Fds : qserver_accept(fd) \/ CloseQuery(fd)
      BY <2>1, AcceptKeeps, CloseKeeps
    <2>2. CASE UNCHANGED <<qserver_clients, qserver_dict, dummies, fds>>
      BY <2>2 DEF QueriesInv
    <2> QED BY <2>1, <2>2 DEF QueryNext, PassLine, qserver_conf_read, queryVars
  <1>3. QueriesInv => AnswersGoHome
    <2> SUFFICES ASSUME QueriesInv PROVE AnswersGoHome
      OBVIOUS
    <2>1. DOMAIN dummies = SlotsTaken(qserver_clients) /\ \A i \in DOMAIN dummies : dummies[i] = qserver_clients[i]
      BY DEF QueriesInv
    <2>2. \A i \in DOMAIN qserver_clients : i \notin DOMAIN dummies => qserver_clients[i] = NoFd
      BY <2>1 DEF SlotsTaken
    <2>3. DOMAIN dummies \subseteq DOMAIN qserver_clients
      BY <2>1 DEF SlotsTaken
    <2>4. {dummies[i] : i \in DOMAIN dummies} = {fd \in Fds : fds[fd] = "open"}
      BY <2>1 DEF QueriesInv, SlotsHold, OpenFds
    <2>5. \A i, j \in DOMAIN dummies : dummies[i] = dummies[j] => i = j
      BY <2>1 DEF QueriesInv, SlotsHold
    <2>6. DOMAIN qserver_clients = 0 .. (Cardinality(DOMAIN qserver_clients) - 1)
      BY DEF QueriesInv, TableShaped
    <2> QED BY <2>1, <2>2, <2>3, <2>4, <2>5, <2>6 DEF AnswersGoHome, QueriesInv
  <1> QED BY <1>1, <1>2, <1>3, PTL DEF QuerySpec

-----------------------------------------------------------------------------
(* Groups.  What is said of the groups at hand is said of the saved ones too, *)
(* since a restart takes them.                                                *)

GroupRecord(g) ==
  /\ g = [founder |-> g.founder, open |-> g.open, members |-> g.members]
  /\ g.members \in [DOMAIN g.members -> SUBSET {"FOUNDER", "ADMIN"}]
  /\ DOMAIN g.members \subseteq GroupHandles
  /\ g.founder \in GroupHandles \cup {NoFounder}
  /\ Founders(g) = {g.founder} \ {NoFounder}

GroupsSound(gs) ==
  /\ gs = [n \in DOMAIN gs |-> gs[n]]
  /\ \A n \in DOMAIN gs : GroupRecord(gs[n])

Known(n, g) == \A h \in DOMAIN g.members : h \in groupAccounts \/ <<n, h>> \in staleMembers

GroupsInv ==
  /\ GroupsSound(groups) /\ GroupsSound(savedGroups)
  /\ \A n \in DOMAIN groups : Known(n, groups[n])

\* A command that puts another record in the place of a group keeps the rest.
LEMMA GroupReplaced ==
  ASSUME GroupsInv, NEW n, NEW g, GroupRecord(g), Known(n, g),
         groups' = [x \in DOMAIN groups \cup {n} |-> IF x = n THEN g ELSE groups[x]],
         UNCHANGED <<groupAccounts, staleMembers, savedGroups>>
  PROVE  GroupsInv'
  <1>1. GroupsSound(groups')
    BY DEF GroupsInv, GroupsSound
  <1>2. \A x \in DOMAIN groups' : (\A h \in DOMAIN groups'[x].members : h \in groupAccounts \/ <<x, h>> \in staleMembers)
    BY DEF GroupsInv, Known
  <1> QED BY <1>1, <1>2 DEF GroupsInv, Known

\* A command that changes the members of a group and none with the founder's flag.
LEMMA MembersReplaced ==
  ASSUME GroupsInv, NEW n \in DOMAIN groups, NEW m,
         m \in [DOMAIN m -> SUBSET {"FOUNDER", "ADMIN"}],
         DOMAIN m \subseteq DOMAIN groups[n].members \cup (groupAccounts \cap GroupHandles),
         {h \in DOMAIN m : "FOUNDER" \in m[h]} = Founders(groups[n]),
         groups' = [groups EXCEPT ![n].members = m],
         UNCHANGED <<groupAccounts, staleMembers, savedGroups>>
  PROVE  GroupsInv'
  <1> DEFINE g == [groups[n] EXCEPT !.members = m]
  <1>1. GroupRecord(groups[n]) /\ Known(n, groups[n])
    BY DEF GroupsInv, GroupsSound
  <1>2. g = [founder |-> groups[n].founder, open |-> groups[n].open, members |-> m]
    BY <1>1 DEF GroupRecord
  <1>3. GroupRecord(g) /\ Known(n, g)
    BY <1>1, <1>2 DEF GroupRecord, Known, Founders
  <1>4. groups' = [x \in DOMAIN groups \cup {n} |-> IF x = n THEN g ELSE groups[x]]
    BY DEF GroupsInv, GroupsSound
  <1> HIDE DEF g
  <1> QED BY <1>3, <1>4, GroupReplaced

LEMMA MembersAre ==
  ASSUME GroupsInv, NEW n, GroupUsable(n)
  PROVE  /\ n \in DOMAIN groups /\ GroupRecord(groups[n]) /\ Known(n, groups[n])
         /\ groups[n].members \in [DOMAIN groups[n].members -> SUBSET {"FOUNDER", "ADMIN"}]
         /\ DOMAIN groups[n].members \subseteq GroupHandles
  BY DEF GroupUsable, GroupsInv, GroupsSound, GroupRecord

LEMMA GroupCreateKeeps ==
  ASSUME GroupsInv, NEW u \in GroupHandles, NEW n, cmd_gcreate(u, n)
  PROVE  GroupsInv'
  <1> DEFINE g == [founder |-> u, open |-> FALSE, members |-> [h \in {u} |-> {"FOUNDER", "ADMIN"}]]
  <1>1. Founders(g) = {u} /\ u # NoFounder
    BY FoundersNamed DEF Founders
  <1>2. GroupRecord(g)
    BY <1>1 DEF GroupRecord
  <1>3. Known(n, g)
    BY DEF Known, cmd_gcreate
  <1>4. /\ groups' = [x \in DOMAIN groups \cup {n} |-> IF x = n THEN g ELSE groups[x]]
        /\ UNCHANGED <<groupAccounts, staleMembers, savedGroups>>
    BY DEF cmd_gcreate, SetEntry
  <1> HIDE DEF g
  <1> QED BY <1>2, <1>3, <1>4, GroupReplaced

LEMMA DropKeeps ==
  ASSUME GroupsInv, NEW u, NEW n, cmd_gdrop(u, n)
  PROVE  GroupsInv'
  <1>1. groups' = [x \in DOMAIN groups \ {n} |-> groups[x]] /\ UNCHANGED <<groupAccounts, staleMembers, savedGroups>>
    BY DEF cmd_gdrop, DropEntries
  <1>2. GroupsSound(groups') /\ \A x \in DOMAIN groups' : Known(x, groups'[x])
    BY <1>1 DEF GroupsInv, GroupsSound
  <1> QED BY <1>1, <1>2 DEF GroupsInv, Known

\* JOIN and INVITE add a member without flags.
LEMMA MemberAdded ==
  ASSUME GroupsInv, NEW h \in GroupHandles \cap groupAccounts, NEW n, GroupUsable(n), ~Member(n, h),
         groups' = [groups EXCEPT ![n].members = SetEntry(@, h, {})],
         UNCHANGED <<groupAccounts, staleMembers, savedGroups>>
  PROVE  GroupsInv'
  <1> DEFINE m == SetEntry(groups[n].members, h, {})
  <1>1. /\ DOMAIN m = DOMAIN groups[n].members \cup {h}
        /\ m[h] = {} /\ \A x \in DOMAIN groups[n].members : m[x] = groups[n].members[x]
    BY DEF SetEntry, Member
  <1>2. m \in [DOMAIN m -> SUBSET {"FOUNDER", "ADMIN"}]
    BY MembersAre DEF SetEntry
  <1>3. groups' = [groups EXCEPT ![n].members = m]
    OBVIOUS
  <1> HIDE DEF m
  <1>4. {x \in DOMAIN m : "FOUNDER" \in m[x]} = Founders(groups[n])
    BY <1>1 DEF Founders, Member
  <1> QED BY <1>1, <1>2, <1>3, <1>4, MembersAre, MembersReplaced, ZenonT(30)

\* LEAVE and KICK remove a member that is no founder.
LEMMA MemberRemoved ==
  ASSUME GroupsInv, NEW h, NEW n, GroupUsable(n), ~group_is_founder(n, h),
         groups' = [groups EXCEPT ![n].members = DropEntries(@, {h})],
         UNCHANGED <<groupAccounts, staleMembers, savedGroups>>
  PROVE  GroupsInv'
  <1> DEFINE m == DropEntries(groups[n].members, {h})
  <1>1. /\ DOMAIN m = DOMAIN groups[n].members \ {h}
        /\ \A x \in DOMAIN m : m[x] = groups[n].members[x]
    BY DEF DropEntries
  <1>2. m \in [DOMAIN m -> SUBSET {"FOUNDER", "ADMIN"}]
    BY MembersAre DEF DropEntries
  <1>3. groups' = [groups EXCEPT ![n].members = m]
    OBVIOUS
  <1> HIDE DEF m
  <1>4. {x \in DOMAIN m : "FOUNDER" \in m[x]} = Founders(groups[n])
    BY <1>1 DEF Founders, group_is_founder, Member
  <1> QED BY <1>1, <1>2, <1>3, <1>4, MembersAre, MembersReplaced

LEMMA FlagsKeep ==
  ASSUME GroupsInv, NEW u, NEW t, NEW n, cmd_gflags(u, n, t)
  PROVE  GroupsInv'
  <1> DEFINE m == [groups[n].members EXCEPT ![t] = @ \cup {"ADMIN"}]
  <1>1. GroupUsable(n) /\ t \in DOMAIN groups[n].members
    BY DEF cmd_gflags, Member
  <1>2. /\ DOMAIN m = DOMAIN groups[n].members /\ m[t] = groups[n].members[t] \cup {"ADMIN"}
        /\ \A x \in DOMAIN m : x # t => m[x] = groups[n].members[x]
        /\ m \in [DOMAIN m -> SUBSET {"FOUNDER", "ADMIN"}]
    BY <1>1, MembersAre
  <1>3. groups' = [groups EXCEPT ![n].members = m] /\ UNCHANGED <<groupAccounts, staleMembers, savedGroups>>
    BY DEF cmd_gflags
  <1> HIDE DEF m
  <1>4. {x \in DOMAIN m : "FOUNDER" \in m[x]} = Founders(groups[n])
    BY <1>2 DEF Founders
  <1> QED BY <1>1, <1>2, <1>3, <1>4, MembersAre, MembersReplaced

LEMMA OpenKeeps ==
  ASSUME GroupsInv, NEW u, NEW n, NEW b, cmd_gset(u, n, b)
  PROVE  GroupsInv'
  <1> DEFINE g == [groups[n] EXCEPT !.open = b]
  <1>1. GroupRecord(groups[n]) /\ Known(n, groups[n]) /\ n \in DOMAIN groups
    BY MembersAre DEF cmd_gset
  <1>2. g = [founder |-> groups[n].founder, open |-> b, members |-> groups[n].members]
    BY <1>1 DEF GroupRecord
  <1>3. GroupRecord(g) /\ Known(n, g)
    BY <1>1, <1>2 DEF GroupRecord, Known, Founders
  <1>4. /\ groups' = [x \in DOMAIN groups \cup {n} |-> IF x = n THEN g ELSE groups[x]]
        /\ UNCHANGED <<groupAccounts, staleMembers, savedGroups>>
    BY <1>1 DEF cmd_gset, GroupsInv, GroupsSound
  <1> HIDE DEF g
  <1> QED BY <1>3, <1>4, GroupReplaced

LEMMA GroupsReadKeep ==
  ASSUME GroupsInv, groupserv_saxdb_read
  PROVE  GroupsInv'
  <1> DEFINE gone == GroupHandles \ groupAccounts
             Loaded(s) == [founder |-> IF s.founder \in groupAccounts THEN s.founder ELSE NoFounder,
                         open |-> s.open, members |-> DropEntries(s.members, gone)]
  <1>1. /\ groups' = [n \in DOMAIN savedGroups |-> Loaded(savedGroups[n])]
        /\ UNCHANGED <<groupAccounts, savedGroups>>
    BY DEF groupserv_saxdb_read
  <1>2. ASSUME NEW s, GroupRecord(s)
        PROVE  GroupRecord(Loaded(s)) /\ \A h \in DOMAIN Loaded(s).members : h \in groupAccounts
    <2>1. /\ DOMAIN Loaded(s).members = DOMAIN s.members \cap groupAccounts
          /\ \A h \in DOMAIN Loaded(s).members : Loaded(s).members[h] = s.members[h]
      BY <1>2 DEF DropEntries, GroupRecord
    <2>2. Loaded(s).members \in [DOMAIN Loaded(s).members -> SUBSET {"FOUNDER", "ADMIN"}]
      BY <1>2 DEF DropEntries, GroupRecord
    <2>3. Founders(Loaded(s)) = Founders(s) \cap groupAccounts
      BY <2>1 DEF Founders
    <2>4. Loaded(s).founder = IF s.founder \in groupAccounts THEN s.founder ELSE NoFounder
      OBVIOUS
    <2>5. Founders(Loaded(s)) = {Loaded(s).founder} \ {NoFounder}
      BY <1>2, <2>3, <2>4 DEF GroupRecord
    <2>6. Loaded(s) = [founder |-> Loaded(s).founder, open |-> Loaded(s).open, members |-> Loaded(s).members]
      OBVIOUS
    <2> HIDE DEF Loaded
    <2> QED BY <1>2, <2>1, <2>2, <2>4, <2>5, <2>6 DEF GroupRecord
  <1> HIDE DEF Loaded
  <1>3. GroupsSound(groups')
    BY <1>1, <1>2 DEF GroupsInv, GroupsSound
  <1>4. \A n \in DOMAIN groups' : \A h \in DOMAIN groups'[n].members : h \in groupAccounts
    BY <1>1, <1>2 DEF GroupsInv, GroupsSound
  <1> QED BY <1>1, <1>3, <1>4 DEF GroupsInv, Known

LEMMA GroupsStep == GroupsInv /\ [GroupNext]_groupVars => GroupsInv'
  <1> SUFFICES ASSUME GroupsInv, [GroupNext]_groupVars PROVE GroupsInv'
    OBVIOUS
  <1>1. ASSUME NEW u \in GroupHandles, NEW n, cmd_gjoin(u, n) PROVE GroupsInv'
    BY <1>1, MemberAdded DEF cmd_gjoin
  <1>2. ASSUME NEW u \in GroupHandles, NEW t \in GroupHandles, NEW n, cmd_ginvite(u, n, t) PROVE GroupsInv'
    BY <1>2, MemberAdded DEF cmd_ginvite
  <1>3. ASSUME NEW u, NEW n, cmd_gleave(u, n) PROVE GroupsInv'
    BY <1>3, MemberRemoved DEF cmd_gleave
  <1>4. ASSUME NEW u, NEW t, NEW n, cmd_gkick(u, n, t) PROVE GroupsInv'
    BY <1>4, MemberRemoved DEF cmd_gkick
  <1>5. ASSUME NEW h, UnregisterHandle(h) PROVE GroupsInv'
    <2>1. \A n \in DOMAIN groups : \A x \in DOMAIN groups[n].members : x \in groupAccounts' \/ <<n, x>> \in staleMembers'
      BY <1>5 DEF UnregisterHandle, Member, GroupsInv, Known
    <2> QED BY <1>5, <2>1 DEF UnregisterHandle, GroupsInv, Known
  <1>6. ASSUME NEW h, RegisterHandle(h) PROVE GroupsInv'
    BY <1>6 DEF RegisterHandle, GroupsInv, Known
  <1>7. CASE groupserv_saxdb_write
    BY <1>7 DEF groupserv_saxdb_write, GroupsInv, Known
  <1>8. CASE UNCHANGED groupVars
    BY <1>8 DEF groupVars, GroupsInv, Known
  <1> QED BY <1>1, <1>2, <1>3, <1>4, <1>5, <1>6, <1>7, <1>8, GroupCreateKeeps, DropKeeps, FlagsKeep, OpenKeeps,
             GroupsReadKeep DEF GroupNext

\* For any groups and accounts: the founder a group names is the one member with the founder's
\* flag, and members are registered unless their key dangles, whatever admins, renames, saves
\* and restarts do (cmd_gkick, cmd_gflags, groupserv_saxdb_read).
THEOREM FoundersStay == GroupSpec => []FounderHolds
  <1>1. GroupInit => GroupsInv
    BY DEF GroupInit, GroupsInv, GroupsSound
  <1>2. GroupsInv => FounderHolds
    BY DEF GroupsInv, GroupsSound, GroupRecord, FounderHolds, Known
  <1> QED BY <1>1, <1>2, GroupsStep, PTL DEF GroupSpec

-----------------------------------------------------------------------------
(* The resolver under the DNS blacklist.  The counts are numbers because   *)
(* the table of requests stays finite.                                     *)

Counted ==
    /\ hits \in Nat /\ queries \in Nat
    /\ IsFiniteSet(DOMAIN sar_requests)
    /\ OneHitPerQuery

\* A request leaves the table, and counts as a hit at most once.
LEMMA AnsweredOnce ==
    ASSUME Counted, NEW i \in DOMAIN sar_requests, sar_requests' = Without({i}),
           hits' \in {hits, hits + 1}, queries' = queries
    PROVE  Counted'
  <1>1. DOMAIN sar_requests' = DOMAIN sar_requests \ {i}
    BY DEF Without
  <1>2. /\ IsFiniteSet(DOMAIN sar_requests')
        /\ Cardinality(DOMAIN sar_requests') = Cardinality(DOMAIN sar_requests) - 1
    BY <1>1, FS_RemoveElement DEF Counted
  <1>3. Cardinality(DOMAIN sar_requests) \in Nat
    BY FS_CardinalityType DEF Counted
  <1> QED BY <1>2, <1>3 DEF Counted, OneHitPerQuery

\* Requests are given up, and none is added.
LEMMA GivenUpOn ==
    ASSUME Counted, DOMAIN sar_requests' \in SUBSET DOMAIN sar_requests,
           hits' = hits, queries' = queries
    PROVE  Counted'
  <1>1. /\ IsFiniteSet(DOMAIN sar_requests')
        /\ Cardinality(DOMAIN sar_requests') <= Cardinality(DOMAIN sar_requests)
    BY FS_Subset DEF Counted
  <1>2. Cardinality(DOMAIN sar_requests) \in Nat /\ Cardinality(DOMAIN sar_requests') \in Nat
    BY <1>1, FS_CardinalityType DEF Counted
  <1> QED BY <1>1, <1>2 DEF Counted, OneHitPerQuery

LEMMA AskedOnce ==
    ASSUME Counted, NEW i, NEW ip, NEW zone, Ask(i, ip, zone)
    PROVE  Counted'
  <1>1. /\ DOMAIN sar_requests' = DOMAIN sar_requests \union {i} /\ i \notin DOMAIN sar_requests
        /\ queries' = queries + 1 /\ hits' = hits
    BY DEF Ask
  <1>2. /\ IsFiniteSet(DOMAIN sar_requests')
        /\ Cardinality(DOMAIN sar_requests') = Cardinality(DOMAIN sar_requests) + 1
    BY <1>1, FS_AddElement DEF Counted
  <1>3. Cardinality(DOMAIN sar_requests) \in Nat
    BY FS_CardinalityType DEF Counted
  <1> QED BY <1>1, <1>2, <1>3 DEF Counted, OneHitPerQuery

\* However many identifiers, addresses and zones there are, and however answers are lost,
\* repeated, delayed or credited to a query that took over an identifier, no client is found
\* listed more often than was asked: an answer takes its request out of the table, and an
\* identifier in use is not given out (sar_fd_readable, sar_request_abort, sar_request_send).
THEOREM AtMostOneHit == Spec => []OneHitPerQuery
  <1>1. Init => Counted
    BY FS_EmptySet DEF Init, Counted, OneHitPerQuery
  <1>2. Counted /\ [Next]_vars => Counted'
    <2> SUFFICES ASSUME Counted, [Next]_vars PROVE Counted'
      OBVIOUS
    <2>1. ASSUME NEW i \in SarIds, NEW ip \in Addresses, NEW zone \in Zones, Ask(i, ip, zone)
          PROVE  Counted'
      BY <2>1, AskedOnce
    <2>2. ASSUME NEW i \in SarIds, NEW listed \in BOOLEAN, Answer(i, listed)
          PROVE  Counted'
      BY <2>2, AnsweredOnce DEF Answer
    <2>3. ASSUME NEW i \in SarIds, AnswerError(i)
          PROVE  Counted'
      BY <2>3, AnsweredOnce DEF AnswerError
    <2>4. ASSUME NEW t \in sarTimers, TimeoutCb(t)
          PROVE  Counted'
      <3>1. DOMAIN sar_requests' \in SUBSET DOMAIN sar_requests
        BY <2>4 DEF TimeoutCb
      <3>2. hits' = hits /\ queries' = queries
        BY <2>4 DEF TimeoutCb
      <3> QED BY <3>1, <3>2, GivenUpOn
    <2>5. ASSUME UNCHANGED <<sar_requests, queries, hits>>
          PROVE  Counted'
      BY <2>5, GivenUpOn
    <2> QED BY <2>1, <2>2, <2>3, <2>4, <2>5
            DEF Next, Lose, Rehash, Tick, vars, sarVars
  <1>3. Counted => OneHitPerQuery
    BY DEF Counted
  <1> QED BY <1>1, <1>2, <1>3, PTL DEF Spec

-----------------------------------------------------------------------------
(* Logs.  Joining a destination to lists adds to its count the lists that  *)
(* did not have it: a disjoint union.  The audit trail is in order, and of *)
(* the entries that are kept none is past its age, since those that are    *)
(* come first.                                                             *)

HoldsCounted(ls, ds) ==
    /\ \A d \in DOMAIN ds : ds[d] = Count(d, ls)
    /\ \A l \in LogLists : ls[l] \subseteq DOMAIN ds

AuditKept ==
    /\ audit \in Seq(Nat) /\ logNow \in Nat /\ max_count \in Nat
    /\ \A i \in 1 .. Len(audit) : audit[i] <= logNow
    /\ \A i, j \in 1 .. Len(audit) : i < j => audit[i] <= audit[j]
    /\ audit # <<>> => audit[Len(audit)] <= audit[1] + max_age

LogInv == HoldsCounted(logs, dests) /\ AuditKept /\ pending \in Seq(LogEntries)

LEMMA ListsFinite == IsFiniteSet(LogLists)
  BY LogsNamed, FS_Product, FS_AddElement DEF LogLists

LEMMA JoinCounts ==
    ASSUME NEW ls, NEW ds, HoldsCounted(ls, ds), NEW d, NEW lists \in SUBSET LogLists
    PROVE  HoldsCounted(Join(d, lists, ls, ds).logs, Join(d, lists, ls, ds).dests)
  <1> DEFINE A == {l \in LogLists : d \in ls[l]}
             B == Joined(d, lists, ls)
             after == Join(d, lists, ls, ds)
  <1>1. /\ after.logs = [l \in LogLists |-> IF l \in lists THEN ls[l] \union {d} ELSE ls[l]]
        /\ after.dests = [z \in DOMAIN ds \union {d} |-> IF z = d THEN Refs(d, ds) + Cardinality(B) ELSE ds[z]]
    BY DEF Join, PutAt
  <1> HIDE DEF after
  <1>2. IsFiniteSet(A) /\ IsFiniteSet(B) /\ A \cap B = {}
    BY ListsFinite, FS_Subset DEF Joined
  <1>3. {l \in LogLists : d \in after.logs[l]} = A \union B
    BY <1>1 DEF Joined
  <1>4. Cardinality(A \union B) = Cardinality(A) + Cardinality(B)
    <2> HIDE DEF A, B
    <2>1. Cardinality(A) \in Nat /\ Cardinality(B) \in Nat /\ Cardinality(A \cap B) = 0
      BY <1>2, FS_EmptySet, FS_CardinalityType
    <2>2. Cardinality(A \union B) = Cardinality(A) + Cardinality(B) - Cardinality(A \cap B)
      BY <1>2, FS_Union
    <2> QED BY <2>1, <2>2
  <1>5. Refs(d, ds) = Cardinality(A)
    <2>1. CASE d \in DOMAIN ds
      BY <2>1 DEF HoldsCounted, Count, Refs
    <2>2. CASE d \notin DOMAIN ds
      <3>1. A = {}
        BY <2>2 DEF HoldsCounted
      <3> QED BY <2>2, <3>1, FS_EmptySet DEF Refs
    <2> QED BY <2>1, <2>2
  <1>6. after.dests[d] = Count(d, after.logs)
    BY <1>1, <1>3, <1>4, <1>5 DEF Count
  <1>7. ASSUME NEW z \in DOMAIN ds, z # d
        PROVE  after.dests[z] = Count(z, after.logs)
    <2>1. {l \in LogLists : z \in after.logs[l]} = {l \in LogLists : z \in ls[l]}
      BY <1>1, <1>7
    <2> QED BY <1>1, <1>7, <2>1 DEF Count, HoldsCounted
  <1>8. \A l \in LogLists : after.logs[l] \subseteq DOMAIN after.dests
    BY <1>1 DEF HoldsCounted
  <1>9. DOMAIN after.dests = DOMAIN ds \union {d}
    BY <1>1
  <1> QED BY <1>6, <1>7, <1>8, <1>9 DEF HoldsCounted, after

LEMMA DebuggedCounts ==
    ASSUME NEW ls, NEW ds, HoldsCounted(ls, ds)
    PROVE  HoldsCounted(Debugged(ls, ds).logs, Debugged(ls, ds).dests)
  BY JoinCounts DEF Debugged, LogLists

LEMMA NoneCounted == HoldsCounted(NoLogs, NoDests)
  BY DEF HoldsCounted, NoLogs, NoDests

\* The patterns of an entry are severities there are.
LEMMA SevsetKnown ==
    ASSUME NEW e \in LogEntries
    PROVE  e.types \X log_parse_sevset(e.sevs) \subseteq LogLists
  <1>1. e.sevs.sev \in Severities /\ e.types \subseteq Facilities \union {"*"}
    BY DEF LogEntries
  <1>2. log_parse_sevset(e.sevs) \subseteq Severities
    BY <1>1 DEF log_parse_sevset
  <1> QED BY <1>1, <1>2 DEF LogLists

LEMMA AuditsKept ==
    ASSUME AuditKept, log_audit
    PROVE  AuditKept'
  <1> DEFINE all  == Append(audit, logNow)
             over == IF Len(all) > max_count THEN Len(all) - max_count ELSE 0
             some == SubSeq(all, over + 1, Len(all))
             aged == {i \in DOMAIN some : some[i] + max_age < logNow}
             old  == Cardinality(aged)
             kept == SubSeq(some, old + 1, Len(some))
  <1>1. audit' = kept /\ UNCHANGED <<logNow, max_count>>
    BY DEF log_audit
  <1>2. /\ all \in Seq(Nat) /\ Len(all) = Len(audit) + 1
        /\ \A i \in 1 .. Len(all) : all[i] <= logNow
        /\ \A i, j \in 1 .. Len(all) : i < j => all[i] <= all[j]
    <2>1. /\ all \in Seq(Nat) /\ Len(all) = Len(audit) + 1
          /\ \A i \in 1 .. Len(all) : all[i] = IF i = Len(audit) + 1 THEN logNow ELSE audit[i]
      BY DEF AuditKept
    <2> HIDE DEF all
    <2>2. /\ Len(audit) \in Nat /\ logNow \in Nat
          /\ \A i \in 1 .. Len(audit) : audit[i] \in Nat /\ audit[i] <= logNow
          /\ \A i, j \in 1 .. Len(audit) : i < j => audit[i] <= audit[j]
      BY DEF AuditKept
    <2>3. ASSUME NEW i \in 1 .. Len(all) PROVE all[i] <= logNow
      BY <2>1, <2>2
    <2>4. ASSUME NEW i \in 1 .. Len(all), NEW j \in 1 .. Len(all), i < j PROVE all[i] <= all[j]
      <3>1. i \in 1 .. Len(audit) /\ all[i] = audit[i]
        BY <2>1, <2>2, <2>4
      <3>2. CASE j = Len(audit) + 1
        BY <2>1, <2>2, <3>1, <3>2
      <3>3. CASE j \in 1 .. Len(audit)
        BY <2>1, <2>2, <2>4, <3>1, <3>3
      <3> QED BY <2>1, <2>2, <3>2, <3>3
    <2> QED BY <2>1, <2>3, <2>4
  <1> HIDE DEF all
  <1>3. over \in Nat /\ over <= Len(all) /\ Len(all) \in Nat
    BY <1>2 DEF AuditKept
  <1> HIDE DEF over
  <1>4. /\ some \in Seq(Nat) /\ Len(some) = Len(all) - over
        /\ \A i \in 1 .. Len(some) : some[i] = all[over + i]
    <2>1. \A i \in over + 1 .. Len(all) : all[i] \in Nat
      BY <1>2, <1>3
    <2> QED BY <1>2, <1>3, <2>1, SubSeqProperties
  <1>5. /\ \A i \in 1 .. Len(some) : some[i] <= logNow
        /\ \A i, j \in 1 .. Len(some) : i < j => some[i] <= some[j]
    <2>1. ASSUME NEW i \in 1 .. Len(some)
          PROVE  over + i \in 1 .. Len(all) /\ some[i] = all[over + i]
      BY <1>3, <1>4
    <2> QED
      <3>1. ASSUME NEW i \in 1 .. Len(some) PROVE some[i] <= logNow
        BY <1>2, <2>1
      <3>2. ASSUME NEW i \in 1 .. Len(some), NEW j \in 1 .. Len(some), i < j
            PROVE  some[i] <= some[j]
        <4>1. over + i < over + j
          BY <1>3, <3>2
        <4>2. /\ over + i \in 1 .. Len(all) /\ some[i] = all[over + i]
              /\ over + j \in 1 .. Len(all) /\ some[j] = all[over + j]
          BY <2>1
        <4> QED BY <1>2, <4>1, <4>2
      <3> QED BY <3>1, <3>2
  <1>6. DOMAIN some = 1 .. Len(some) /\ Len(some) \in Nat
    BY <1>4
  <1> HIDE DEF some
  <1>7. IsFiniteSet(aged) /\ old \in Nat /\ old <= Len(some)
    <2>1. IsFiniteSet(1 .. Len(some)) /\ Cardinality(1 .. Len(some)) = Len(some)
      <3> DEFINE n == Len(some)
      <3>1. n \in Nat
        BY <1>6
      <3> HIDE DEF n
      <3>2. IsFiniteSet(1 .. n) /\ Cardinality(1 .. n) = n
        BY <3>1, FS_Interval
      <3> QED BY <3>2 DEF n
    <2> QED BY <1>6, <2>1, FS_Subset, FS_CardinalityType
  <1>8. old + 1 <= Len(some) => logNow <= some[old + 1] + max_age
    <2> SUFFICES ASSUME old + 1 <= Len(some), ~(logNow <= some[old + 1] + max_age)
                 PROVE  FALSE
      OBVIOUS
    <2>1. \A i \in 1 .. old + 1 : i \in DOMAIN some /\ some[i] <= some[old + 1] /\ some[i] \in Nat
      BY <1>4, <1>5, <1>6, <1>7
    <2>2. max_age \in Nat /\ logNow \in Nat
      BY AuditsBounded DEF AuditKept
    <2>3. 1 .. old + 1 \subseteq aged
      <3> HIDE DEF old
      <3>1. some[old + 1] + max_age < logNow
        <4>1. some[old + 1] \in Nat
          BY <1>7, <2>1
        <4> QED BY <2>2, <4>1
      <3>2. old + 1 \in 1 .. old + 1
        BY <1>7
      <3>3. some[old + 1] \in Nat
        BY <2>1, <3>2
      <3> QED BY <2>1, <2>2, <3>1, <3>3
    <2> HIDE DEF aged
    <2>4. Cardinality(1 .. old + 1) = old + 1 /\ Cardinality(1 .. old + 1) <= old
      <3>1. Cardinality(1 .. old + 1) <= Cardinality(aged)
        BY <1>7, <2>3, FS_Subset
      <3> QED BY <1>7, <3>1, FS_Interval
    <2> QED BY <1>7, <2>4
  <1> HIDE DEF old
  <1>9. /\ kept \in Seq(Nat) /\ Len(kept) = Len(some) - old
        /\ \A i \in 1 .. Len(kept) : kept[i] = some[old + i]
    <2>1. \A i \in old + 1 .. Len(some) : some[i] \in Nat
      BY <1>4, <1>7
    <2> QED BY <1>4, <1>7, <2>1, SubSeqProperties
  <1> HIDE DEF kept
  <1>10. /\ \A i \in 1 .. Len(kept) : kept[i] <= logNow
         /\ \A i, j \in 1 .. Len(kept) : i < j => kept[i] <= kept[j]
    <2>1. ASSUME NEW i \in 1 .. Len(kept)
          PROVE  old + i \in 1 .. Len(some) /\ kept[i] = some[old + i]
      BY <1>6, <1>7, <1>9
    <2>2. ASSUME NEW i \in 1 .. Len(kept) PROVE kept[i] <= logNow
      BY <1>5, <2>1
    <2>3. ASSUME NEW i \in 1 .. Len(kept), NEW j \in 1 .. Len(kept), i < j
          PROVE  kept[i] <= kept[j]
      <3>1. old + i < old + j
        BY <1>7, <2>3
      <3>2. /\ old + i \in 1 .. Len(some) /\ kept[i] = some[old + i]
            /\ old + j \in 1 .. Len(some) /\ kept[j] = some[old + j]
        BY <2>1
      <3> QED BY <1>5, <3>1, <3>2
    <2> QED BY <2>2, <2>3
  <1>11. kept # <<>> => kept[Len(kept)] <= kept[1] + max_age
    <2> SUFFICES ASSUME kept # <<>> PROVE kept[Len(kept)] <= kept[1] + max_age
      OBVIOUS
    <2>1. Len(kept) \in Nat /\ Len(kept) >= 1
      BY <1>9
    <2>2. kept[1] = some[old + 1] /\ old + 1 <= Len(some)
      BY <1>6, <1>7, <1>9, <2>1
    <2>3. kept[Len(kept)] <= logNow /\ kept[Len(kept)] \in Nat /\ kept[1] \in Nat
      BY <1>9, <1>10, <2>1
    <2> QED BY <1>8, <2>2, <2>3, AuditsBounded DEF AuditKept
  <1> QED BY <1>1, <1>9, <1>10, <1>11 DEF AuditKept

LEMMA LogStep == LogInv /\ [LogNext]_logVars => LogInv'
  <1> SUFFICES ASSUME LogInv, [LogNext]_logVars PROVE LogInv'
    OBVIOUS
  <1>1. CASE ReadEntry
    <2> DEFINE e    == Head(pending)
               entered == Join(e.dest, e.types \X log_parse_sevset(e.sevs), logs, dests)
    <2>1. e \in LogEntries /\ Tail(pending) \in Seq(LogEntries)
      BY <1>1 DEF ReadEntry, LogInv
    <2>2. HoldsCounted(entered.logs, entered.dests)
      BY <2>1, SevsetKnown, JoinCounts DEF LogInv
    <2> HIDE DEF entered
    <2>3. HoldsCounted(Debugged(entered.logs, entered.dests).logs, Debugged(entered.logs, entered.dests).dests)
      BY <2>2, DebuggedCounts
    <2>4. \/ logs' = entered.logs /\ dests' = entered.dests
          \/ logs' = Debugged(entered.logs, entered.dests).logs /\ dests' = Debugged(entered.logs, entered.dests).dests
      BY <1>1 DEF ReadEntry, LogTo, entered
    <2>5. HoldsCounted(logs', dests')
      BY <2>2, <2>3, <2>4
    <2> QED BY <1>1, <2>1, <2>5 DEF ReadEntry, LogInv, AuditKept, HoldsCounted, Count
  <1>2. CASE log_debug
    <2>1. HoldsCounted(logs', dests')
      BY <1>2, DebuggedCounts DEF log_debug, LogTo, LogInv
    <2> QED BY <1>2, <2>1 DEF log_debug, LogInv, AuditKept, HoldsCounted, Count
  <1>3. ASSUME NEW conf \in Configs, NEW limit \in AuditLimits, log_conf_read(conf, limit) PROVE LogInv'
    <2>1. \/ logs' = NoLogs /\ dests' = NoDests
          \/ logs' = Debugged(NoLogs, NoDests).logs /\ dests' = Debugged(NoLogs, NoDests).dests
      BY <1>3 DEF log_conf_read, LogTo
    <2>2. HoldsCounted(logs', dests')
      BY <2>1, NoneCounted, DebuggedCounts
    <2> QED BY <1>3, <2>2, LogsNamed, AuditsBounded DEF log_conf_read, LogInv, AuditKept, HoldsCounted, Count
  <1>4. ASSUME NEW t \in Facilities, log_register_type(t) PROVE LogInv'
    <2> DEFINE empty == {l \in {t} \X (Severities \ {0}) : logs[l] = {}}
    <2>1. empty \in SUBSET LogLists
      BY DEF LogLists
    <2> HIDE DEF empty
    <2>2. \/ UNCHANGED <<logs, dests>>
          \/ /\ logs' = Join(DefaultLog[t], empty, logs, dests).logs
             /\ dests' = Join(DefaultLog[t], empty, logs, dests).dests
      BY <1>4 DEF log_register_type, LogTo, empty
    <2>3. HoldsCounted(logs', dests')
      BY <2>1, <2>2, JoinCounts DEF LogInv
    <2> QED BY <1>4, <2>3 DEF log_register_type, LogInv, AuditKept, HoldsCounted, Count
  <1>5. CASE log_audit
    BY <1>5, AuditsKept DEF log_audit, LogInv, HoldsCounted, Count
  <1>6. CASE LogTick
    <2>1. UNCHANGED <<pending, dests, logs, audit, max_count>> /\ logNow' = logNow + 1
      BY <1>6 DEF LogTick
    <2>2. audit \in Seq(Nat) /\ logNow \in Nat
      BY DEF LogInv, AuditKept
    <2>3. \A i \in 1 .. Len(audit) : audit[i] <= logNow + 1
      BY <2>2 DEF LogInv, AuditKept
    <2> QED BY <2>1, <2>2, <2>3 DEF LogInv, AuditKept, HoldsCounted, Count
  <1>7. CASE UNCHANGED logVars
    BY <1>7 DEF logVars, LogInv, AuditKept, HoldsCounted, Count
  <1> QED BY <1>1, <1>2, <1>3, <1>4, <1>5, <1>6, <1>7 DEF LogNext

\* For any facilities, severities and configurations: a destination is counted once for each list
\* that holds it, so that it is closed when the last one lets go and not before, through rehashes and
\* modules that start in any order; and the audited commands that are kept are in order and of one
\* max_age (logList_join, logList_close, log_register_type, log_audit).
THEOREM LogsStayCounted == LogSpec => []LogsCounted
  <1>1. LogInit => LogInv
    <2> SUFFICES ASSUME LogInit PROVE LogInv
      OBVIOUS
    <2>1. AuditKept
      BY AuditsBounded DEF LogInit, AuditKept
    <2> QED BY <2>1, NoneCounted, LogsNamed DEF LogInit, LogInv
  <1>2. LogInv => LogsCounted
    <2> SUFFICES ASSUME LogInv PROVE LogsCounted
      OBVIOUS
    <2>1. DOMAIN audit = 1 .. Len(audit)
      BY DEF LogInv, AuditKept
    <2> QED BY <2>1 DEF LogInv, HoldsCounted, AuditKept, LogsCounted
  <1> QED BY <1>1, <1>2, LogStep, PTL DEF LogSpec
-----------------------------------------------------------------------------
(* Bots, none of which is renamed.  An assignment then names its bot by the   *)
(* bot's key, and a bot whose count is zero is no channel's.                  *)

Using(k, cd) == {c \in DOMAIN cd : cd[c].bot = k}

BotRecord(k, r) == r = [nick |-> k, online |-> r.online, assigned_count |-> r.assigned_count]
ChannelRecord(r) == r = [members |-> r.members, registered |-> r.registered, channel_bot |-> r.channel_bot]

BotsShaped(bs) ==
  /\ bs = [k \in DOMAIN bs |-> bs[k]] /\ DOMAIN bs \subseteq BotNicks
  /\ \A k \in DOMAIN bs : BotRecord(k, bs[k])
AssignedShaped(cd) ==
  /\ cd = [c \in DOMAIN cd |-> cd[c]] /\ IsFiniteSet(DOMAIN cd)
  /\ \A c \in DOMAIN cd : cd[c] = [bot |-> cd[c].bot, on |-> cd[c].on]
ChannelsShaped(chs) ==
  /\ chs = [c \in DOMAIN chs |-> chs[c]]
  /\ \A c \in DOMAIN chs : ChannelRecord(chs[c])

CountsExact(bs, cd) == \A k \in DOMAIN bs : bs[k].assigned_count = Cardinality(Using(k, cd))
AssignedExist(bs, cd) == \A c \in DOMAIN cd : cd[c].bot \in DOMAIN bs

\* The bot of channel c, whose record is r, is on the network, in the channel and assigned to it.
BotLive(c, r, bs, cd) ==
  r.channel_bot # NoBot =>
    /\ r.channel_bot \in DOMAIN bs /\ bs[r.channel_bot].online /\ r.channel_bot \in r.members
    /\ c \in DOMAIN cd /\ cd[c].bot = r.channel_bot
BotsLive(chs, bs, cd) == \A c \in DOMAIN chs : BotLive(c, chs[c], bs, cd)

BotsInv ==
  /\ BotsShaped(bot_dict) /\ AssignedShaped(channel_dict) /\ ChannelsShaped(botChannels)
  /\ CountsExact(bot_dict, channel_dict) /\ AssignedExist(bot_dict, channel_dict)
  /\ BotsLive(botChannels, bot_dict, channel_dict)

LEMMA BotNamed ==
  ASSUME BotsShaped(bot_dict), NEW k \in DOMAIN bot_dict
  PROVE  k # NoBot /\ k # "ChanServ" /\ bot_dict[k].nick = k
  BY BotsNamed DEF BotsShaped, BotRecord

LEMMA UsingFinite ==
  ASSUME NEW cd, AssignedShaped(cd), NEW k
  PROVE  IsFiniteSet(Using(k, cd))
  BY FS_Subset DEF AssignedShaped, Using

\* Channels that end, and channels whose record is replaced by a live one.
LEMMA SettledIs ==
  ASSUME NEW chs, ChannelsShaped(chs)
  PROVE  /\ ChannelsShaped(Settled(chs)) /\ DOMAIN Settled(chs) \subseteq DOMAIN chs
         /\ \A c \in DOMAIN Settled(chs) : Settled(chs)[c] = chs[c]
  BY DEF Settled, ChannelsShaped

LEMMA SettledLive ==
  ASSUME NEW chs, NEW bs, NEW cd, ChannelsShaped(chs), BotsLive(chs, bs, cd)
  PROVE  ChannelsShaped(Settled(chs)) /\ BotsLive(Settled(chs), bs, cd)
  <1>1. /\ ChannelsShaped(Settled(chs)) /\ DOMAIN Settled(chs) \subseteq DOMAIN chs
        /\ \A c \in DOMAIN Settled(chs) : Settled(chs)[c] = chs[c]
    BY SettledIs
  <1>2. \A c \in DOMAIN Settled(chs) : BotLive(c, Settled(chs)[c], bs, cd)
    BY <1>1 DEF BotsLive
  <1> QED BY <1>1, <1>2 DEF BotsLive

LEMMA RecordReplaced ==
  ASSUME NEW chs, NEW bs, NEW cd, NEW old, ChannelsShaped(chs), NEW c, NEW r,
         ChannelRecord(r), BotLive(c, r, bs, cd),
         \A d \in DOMAIN chs : d # c => BotLive(d, chs[d], bs, cd),
         old = [d \in DOMAIN chs |-> IF d = c THEN r ELSE chs[d]]
  PROVE  ChannelsShaped(old) /\ BotsLive(old, bs, cd)
  <1>1. ChannelsShaped(old)
    BY DEF ChannelsShaped
  <1>2. \A d \in DOMAIN old : BotLive(d, old[d], bs, cd)
    OBVIOUS
  <1> QED BY <1>1, <1>2 DEF BotsLive

LEMMA TakesOverLive ==
  ASSUME NEW chs, ChannelsShaped(chs), NEW c \in DOMAIN chs, NEW k, NEW always,
         NEW bs, NEW cd,
         k \in DOMAIN bs, bs[k].online, k # "ChanServ", c \in DOMAIN cd, cd[c].bot = k,
         ~always /\ chs[c].channel_bot # NoBot => chs[c].channel_bot = k,
         chs[c].channel_bot # NoBot => chs[c].registered \/ chs[c].channel_bot = k,
         \A d \in DOMAIN chs : d # c => BotLive(d, chs[d], bs, cd)
  PROVE  ChannelsShaped(TakesOver(chs, c, k, always)) /\ BotsLive(TakesOver(chs, c, k, always), bs, cd)
  <1> DEFINE own == IF chs[c].registered /\ (always \/ chs[c].channel_bot = NoBot) THEN k ELSE chs[c].channel_bot
             r == [members |-> (chs[c].members \cup {k}) \ {"ChanServ"}, registered |-> chs[c].registered, channel_bot |-> own]
  <1>1. ChannelRecord(chs[c])
    BY DEF ChannelsShaped
  <1>2. TakesOver(chs, c, k, always) = [d \in DOMAIN chs |-> IF d = c THEN r ELSE chs[d]]
    BY DEF TakesOver, ChannelsShaped
  <1>3. own # NoBot => own = k
    OBVIOUS
  <1>4. ChannelRecord(r) /\ BotLive(c, r, bs, cd)
    BY <1>3 DEF ChannelRecord, BotLive
  <1> HIDE DEF r
  <1> QED BY <1>2, <1>4, RecordReplaced

\* What a change of one count does to the bots.
LEMMA CountChanged ==
  ASSUME BotsShaped(bot_dict), NEW k \in DOMAIN bot_dict, NEW n, bot_dict' = [bot_dict EXCEPT ![k].assigned_count = n]
  PROVE  /\ BotsShaped(bot_dict') /\ DOMAIN bot_dict' = DOMAIN bot_dict
         /\ bot_dict'[k].assigned_count = n
         /\ \A m \in DOMAIN bot_dict : m # k => bot_dict'[m].assigned_count = bot_dict[m].assigned_count
         /\ \A m \in DOMAIN bot_dict : bot_dict'[m].online = bot_dict[m].online
  <1> DEFINE r == [nick |-> k, online |-> bot_dict[k].online, assigned_count |-> n]
  <1>1. bot_dict[k] = [nick |-> k, online |-> bot_dict[k].online, assigned_count |-> bot_dict[k].assigned_count]
    BY DEF BotsShaped, BotRecord
  <1>2. [bot_dict[k] EXCEPT !.assigned_count = n] = r
    BY <1>1
  <1>3. bot_dict' = [m \in DOMAIN bot_dict |-> IF m = k THEN [bot_dict[k] EXCEPT !.assigned_count = n] ELSE bot_dict[m]]
    BY DEF BotsShaped
  <1>4. bot_dict' = [m \in DOMAIN bot_dict |-> IF m = k THEN r ELSE bot_dict[m]]
    BY <1>2, <1>3
  <1>5. BotRecord(k, r) /\ r.online = bot_dict[k].online /\ r.assigned_count = n
    BY DEF BotRecord
  <1> HIDE DEF r
  <1> QED BY <1>4, <1>5 DEF BotsShaped

\* Another set of options leaves an assignment to its bot.
LEMMA OptionsChanged ==
  ASSUME NEW c \in DOMAIN channel_dict, AssignedShaped(channel_dict), NEW on
  PROVE  [channel_dict[c] EXCEPT !.on = on] = [bot |-> channel_dict[c].bot, on |-> on]
  BY DEF AssignedShaped

\* What one more and one less channel do to the counts.
LEMMA AssignCounts ==
  ASSUME AssignedShaped(channel_dict), CountsExact(bot_dict, channel_dict), BotsShaped(bot_dict),
         NEW k \in DOMAIN bot_dict, NEW c, c \notin DOMAIN channel_dict, NEW r, r = [bot |-> k, on |-> r.on],
         channel_dict' = Entered(channel_dict, c, r),
         bot_dict' = [bot_dict EXCEPT ![k].assigned_count = @ + 1]
  PROVE  AssignedShaped(channel_dict') /\ CountsExact(bot_dict', channel_dict') /\ BotsShaped(bot_dict')
  <1>1. /\ BotsShaped(bot_dict') /\ DOMAIN bot_dict' = DOMAIN bot_dict
        /\ bot_dict'[k].assigned_count = bot_dict[k].assigned_count + 1
        /\ \A m \in DOMAIN bot_dict : m # k => bot_dict'[m].assigned_count = bot_dict[m].assigned_count
    BY CountChanged
  <1>2. AssignedShaped(channel_dict')
    <2>1. IsFiniteSet(DOMAIN channel_dict \cup {c})
      BY FS_AddElement DEF AssignedShaped
    <2> QED BY <2>1 DEF AssignedShaped, Entered
  <1>3. Cardinality(Using(k, channel_dict')) = Cardinality(Using(k, channel_dict)) + 1
    <2>1. Using(k, channel_dict') = Using(k, channel_dict) \cup {c} /\ c \notin Using(k, channel_dict)
      BY DEF Using, Entered
    <2> QED BY <2>1, UsingFinite, FS_AddElement
  <1>4. \A n : n # k => Using(n, channel_dict') = Using(n, channel_dict)
    BY DEF Using, Entered
  <1> QED BY <1>1, <1>2, <1>3, <1>4 DEF CountsExact

LEMMA UnassignCounts ==
  ASSUME AssignedShaped(channel_dict), CountsExact(bot_dict, channel_dict), BotsShaped(bot_dict),
         NEW c \in DOMAIN channel_dict, NEW k \in DOMAIN bot_dict, channel_dict[c].bot = k,
         channel_dict' = Restrict(channel_dict, DOMAIN channel_dict \ {c}),
         bot_dict' = [bot_dict EXCEPT ![k].assigned_count = @ - 1]
  PROVE  AssignedShaped(channel_dict') /\ CountsExact(bot_dict', channel_dict') /\ BotsShaped(bot_dict')
  <1>1. /\ BotsShaped(bot_dict') /\ DOMAIN bot_dict' = DOMAIN bot_dict
        /\ bot_dict'[k].assigned_count = bot_dict[k].assigned_count - 1
        /\ \A m \in DOMAIN bot_dict : m # k => bot_dict'[m].assigned_count = bot_dict[m].assigned_count
    BY CountChanged
  <1>2. channel_dict' = [d \in DOMAIN channel_dict \ {c} |-> channel_dict[d]]
    BY DEF Restrict
  <1>3. AssignedShaped(channel_dict')
    <2>1. IsFiniteSet(DOMAIN channel_dict \ {c})
      BY FS_RemoveElement DEF AssignedShaped
    <2> QED BY <1>2, <2>1 DEF AssignedShaped
  <1>4. Cardinality(Using(k, channel_dict')) = Cardinality(Using(k, channel_dict)) - 1
    <2>1. Using(k, channel_dict') = Using(k, channel_dict) \ {c} /\ c \in Using(k, channel_dict)
      BY <1>2 DEF Using
    <2> QED BY <2>1, UsingFinite, FS_RemoveElement
  <1>5. \A n : n # k => Using(n, channel_dict') = Using(n, channel_dict)
    BY <1>2 DEF Using
  <1>6. \A n \in DOMAIN bot_dict : n # k => bot_dict'[n].assigned_count = Cardinality(Using(n, channel_dict'))
    BY <1>1, <1>5 DEF CountsExact
  <1>7. bot_dict'[k].assigned_count = Cardinality(Using(k, channel_dict'))
    BY <1>1, <1>4 DEF CountsExact
  <1> QED BY <1>1, <1>3, <1>6, <1>7 DEF CountsExact

\* A channel without an assignment has no bot.
LEMMA NotItsBot ==
  ASSUME BotsInv, NEW c \in DOMAIN botChannels, c \notin DOMAIN channel_dict
  PROVE  botChannels[c].channel_bot = NoBot
  BY DEF BotsInv, BotsLive, BotLive

LEMMA AssignKeeps ==
  ASSUME BotsInv, NEW c, NEW k, cmd_assign(c, k)
  PROVE  BotsInv'
  <1> USE DEF BotsInv
  <1>1. k \in DOMAIN bot_dict /\ c \notin DOMAIN channel_dict
    BY DEF cmd_assign
  <1>2. k # NoBot /\ k # "ChanServ" /\ bot_dict[k].nick = k
    BY <1>1, BotNamed
  <1> DEFINE r == [bot |-> k, on |-> BotOptions \cap {"dontkickops", "fantasy"}]
  <1>3. /\ channel_dict' = Entered(channel_dict, c, r)
        /\ bot_dict' = [bot_dict EXCEPT ![k].assigned_count = @ + 1]
    BY <1>2 DEF cmd_assign
  <1>4. AssignedShaped(channel_dict') /\ CountsExact(bot_dict', channel_dict') /\ BotsShaped(bot_dict')
    <2>1. r = [bot |-> k, on |-> r.on]
      OBVIOUS
    <2> HIDE DEF r
    <2> QED BY <1>1, <1>3, <2>1, AssignCounts
  <1>5. /\ DOMAIN bot_dict' = DOMAIN bot_dict
        /\ \A n \in DOMAIN bot_dict : bot_dict'[n].online = bot_dict[n].online
    BY <1>1, <1>3 DEF BotsShaped, BotRecord
  <1>6. /\ DOMAIN channel_dict' = DOMAIN channel_dict \cup {c} /\ channel_dict'[c].bot = k
        /\ \A d \in DOMAIN channel_dict : channel_dict'[d] = channel_dict[d]
    BY <1>1, <1>3 DEF Entered
  <1>7. AssignedExist(bot_dict', channel_dict')
    BY <1>1, <1>5, <1>6 DEF AssignedExist
  <1>8. \A d \in DOMAIN botChannels : BotLive(d, botChannels[d], bot_dict', channel_dict')
    BY <1>5, <1>6 DEF BotsLive, BotLive
  <1>9. CASE bot_dict[k].online /\ c \in DOMAIN botChannels
    <2>1. botChannels' = TakesOver(botChannels, c, k, TRUE)
      BY <1>9 DEF cmd_assign
    <2>2. botChannels[c].channel_bot = NoBot
      BY <1>1, <1>9, NotItsBot
    <2>3. bot_dict'[k].online /\ k \in DOMAIN bot_dict' /\ c \in DOMAIN channel_dict'
      BY <1>1, <1>5, <1>6, <1>9
    <2>4. ChannelsShaped(botChannels') /\ BotsLive(botChannels', bot_dict', channel_dict')
      BY <1>2, <1>6, <1>8, <1>9, <2>1, <2>2, <2>3, TakesOverLive
    <2> QED BY <1>4, <1>7, <2>4
  <1>10. CASE ~(bot_dict[k].online /\ c \in DOMAIN botChannels)
    <2>1. botChannels' = botChannels
      BY <1>10 DEF cmd_assign
    <2> QED BY <1>4, <1>7, <1>8, <2>1 DEF BotsLive
  <1> QED BY <1>9, <1>10

LEMMA UnassignKeeps ==
  ASSUME BotsInv, NEW c, cmd_unassign(c)
  PROVE  BotsInv'
  <1> USE DEF BotsInv
  <1> DEFINE k == channel_dict[c].bot
  <1>1. c \in DOMAIN channel_dict /\ k \in DOMAIN bot_dict /\ BotOf(c) # {}
    BY DEF cmd_unassign, AssignedExist, BotOf
  <1>2. /\ channel_dict' = Restrict(channel_dict, DOMAIN channel_dict \ {c})
        /\ bot_dict' = [bot_dict EXCEPT ![k].assigned_count = @ - 1]
        /\ botChannels' = IF bot_dict[k].online /\ c \in DOMAIN botChannels THEN Released(c, k) ELSE botChannels
    BY <1>1 DEF cmd_unassign
  <1> HIDE DEF k
  <1>3. AssignedShaped(channel_dict') /\ CountsExact(bot_dict', channel_dict') /\ BotsShaped(bot_dict')
    BY <1>1, <1>2, UnassignCounts DEF k
  <1>4. /\ DOMAIN bot_dict' = DOMAIN bot_dict
        /\ \A n \in DOMAIN bot_dict : bot_dict'[n].online = bot_dict[n].online
    BY <1>1, <1>2 DEF BotsShaped, BotRecord
  <1>5. channel_dict' = [d \in DOMAIN channel_dict \ {c} |-> channel_dict[d]]
    BY <1>2 DEF Restrict
  <1>6. AssignedExist(bot_dict', channel_dict')
    BY <1>4, <1>5 DEF AssignedExist
  <1>7. \A d \in DOMAIN botChannels : d # c => BotLive(d, botChannels[d], bot_dict', channel_dict')
    BY <1>4, <1>5 DEF BotsLive, BotLive
  <1>8. CASE bot_dict[k].online /\ c \in DOMAIN botChannels
    <2> DEFINE r == [members |-> (botChannels[c].members \ {k}) \cup (IF botChannels[c].registered THEN {"ChanServ"} ELSE {}),
                     registered |-> botChannels[c].registered, channel_bot |-> NoBot]
               chs == [d \in DOMAIN botChannels |-> IF d = c THEN r ELSE botChannels[d]]
    <2>1. ChannelRecord(botChannels[c])
      BY <1>8 DEF ChannelsShaped
    <2>2. botChannels' = Settled(chs)
      BY <1>2, <1>8 DEF Released, ChannelsShaped
    <2>3. ChannelRecord(r) /\ BotLive(c, r, bot_dict', channel_dict')
      BY DEF ChannelRecord, BotLive
    <2>4. ChannelsShaped(chs) /\ BotsLive(chs, bot_dict', channel_dict')
      <3> HIDE DEF r
      <3> QED BY <1>7, <2>3, RecordReplaced
    <2> HIDE DEF chs
    <2>5. ChannelsShaped(botChannels') /\ BotsLive(botChannels', bot_dict', channel_dict')
      BY <2>2, <2>4, SettledLive
    <2> QED BY <1>3, <1>6, <2>5
  <1>9. CASE ~(bot_dict[k].online /\ c \in DOMAIN botChannels)
    <2>1. botChannels' = botChannels
      BY <1>2, <1>9
    <2>2. \A d \in DOMAIN botChannels : BotLive(d, botChannels[d], bot_dict', channel_dict')
      BY <1>7, <1>9 DEF BotsLive, BotLive, k
    <2> QED BY <1>3, <1>6, <2>1, <2>2 DEF BotsLive
  <1> QED BY <1>8, <1>9

LEMMA SetOptionKeeps ==
  ASSUME BotsInv, NEW c, NEW o, cmd_set_option(c, o)
  PROVE  BotsInv'
  <1> USE DEF BotsInv
  <1>1. PICK on \in {{}, {o}} : channel_dict' = [channel_dict EXCEPT ![c].on = (@ \ {o}) \cup on]
    BY DEF cmd_set_option
  <1>2. c \in DOMAIN channel_dict /\ UNCHANGED <<bot_dict, botChannels>>
    BY DEF cmd_set_option
  <1>3. /\ AssignedShaped(channel_dict') /\ DOMAIN channel_dict' = DOMAIN channel_dict
        /\ \A d \in DOMAIN channel_dict : channel_dict'[d].bot = channel_dict[d].bot
    <2> DEFINE opts == (channel_dict[c].on \ {o}) \cup on
               r == [bot |-> channel_dict[c].bot, on |-> opts]
    <2>1. channel_dict' = [channel_dict EXCEPT ![c].on = opts]
      BY <1>1
    <2> HIDE DEF opts
    <2>2. channel_dict' = [d \in DOMAIN channel_dict |-> IF d = c THEN [channel_dict[c] EXCEPT !.on = opts] ELSE channel_dict[d]]
      BY <2>1 DEF AssignedShaped
    <2>3. [channel_dict[c] EXCEPT !.on = opts] = r
      BY <1>2, OptionsChanged
    <2>4. channel_dict' = [d \in DOMAIN channel_dict |-> IF d = c THEN r ELSE channel_dict[d]]
      BY <2>2, <2>3
    <2>5. r = [bot |-> r.bot, on |-> r.on] /\ r.bot = channel_dict[c].bot
      OBVIOUS
    <2> HIDE DEF r
    <2> QED BY <2>4, <2>5 DEF AssignedShaped
  <1>4. \A n : Using(n, channel_dict') = Using(n, channel_dict)
    BY <1>3 DEF Using
  <1>5. CountsExact(bot_dict', channel_dict') /\ AssignedExist(bot_dict', channel_dict')
    BY <1>2, <1>3, <1>4 DEF CountsExact, AssignedExist
  <1>6. BotsLive(botChannels', bot_dict', channel_dict')
    BY <1>2, <1>3 DEF BotsLive, BotLive
  <1> QED BY <1>2, <1>3, <1>5, <1>6

LEMMA BotAddKeeps ==
  ASSUME BotsInv, NEW n \in BotNicks, NEW b, cmd_bot_add(n, b)
  PROVE  BotsInv'
  <1> USE DEF BotsInv
  <1> DEFINE r == [nick |-> n, online |-> b, assigned_count |-> 0]
  <1>1. n \notin DOMAIN bot_dict /\ bot_dict' = Entered(bot_dict, n, r) /\ UNCHANGED <<channel_dict, botChannels>>
    BY DEF cmd_bot_add
  <1>2. BotRecord(n, r) /\ r.assigned_count = 0
    BY DEF BotRecord
  <1> HIDE DEF r
  <1>3. /\ BotsShaped(bot_dict') /\ DOMAIN bot_dict' = DOMAIN bot_dict \cup {n} /\ bot_dict'[n] = r
        /\ \A k \in DOMAIN bot_dict : bot_dict'[k] = bot_dict[k]
    BY <1>1, <1>2 DEF BotsShaped, Entered
  <1>4. Cardinality(Using(n, channel_dict)) = 0
    <2>1. Using(n, channel_dict) = {}
      BY <1>1 DEF Using, AssignedExist
    <2> QED BY <2>1, FS_EmptySet
  <1>5. CountsExact(bot_dict', channel_dict')
    BY <1>1, <1>2, <1>3, <1>4 DEF CountsExact
  <1>6. AssignedExist(bot_dict', channel_dict') /\ BotsLive(botChannels', bot_dict', channel_dict')
    BY <1>1, <1>3 DEF AssignedExist, BotsLive, BotLive
  <1> QED BY <1>1, <1>3, <1>5, <1>6

\* A bot whose count is not above zero is assigned to no channel, so no channel speaks through it.
LEMMA BotDelKeeps ==
  ASSUME BotsInv, NEW k, cmd_bot_del(k)
  PROVE  BotsInv'
  <1> USE DEF BotsInv
  <1> DEFINE chs == [c \in DOMAIN botChannels |-> [botChannels[c] EXCEPT !.members = @ \ {k}]]
  <1>1. /\ k \in DOMAIN bot_dict /\ bot_dict[k].assigned_count <= 0
        /\ bot_dict' = [n \in DOMAIN bot_dict \ {k} |-> bot_dict[n]]
        /\ botChannels' = Settled(chs) /\ channel_dict' = channel_dict
    BY DEF cmd_bot_del, Restrict
  <1>2. Using(k, channel_dict) = {}
    <2>1. Cardinality(Using(k, channel_dict)) <= 0
      BY <1>1 DEF CountsExact
    <2> QED BY <2>1, UsingFinite, FS_CardinalityType, FS_EmptySet
  <1>3. BotsShaped(bot_dict')
    BY <1>1 DEF BotsShaped
  <1>4. CountsExact(bot_dict', channel_dict')
    BY <1>1 DEF CountsExact
  <1>5. \A c \in DOMAIN channel_dict : channel_dict[c].bot # k
    BY <1>2 DEF Using
  <1>6. AssignedExist(bot_dict', channel_dict')
    BY <1>1, <1>5 DEF AssignedExist
  <1>7. \A c \in DOMAIN botChannels :
           chs[c] = [members |-> botChannels[c].members \ {k}, registered |-> botChannels[c].registered,
                     channel_bot |-> botChannels[c].channel_bot]
    BY DEF ChannelsShaped, ChannelRecord
  <1>8. ChannelsShaped(chs)
    BY <1>7 DEF ChannelsShaped, ChannelRecord
  <1>9. BotsLive(chs, bot_dict', channel_dict')
    <2> SUFFICES ASSUME NEW c \in DOMAIN chs PROVE BotLive(c, chs[c], bot_dict', channel_dict')
      BY DEF BotsLive
    <2>1. BotLive(c, botChannels[c], bot_dict, channel_dict)
      BY DEF BotsLive
    <2>2. /\ chs[c].members = botChannels[c].members \ {k}
          /\ chs[c].channel_bot = botChannels[c].channel_bot
      BY <1>7
    <2> HIDE DEF chs
    <2>3. /\ DOMAIN bot_dict' = DOMAIN bot_dict \ {k} /\ channel_dict' = channel_dict
          /\ \A n \in DOMAIN bot_dict' : bot_dict'[n] = bot_dict[n]
      BY <1>1
    <2> QED BY <1>5, <2>1, <2>2, <2>3 DEF BotLive
  <1> HIDE DEF chs
  <1>10. ChannelsShaped(botChannels') /\ BotsLive(botChannels', bot_dict', channel_dict')
    BY <1>1, <1>8, <1>9, SettledLive
  <1> QED BY <1>1, <1>3, <1>4, <1>6, <1>10

LEMMA JoinKeepsBots ==
  ASSUME BotsInv, NEW c, botserv_handle_join(c)
  PROVE  BotsInv'
  <1> USE DEF BotsInv
  <1> DEFINE there == IF c \in DOMAIN botChannels THEN botChannels
                      ELSE Entered(botChannels, c, [members |-> {}, registered |-> FALSE, channel_bot |-> NoBot])
             comes == c \in DOMAIN channel_dict /\ \E k \in BotOf(c) : bot_dict[k].online
  <1>1. /\ botChannels' = IF comes THEN TakesOver(there, c, channel_dict[c].bot, FALSE) ELSE there
        /\ UNCHANGED <<bot_dict, channel_dict>>
    BY DEF botserv_handle_join
  <1>2. c \in DOMAIN there /\ ChannelsShaped(there) /\ BotsLive(there, bot_dict, channel_dict)
    <2>1. CASE c \in DOMAIN botChannels
      BY <2>1
    <2>2. CASE c \notin DOMAIN botChannels
      BY <2>2 DEF Entered, ChannelsShaped, ChannelRecord, BotsLive, BotLive
    <2> QED BY <2>1, <2>2
  <1> HIDE DEF there
  <1>3. CASE comes
    <2> DEFINE k == channel_dict[c].bot
    <2>1. k \in DOMAIN bot_dict /\ bot_dict[k].online /\ c \in DOMAIN channel_dict
      BY <1>3 DEF BotOf
    <2>2. k # "ChanServ"
      BY <2>1, BotNamed
    <2>3. there[c].channel_bot # NoBot => there[c].channel_bot = k
      BY <1>2 DEF BotsLive, BotLive
    <2>4. \A d \in DOMAIN there : d # c => BotLive(d, there[d], bot_dict, channel_dict)
      BY <1>2 DEF BotsLive
    <2>5. botChannels' = TakesOver(there, c, k, FALSE)
      BY <1>1, <1>3
    <2>6. channel_dict[c].bot = k
      OBVIOUS
    <2> HIDE DEF k
    <2>7. ChannelsShaped(botChannels') /\ BotsLive(botChannels', bot_dict, channel_dict)
      BY <1>2, <2>1, <2>2, <2>3, <2>4, <2>5, <2>6, TakesOverLive
    <2> QED BY <1>1, <2>7
  <1>4. CASE ~comes
    BY <1>1, <1>2, <1>4
  <1> QED BY <1>3, <1>4

LEMMA LastLeavesKeeps ==
  ASSUME BotsInv, NEW c, LastLeaves(c)
  PROVE  BotsInv'
  <1>1. botChannels' = Settled(botChannels) /\ UNCHANGED <<bot_dict, channel_dict>>
    BY DEF LastLeaves
  <1>2. ChannelsShaped(botChannels') /\ BotsLive(botChannels', bot_dict, channel_dict)
    BY <1>1, SettledLive DEF BotsInv
  <1> QED BY <1>1, <1>2 DEF BotsInv

LEMMA RegisterKeepsBots ==
  ASSUME BotsInv, NEW c, RegisterChannel(c)
  PROVE  BotsInv'
  <1> USE DEF BotsInv
  <1> DEFINE r == [members |-> botChannels[c].members \cup {"ChanServ"}, registered |-> TRUE,
                   channel_bot |-> botChannels[c].channel_bot]
  <1>1. c \in DOMAIN botChannels /\ UNCHANGED <<bot_dict, channel_dict>>
    BY DEF RegisterChannel
  <1>2. ChannelRecord(botChannels[c]) /\ BotLive(c, botChannels[c], bot_dict, channel_dict)
    BY <1>1 DEF ChannelsShaped, BotsLive
  <1>3. botChannels' = [d \in DOMAIN botChannels |-> IF d = c THEN r ELSE botChannels[d]]
    BY DEF RegisterChannel, ChannelsShaped
  <1>4. ChannelRecord(r) /\ BotLive(c, r, bot_dict, channel_dict)
    BY <1>2 DEF ChannelRecord, BotLive
  <1>5. \A d \in DOMAIN botChannels : d # c => BotLive(d, botChannels[d], bot_dict, channel_dict)
    BY DEF BotsLive
  <1> HIDE DEF r
  <1>6. ChannelsShaped(botChannels') /\ BotsLive(botChannels', bot_dict, channel_dict)
    BY <1>3, <1>4, <1>5, RecordReplaced
  <1> QED BY <1>1, <1>6

LEMMA UnregisterKeepsBots ==
  ASSUME BotsInv, NEW c, UnregisterChannel(c)
  PROVE  BotsInv'
  <1> USE DEF BotsInv
  <1> DEFINE r == [members |-> botChannels[c].members \ {"ChanServ"}, registered |-> FALSE, channel_bot |-> NoBot]
             chs == [d \in DOMAIN botChannels |-> IF d = c THEN r ELSE botChannels[d]]
  <1>1. c \in DOMAIN botChannels /\ UNCHANGED <<bot_dict, channel_dict>>
    BY DEF UnregisterChannel
  <1>2. ChannelRecord(botChannels[c])
    BY <1>1 DEF ChannelsShaped
  <1>3. botChannels' = Settled(chs)
    BY DEF UnregisterChannel, ChannelsShaped
  <1>4. ChannelRecord(r) /\ BotLive(c, r, bot_dict, channel_dict)
    BY DEF ChannelRecord, BotLive
  <1>5. \A d \in DOMAIN botChannels : d # c => BotLive(d, botChannels[d], bot_dict, channel_dict)
    BY DEF BotsLive
  <1>6. ChannelsShaped(chs) /\ BotsLive(chs, bot_dict, channel_dict)
    <2> HIDE DEF r
    <2> QED BY <1>4, <1>5, RecordReplaced
  <1> HIDE DEF chs
  <1>7. ChannelsShaped(botChannels') /\ BotsLive(botChannels', bot_dict, channel_dict)
    BY <1>3, <1>6, SettledLive
  <1> QED BY <1>1, <1>7

\* After a restart every bot is found under its nick and counts its assignments.
LEMMA FinalizeKeeps ==
  ASSUME BotsInv, botserv_finalize
  PROVE  BotsInv'
  <1> USE DEF BotsInv
  <1> DEFINE nicks == {bot_dict[k].nick : k \in DOMAIN bot_dict}
             used(n) == Cardinality({c \in DOMAIN channel_dict : channel_dict[c].bot = n})
             kept == {d \in DOMAIN botChannels : botChannels[d].registered}
             assigned == {c \in DOMAIN channel_dict : channel_dict[c].bot \in nicks}
  <1>1. nicks = DOMAIN bot_dict
    BY BotNamed
  <1>2. /\ bot_dict' = [n \in DOMAIN bot_dict |-> [nick |-> n, online |-> TRUE, assigned_count |-> used(n)]]
        /\ channel_dict' = [c \in DOMAIN channel_dict |-> [channel_dict[c] EXCEPT !.on = @ \ UnsavedOptions]]
    BY <1>1 DEF botserv_finalize
  <1>3. botChannels' = [c \in kept \cup assigned |->
           IF c \notin assigned THEN [members |-> {"ChanServ"}, registered |-> TRUE, channel_bot |-> NoBot]
           ELSE [members |-> {channel_dict[c].bot}, registered |-> c \in kept,
                 channel_bot |-> IF c \in kept THEN channel_dict[c].bot ELSE NoBot]]
    BY DEF botserv_finalize
  <1>4. BotsShaped(bot_dict')
    BY <1>2 DEF BotsShaped, BotRecord
  <1>5. /\ AssignedShaped(channel_dict') /\ DOMAIN channel_dict' = DOMAIN channel_dict
        /\ \A c \in DOMAIN channel_dict : channel_dict'[c].bot = channel_dict[c].bot
    <2> DEFINE r(c) == [bot |-> channel_dict[c].bot, on |-> channel_dict[c].on \ UnsavedOptions]
    <2>1. \A c \in DOMAIN channel_dict : [channel_dict[c] EXCEPT !.on = channel_dict[c].on \ UnsavedOptions] = r(c)
      BY OptionsChanged
    <2>2. channel_dict' = [c \in DOMAIN channel_dict |-> r(c)]
      BY <1>2, <2>1
    <2>3. \A c : r(c) = [bot |-> r(c).bot, on |-> r(c).on] /\ r(c).bot = channel_dict[c].bot
      OBVIOUS
    <2> HIDE DEF r
    <2> QED BY <2>2, <2>3 DEF AssignedShaped
  <1>6. CountsExact(bot_dict', channel_dict')
    <2>1. \A n : Using(n, channel_dict') = {c \in DOMAIN channel_dict : channel_dict[c].bot = n}
      BY <1>5 DEF Using
    <2> QED BY <1>2, <2>1 DEF CountsExact
  <1>7. AssignedExist(bot_dict', channel_dict')
    BY <1>2, <1>5 DEF AssignedExist
  <1>8. ChannelsShaped(botChannels')
    BY <1>3 DEF ChannelsShaped, ChannelRecord
  <1>9. BotsLive(botChannels', bot_dict', channel_dict')
    BY <1>1, <1>2, <1>3, <1>5 DEF BotsLive, BotLive
  <1> QED BY <1>4, <1>5, <1>6, <1>7, <1>8, <1>9

LEMMA BotsInvStart == BotInit => BotsInv
  <1> SUFFICES ASSUME BotInit PROVE BotsInv
    OBVIOUS
  <1>1. BotsShaped(bot_dict) /\ CountsExact(bot_dict, channel_dict)
    BY DEF BotInit, NoEntries, BotsShaped, CountsExact
  <1>2. AssignedShaped(channel_dict) /\ AssignedExist(bot_dict, channel_dict)
    BY FS_EmptySet DEF BotInit, NoEntries, AssignedShaped, AssignedExist
  <1>3. ChannelsShaped(botChannels) /\ BotsLive(botChannels, bot_dict, channel_dict)
    <2> DEFINE r == [members |-> {"ChanServ"}, registered |-> TRUE, channel_bot |-> NoBot]
    <2>1. ChannelRecord(r) /\ \A c : BotLive(c, r, bot_dict, channel_dict)
      BY DEF ChannelRecord, BotLive
    <2>2. botChannels = [c \in BotChannels |-> r] \/ botChannels = [c \in {} |-> NoBot]
      BY DEF BotInit, NoEntries
    <2> HIDE DEF r
    <2> QED BY <2>1, <2>2 DEF ChannelsShaped, BotsLive
  <1> QED BY <1>1, <1>2, <1>3 DEF BotsInv

LEMMA BotsStep ==
  ASSUME BotRenames = {}, BotsInv, [BotNext]_botVars
  PROVE  BotsInv'
  <1>1. CASE UNCHANGED botVars
    BY <1>1 DEF botVars, BotsInv
  <1>2. ASSUME NEW c, NEW k, cmd_assign(c, k) PROVE BotsInv'
    BY <1>2, AssignKeeps
  <1>3. ASSUME NEW c, cmd_unassign(c) \/ botserv_handle_join(c) \/ LastLeaves(c) \/ RegisterChannel(c) \/ UnregisterChannel(c)
        PROVE BotsInv'
    BY <1>3, UnassignKeeps, JoinKeepsBots, LastLeavesKeeps, RegisterKeepsBots, UnregisterKeepsBots
  <1>4. ASSUME NEW c, NEW o, cmd_set_option(c, o) PROVE BotsInv'
    BY <1>4, SetOptionKeeps
  <1>5. ASSUME NEW n \in BotNicks, NEW b, cmd_bot_add(n, b) PROVE BotsInv'
    BY <1>5, BotAddKeeps
  <1>6. ASSUME NEW k, cmd_bot_del(k) PROVE BotsInv'
    BY <1>6, BotDelKeeps
  <1>7. CASE botserv_finalize
    BY <1>7, FinalizeKeeps
  <1> QED BY <1>1, <1>2, <1>3, <1>4, <1>5, <1>6, <1>7 DEF BotNext

\* A channel speaks through a bot that is on the network, in the channel and assigned to it, and
\* the count that decides whether BOT DEL may free a bot is the number of its channels
\* (cmd_bot_del, cmd_assign, cmd_unassign, botserv_finalize), as long as no bot is renamed.
THEOREM BotsStayLive ==
  ASSUME BotRenames = {}
  PROVE  BotSpec => [](ChannelBotLive /\ CountExact)
  <1>1. BotInit => BotsInv
    BY BotsInvStart
  <1>2. BotsInv /\ [BotNext]_botVars => BotsInv'
    BY BotsStep
  <1>3. BotsInv => ChannelBotLive /\ CountExact
    BY DEF BotsInv, BotsLive, BotLive, ChannelBotLive, CountsExact, Using, CountExact
  <1> QED BY <1>1, <1>2, <1>3, PTL DEF BotSpec
====
